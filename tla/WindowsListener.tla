--------------------------- MODULE WindowsListener ---------------------------
(***************************************************************************)
(* listener_windows.py: the WebSocket handler and class UnlockService of   *)
(* the Windows build, with the phone app that talks to it                  *)
(* (mobile-app/src/network.js).  The handler runs from one await to the    *)
(* next in one step.  Every connection is given one nonce, which carries   *)
(* the connection's name; a response may carry the nonce of another one.   *)
(* Blocking calls (alerts, the shutdown command) may hold up the event     *)
(* loop for any time, so nothing forces a timeout to be handled at once.   *)
(***************************************************************************)
EXTENDS Integers, Sequences, FiniteSets

CONSTANTS
    Conns,         \* connections, and the nonces they are given
    Blank, Refusal, \* see CredentialTile
    NonceTtl,      \* NONCE_TTL
    MaxClockSkew,  \* MAX_CLOCK_SKEW
    RateWindow,    \* RATE_LIMIT_WINDOW
    MaxFails,      \* RATE_LIMIT_MAX_FAILS
    RecvSlack,     \* seconds recv() may take beyond NONCE_TTL (2)
    Skews,         \* how far the phone's clock may be ahead
    LastArrival,   \* bound: nobody connects after this time
    MaxTime        \* bound on the clock

ASSUME WindowsAssumption ==
    /\ {NonceTtl, MaxFails} \subseteq Nat \ {0}
    /\ {MaxClockSkew, RateWindow, RecvSlack} \subseteq Nat
    /\ Skews \subseteq Int
    /\ LastArrival \in Nat /\ MaxTime \in Nat

VARIABLES
    now,       \* time.time()
    sess,      \* the connections and where their handlers are
    pending,   \* _pending_nonces: nonce -> time of issue
    used,      \* _used_nonces
    fails,     \* _fail_times
    shutdownEnabled,  \* config["shutdown_enabled"]
    pipe,      \* the pipe of CredentialTile
    phone,     \* the runCommand() call behind a connection
    signed,    \* <<action, nonce, timestamp>> whose signature by the phone verifies
    approvals, \* history: responses verify() returned True for, each with the
               \* age of its nonce and the distance of its timestamp
    tried      \* history: times of the responses verify() examined and refused
               \* since the listener was started

serviceVars == <<pending, used, fails, approvals, tried>>
listenerVars == <<now, sess, serviceVars, shutdownEnabled, phone, signed>>

Actions == {"unlock", "shutdown"}

NoMail == <<>>

\* mail: the response on its way; nonce, action, ok: what the handler is
\* reporting.
IdleSession == [pc |-> "idle", deadline |-> 0, mail |-> NoMail, nonce |-> Blank,
                action |-> "unlock", ok |-> FALSE]

NoPhone == [pc |-> "none", action |-> "unlock"]

Init ==
    /\ now = 0
    /\ sess = [c \in Conns |-> IdleSession]
    /\ pending = [n \in {} |-> 0] /\ used = {} /\ fails = <<>>
    /\ shutdownEnabled \in BOOLEAN
    /\ phone = [c \in Conns |-> NoPhone]
    /\ signed = {} /\ approvals = {} /\ tried = <<>>

----------------------------------------------------------------------------
(* The service *)

\* issue_challenge(): the new nonce, then the nonces that are still young.
Issued(c) ==
    LET all == [n \in DOMAIN pending \cup {c} |-> IF n = c THEN now ELSE pending[n]]
    IN [n \in {m \in DOMAIN all : now - all[m] < NonceTtl} |-> all[n]]

\* The deque after _rate_limited(), which drops the first failure as long as it
\* is too old.
Recent ==
    LET old == {i \in 1 .. Len(fails) : \A j \in 1 .. i : now - fails[j] > RateWindow}
    IN SubSeq(fails, Cardinality(old) + 1, Len(fails))

\* Faulty variant of RateLimited: one failure too many.
RateLimitedLate == Len(Recent) > MaxFails

RateLimited == Len(Recent) >= MaxFails

Apart(t, u) == IF t < u THEN u - t ELSE t - u

\* Faulty variant of Verdict: the age of the nonce is not looked at.
VerdictAgeless(m, good) ==
    /\ m[2] \in DOMAIN pending \ used
    /\ Apart(now, m[3]) <= MaxClockSkew + NonceTtl
    /\ good

\* The checks of verify() after the rate limit, for a response m whose
\* signature is good or not.
Verdict(m, good) ==
    /\ m[2] \in DOMAIN pending \ used
    /\ now - pending[m[2]] <= NonceTtl
    /\ Apart(now, m[3]) <= MaxClockSkew + NonceTtl
    /\ good

\* Faulty variant of UsedAfter: the nonce is not remembered.
UsedAfterNothing(m, ok) == used

\* _used_nonces after verify().
UsedAfter(m, ok) == IF ok THEN used \cup {m[2]} ELSE used

\* verify() on the response m: a rate-limited one costs nothing and leaves the
\* nonce pending, any other one uses the nonce up.
Verify(m, good, ok) ==
    /\ ok = (~RateLimited /\ Verdict(m, good))
    /\ IF RateLimited
       THEN fails' = Recent /\ UNCHANGED <<pending, tried>>
       ELSE /\ pending' = [n \in DOMAIN pending \ {m[2]} |-> pending[n]]
            /\ fails' = IF ok THEN Recent ELSE Append(Recent, now)
            /\ tried' = IF ok THEN tried ELSE Append(tried, now)
    /\ used' = UsedAfter(m, ok)
    /\ approvals' = IF ok THEN approvals \cup
                            {<<m, now - pending[m[2]], Apart(now, m[3])>>}
                      ELSE approvals

\* signal_credential_provider(): one write, to a pipe nobody is connected to.  Who
\* else may write it is up to the pipe (see CredentialTile).
Signal(v) ==
    pipe' = IF pipe.state = "open" THEN [state |-> "taken", data |-> v] ELSE pipe

----------------------------------------------------------------------------
(* The handler *)

\* The peer of c is gone or may go: a stranger, or a phone that has finished.
Absent(c) == phone[c].pc \in {"none", "settled"}

\* The handler returns.
Close(c) == sess' = [sess EXCEPT ![c] = [IdleSession EXCEPT !.pc = "closed"]]

\* The start of the handler.  The peer is the phone app, running a command, or
\* anybody else; a command that finds no connection never reaches the laptop.
Connect(c, peer) ==
    /\ sess[c].pc = "idle" /\ now <= LastArrival
    /\ pending' = Issued(c)
    /\ sess' = [sess EXCEPT ![c].pc = "waiting", ![c].deadline = now + NonceTtl + RecvSlack]
    /\ phone' = [phone EXCEPT ![c] =
                    IF peer \in Actions
                    THEN [pc |-> "asked", action |-> peer]
                    ELSE NoPhone]
    /\ UNCHANGED <<now, used, fails, approvals, tried, shutdownEnabled, pipe, signed>>

\* The response m arrives on c: a disabled shutdown is refused at once, anything
\* else is verified and the result is sent.
Respond(c, m, good) ==
    /\ sess[c].pc = "waiting"
    /\ IF m[1] = "shutdown" /\ ~shutdownEnabled
       THEN /\ Close(c)
            /\ UNCHANGED serviceVars
       ELSE \E ok \in BOOLEAN :
              /\ Verify(m, good, ok)
              /\ sess' = [sess EXCEPT ![c].pc = "replying", ![c].mail = NoMail,
                            ![c].nonce = IF ok THEN m[2] ELSE Blank,
                            ![c].action = m[1], ![c].ok = ok]
    /\ UNCHANGED <<now, shutdownEnabled, pipe, phone, signed>>

\* A response of the phone on its own connection, one that was signed for any
\* connection, or one whose signature does not fit.
Receive(c) ==
    \/ sess[c].mail # NoMail /\ Respond(c, sess[c].mail, sess[c].mail \in signed)
    \/ /\ phone[c].pc = "none"
       /\ \/ \E m \in signed : Respond(c, m, TRUE)
          \/ \E a \in Actions, n \in Conns : Respond(c, <<a, n, now>>, FALSE)

\* A message of another type or with an unknown action: refused, not verified.
Misfit(c) ==
    /\ sess[c].pc = "waiting" /\ phone[c].pc = "none"
    /\ Close(c)
    /\ UNCHANGED <<now, serviceVars, shutdownEnabled, pipe, phone, signed>>

\* recv() times out, or the message is no JSON or lacks a field: the login
\* screen is told that the phone was rejected.
Malformed(c) ==
    /\ sess[c].pc = "waiting"
    /\ now >= sess[c].deadline \/ phone[c].pc = "none"
    /\ Close(c)
    /\ Signal(Refusal)
    /\ UNCHANGED <<now, serviceVars, shutdownEnabled, phone, signed>>

\* Faulty variant of SignalResult: a shutdown also answers the login screen.
SignalResultAlways(c) == Signal(IF sess[c].ok THEN sess[c].nonce ELSE Refusal)

\* Only an unlock is signalled to the login screen.
SignalResult(c) ==
    IF sess[c].action = "unlock"
    THEN Signal(IF sess[c].ok THEN sess[c].nonce ELSE Refusal)
    ELSE UNCHANGED pipe

\* The nonce for which the handler would now call trigger_shutdown().  The command
\* may fail, which is logged; nothing of the listener's own state changes.
TriggerShutdown(c) ==
    IF sess[c].pc = "replying" /\ sess[c].action = "shutdown" /\ sess[c].ok
    THEN {sess[c].nonce} ELSE {}

\* The result has been sent: the handler acts on it, that is, it signals an unlock
\* to the login screen or calls trigger_shutdown(), and returns.
Reply(c) ==
    /\ sess[c].pc = "replying"
    /\ Close(c)
    /\ SignalResult(c)
    /\ UNCHANGED <<now, serviceVars, shutdownEnabled, phone, signed>>

\* ConnectionClosed, from recv() once every message has been read or from
\* send(); also an exception the handler does not catch (a JSON value that is
\* no object).  The outcome of verify() is dropped.
Drop(c) ==
    /\ sess[c].pc \in {"waiting", "replying"}
    /\ Absent(c) /\ sess[c].mail = NoMail
    /\ Close(c)
    /\ UNCHANGED <<now, serviceVars, shutdownEnabled, pipe, phone, signed>>

Handle(c) ==
    Receive(c) \/ Misfit(c) \/ Malformed(c) \/ Reply(c) \/ Drop(c)

----------------------------------------------------------------------------
(* The phone: runCommand() *)

\* onmessage for the challenge: the owner confirms, the phone signs and sends.
\* JavaScript writes a whole number of seconds without a fraction and Python's
\* float() with one, so a signature made on a whole second does not verify.
\* A socket the laptop has closed swallows the response.
Sign(c) ==
    /\ phone[c].pc = "asked"
    /\ \E k \in Skews, wholeSecond \in BOOLEAN :
         LET m == <<phone[c].action, c, now + k>>
         IN /\ signed' = IF wholeSecond THEN signed ELSE signed \cup {m}
            /\ sess' = [sess EXCEPT ![c].mail = IF sess[c].pc = "waiting" THEN m ELSE @]
    /\ phone' = [phone EXCEPT ![c].pc = "sent"]
    /\ UNCHANGED <<now, serviceVars, shutdownEnabled, pipe>>

\* finish(): the timer, a result, a broken connection or a refused fingerprint.
Settle(c) ==
    /\ phone[c].pc \in {"asked", "sent"}
    /\ phone' = [phone EXCEPT ![c].pc = "settled"]
    /\ UNCHANGED <<now, sess, serviceVars, shutdownEnabled, pipe, signed>>

----------------------------------------------------------------------------
(* The process *)

\* The process ends, at an await or between opening the pipe and writing to it,
\* which the login screen reads as a rejection.  main() then makes a new
\* UnlockService: nonces and failures are kept in memory only.  pairing.json is
\* taken to be the same as before.
Restart ==
    /\ sess' = [c \in Conns |->
                  IF sess[c].pc = "idle" THEN IdleSession ELSE [IdleSession EXCEPT !.pc = "closed"]]
    /\ pending' = [n \in {} |-> 0] /\ used' = {} /\ fails' = <<>> /\ tried' = <<>>
    /\ \/ UNCHANGED pipe
       \/ (\E c \in Conns : sess[c].pc = "replying") /\ Signal(Refusal)
    /\ UNCHANGED <<now, approvals, shutdownEnabled, phone, signed>>

Tick ==
    /\ now < MaxTime
    /\ now' = now + 1
    /\ UNCHANGED <<sess, serviceVars, shutdownEnabled, pipe, phone, signed>>

Next ==
    \/ \E c \in Conns :
         \/ \E peer \in Actions \cup {"other"} : Connect(c, peer)
         \/ Handle(c) \/ Sign(c) \/ Settle(c)
    \/ Restart \/ Tick

=============================================================================
