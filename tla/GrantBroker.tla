----------------------------- MODULE GrantBroker -----------------------------
(***************************************************************************)
(* The hand-over of an unlock from the listener to a login: GrantBroker    *)
(* and UnlockService.handle_pam (listener.py), and the PAM helper that     *)
(* asks (pam_unlock_helper.py).  Every helper process is one login attempt *)
(* and has one handle_pam task in the listener's event loop.  A task runs  *)
(* from one await to the next in one step.  Time passes in ticks; a task   *)
(* that can run is run within Lag ticks, unless the loop stalls.           *)
(***************************************************************************)
EXTENDS Integers

CONSTANTS
    Helpers,      \* login attempts
    GrantTtl,     \* cfg["grant_ttl"]
    PamWait,      \* cfg["pam_wait"]
    ReadWait,     \* seconds handle_pam waits for the request line (3)
    Margin,       \* seconds the helper waits beyond pam_wait (3)
    Lag,          \* how late the event loop may run a ready task
    Faults,       \* subset of {"disk", "crash", "kill", "stall"}: what may go wrong
    MaxIssues,    \* bound on issued grants
    LastArrival,  \* bound: no helper connects after this time
    MaxTime       \* bound on the clock

ASSUME BrokerAssumption ==
    /\ GrantTtl \in Nat \ {0}
    /\ PamWait \in Nat /\ ReadWait \in Nat /\ Margin \in Nat /\ Lag \in Nat
    /\ MaxIssues \in Nat /\ LastArrival \in Nat /\ MaxTime \in Nat

\* The helper's spare time covers two late runs of its task: the one that
\* reads the request and the one that answers it.
ASSUME MarginAssumption == 2 * Lag < Margin

VARIABLES
    now,       \* the event loop's clock
    expires,   \* broker._expires
    event,     \* flag of broker._event
    task,      \* where the handle_pam task of each helper is
    deadline,  \* when the wait_for() it sleeps in expires
    due,       \* when its task became, or will become, ready to run
    answer,    \* what it has written to the socket
    helper,    \* where each helper is
    giveUp,    \* when its socket timeout expires
    kind,      \* who asks for what
    disk,      \* the audit log can be written
    issues,    \* history: grants issued
    issuedAt,  \* history: time of the latest
    taken,     \* history: number of the grant each request consumed, 0 if none
    logged     \* history: helpers with a pam_grant_consumed record

broker == <<expires, event, issues, issuedAt>>
tasks == <<task, deadline, due, answer, taken, logged>>
helpers == <<helper, giveUp, kind>>
vars == <<now, broker, tasks, helpers, disk>>

Kinds == {"unlock", "otherUser", "otherUid"}
Running == {"reading", "waiting", "woken"}
Gone == {"denied", "killed", "timedout"}

\* Nothing the loop calls blocks it: record() and its fsync, above all.
Prompt == "stall" \notin Faults

Least(a, b) == IF a < b THEN a ELSE b

Init ==
    /\ now = 1
    /\ expires = 0 /\ event = FALSE
    /\ issues = 0 /\ issuedAt = 0
    /\ task = [h \in Helpers |-> "none"]
    /\ deadline = [h \in Helpers |-> 0]
    /\ due = [h \in Helpers |-> 0]
    /\ answer = [h \in Helpers |-> "none"]
    /\ taken = [h \in Helpers |-> 0]
    /\ logged = {}
    /\ helper = [h \in Helpers |-> "idle"]
    /\ giveUp = [h \in Helpers |-> 0]
    /\ kind = [h \in Helpers |-> "unlock"]
    /\ disk = TRUE

----------------------------------------------------------------------------
(* GrantBroker *)

\* Faulty variant of Woken: nobody is told.
WokenNobody == task

\* Event.set() resolves the futures of the waiting tasks, unless already set.
Woken ==
    [h \in Helpers |-> IF task[h] = "waiting" /\ ~event THEN "woken" ELSE task[h]]

\* broker.issue(), called by the session that verified a response
Issue ==
    /\ issues < MaxIssues
    /\ issues' = issues + 1
    /\ issuedAt' = now
    /\ expires' = now + GrantTtl
    /\ event' = TRUE
    /\ task' = Woken
    /\ due' = [h \in Helpers |-> IF task'[h] = task[h] THEN due[h]
                                 ELSE Least(now, due[h])]
    /\ UNCHANGED <<now, deadline, answer, taken, logged, helpers, disk>>

\* Faulty variant of Live: any grant not yet consumed will do.
LiveForever == expires > 0

\* self._expires > now
Live == expires > now

\* Faulty variant of Remainder: consuming leaves the grant in place.
RemainderKept == expires

\* Faulty variant of Remainder: a sentinel that is no time at all.
RemainderUnset == -1

\* self._expires = 0.0, the grant after it is consumed
Remainder == 0

\* Faulty variant of Reply: a failing audit append goes unnoticed.
ReplyRegardless(ok) == IF ok THEN "1" ELSE "0"

\* record() raises when the log cannot be written, and then ok = False.
Reply(ok) == IF ok /\ disk THEN "1" ELSE "0"

\* The end of handle_pam: record(), then the reply of the finally block.
Finish(h, ok) ==
    /\ task' = [task EXCEPT ![h] = "done"]
    /\ deadline' = [deadline EXCEPT ![h] = 0]
    /\ due' = [due EXCEPT ![h] = 0]
    /\ answer' = [answer EXCEPT ![h] = Reply(ok)]
    /\ logged' = IF ok /\ disk THEN logged \cup {h} ELSE logged

\* The task sleeps in a wait_for() that expires at "until".
Await(h, where, until) ==
    /\ task' = [task EXCEPT ![h] = where]
    /\ deadline' = [deadline EXCEPT ![h] = until]
    /\ due' = [due EXCEPT ![h] = until]
    /\ UNCHANGED <<answer, logged>>

\* A request is turned down without touching the grant.
Deny(h) ==
    /\ Finish(h, FALSE)
    /\ UNCHANGED <<now, broker, taken, helpers, disk>>

\* consume() returns True: the grant is used up.
Take(h) ==
    /\ Live
    /\ expires' = Remainder
    /\ event' = FALSE
    /\ taken' = [taken EXCEPT ![h] = issues]
    /\ Finish(h, TRUE)
    /\ UNCHANGED <<now, issues, issuedAt, helpers, disk>>

\* consume() clears the event and sleeps until it is set or time is up.
Sleep(h, until) ==
    /\ ~Live /\ until > now
    /\ event' = FALSE
    /\ Await(h, "waiting", until)
    /\ UNCHANGED <<now, expires, issues, issuedAt, taken, helpers, disk>>

\* One turn of the loop in consume(), up to its await or its return; "until" is
\* the deadline of the call.
Consume(h, until) ==
    \/ Take(h)
    \/ ~Live /\ until <= now /\ Deny(h)
    \/ Sleep(h, until)

----------------------------------------------------------------------------
(* handle_pam *)

\* A connection is accepted and handle_pam runs to its first await: the uid is
\* checked at once, the request line is awaited for ReadWait.
Connect(h, k) ==
    /\ now <= LastArrival
    /\ helper[h] = "idle"
    /\ helper' = [helper EXCEPT ![h] = "connected"]
    /\ kind' = [kind EXCEPT ![h] = k]
    /\ \/ k = "otherUid" /\ Finish(h, FALSE)
       \/ k # "otherUid" /\ Await(h, "reading", now + ReadWait)
    /\ UNCHANGED <<now, broker, taken, giveUp, disk>>

\* req.get("user") == self.cfg["unlock_user"]
MayConsume(h) == kind[h] = "unlock"

\* The helper got as far as sending its request line.
Sent(h) == giveUp[h] # 0

\* The request line has arrived: the user is checked and consume() is called.
\* A helper killed after sending is served all the same.
ReadLine(h) ==
    /\ task[h] = "reading" /\ Sent(h)
    /\ \/ MayConsume(h) /\ Consume(h, now + PamWait)
       \/ ~MayConsume(h) /\ Deny(h)

\* The helper closed or died before sending: readline() returns an empty line,
\* which is not JSON.
ReadEof(h) ==
    /\ task[h] = "reading" /\ ~Sent(h) /\ helper[h] \in Gone
    /\ Deny(h)

\* Faulty variant of ReadTimeout: the wait for the request line has no limit.
ReadTimeoutNever(h) == FALSE

\* wait_for(reader.readline(), 3) expires; a line that arrives in the same turn
\* of the event loop may be missed.
ReadTimeout(h) ==
    /\ task[h] = "reading"
    /\ now >= deadline[h]
    /\ Deny(h)

\* The task runs again after the event was set.
Resume(h) ==
    /\ task[h] = "woken"
    /\ Consume(h, deadline[h])

\* wait_for() expires.  When the event was set in the same turn of the event
\* loop, either outcome is possible.
WaitTimeout(h) ==
    /\ task[h] \in {"waiting", "woken"}
    /\ now >= deadline[h]
    /\ Deny(h)

----------------------------------------------------------------------------
(* pam_unlock_helper.py *)

\* Faulty variant of HelperWait: no more patience than the listener.
HelperWaitBare == PamWait

\* The socket timeout main() passes to request_unlock().
HelperWait == PamWait + Margin

\* The peer is the configured service user: send the request.
Send(h) ==
    /\ helper[h] = "connected"
    /\ answer[h] = "none"
    /\ helper' = [helper EXCEPT ![h] = "asking"]
    /\ giveUp' = [giveUp EXCEPT ![h] = now + HelperWait]
    /\ due' = [due EXCEPT ![h] = Least(now, @)]
    /\ UNCHANGED <<now, broker, task, deadline, answer, taken, logged, kind, disk>>

\* The peer is somebody else: close without asking.
RefusePeer(h) ==
    /\ helper[h] = "connected"
    /\ helper' = [helper EXCEPT ![h] = "denied"]
    /\ due' = [due EXCEPT ![h] = Least(now, @)]
    /\ UNCHANGED <<now, broker, task, deadline, answer, taken, logged, giveUp, kind, disk>>

\* main() exits with 1 before it has a connection: there is no configuration,
\* the helper is not root, or nobody listens at the socket.
Unreachable(h) ==
    /\ now <= LastArrival
    /\ helper[h] = "idle"
    /\ helper' = [helper EXCEPT ![h] = "denied"]
    /\ UNCHANGED <<now, broker, tasks, giveUp, kind, disk>>

\* Exit 0 exactly when the reply is "1\n".
Exit(h) ==
    /\ helper[h] \in {"connected", "asking"}
    /\ answer[h] # "none"
    /\ helper' = [helper EXCEPT ![h] = IF answer[h] = "1" THEN "granted" ELSE "denied"]
    /\ giveUp' = [giveUp EXCEPT ![h] = 0]
    /\ UNCHANGED <<now, broker, tasks, kind, disk>>

\* recv() times out.
GiveUp(h) ==
    /\ helper[h] = "asking"
    /\ answer[h] = "none"
    /\ now >= giveUp[h]
    /\ helper' = [helper EXCEPT ![h] = "timedout"]
    /\ UNCHANGED <<now, broker, tasks, giveUp, kind, disk>>

\* request_unlock() returns, with a reply or without one.
Return(h) == IF answer[h] # "none" THEN Exit(h) ELSE GiveUp(h)

----------------------------------------------------------------------------
(* The environment *)

\* The login is abandoned and the helper dies; the listener is not told.
Kill(h) ==
    /\ "kill" \in Faults
    /\ helper[h] \in {"connected", "asking"}
    /\ helper' = [helper EXCEPT ![h] = "killed"]
    /\ due' = [due EXCEPT ![h] = IF task[h] = "reading" THEN Least(now, @) ELSE @]
    /\ UNCHANGED <<now, broker, task, deadline, answer, taken, logged, giveUp, kind, disk>>

\* broker._expires of the next run: a grant is only ever in memory.
Forgotten == 0

\* The tasks end where they are; their helpers see "reply".
Abort(reply) ==
    /\ expires' = Forgotten /\ event' = FALSE
    /\ task' = [h \in Helpers |-> IF task[h] \in Running THEN "done" ELSE task[h]]
    /\ answer' = [h \in Helpers |-> IF task[h] \in Running THEN reply ELSE answer[h]]
    /\ deadline' = [h \in Helpers |-> 0]
    /\ due' = [h \in Helpers |-> 0]
    /\ UNCHANGED <<now, issues, issuedAt, taken, logged, helpers, disk>>

\* The listener is gone and started again.  When it dies the helpers' sockets
\* reach end of file; when asyncio.run() cancels the tasks on the way out, the
\* finally block of handle_pam answers 0.
Crash == "crash" \in Faults /\ \E reply \in {"eof", "0"} : Abort(reply)

\* The audit log becomes unwritable, or writable again.
ToggleDisk ==
    /\ "disk" \in Faults
    /\ disk' = ~disk
    /\ UNCHANGED <<now, broker, tasks, helpers>>

\* Time passes unless some task is as late as Lag allows; a stalled loop may be
\* late by any amount.
Tick ==
    /\ now < MaxTime
    /\ Prompt => \A h \in Helpers : task[h] \in Running => now < due[h] + Lag
    /\ now' = now + 1
    /\ UNCHANGED <<broker, tasks, helpers, disk>>

\* The bound on the clock is reached and no task has anything to do.
Stop ==
    /\ now = MaxTime
    /\ \A h \in Helpers : task[h] \in Running => now < due[h]
    /\ UNCHANGED vars

Serve(h) ==
    ReadLine(h) \/ ReadEof(h) \/ ReadTimeout(h) \/ Resume(h) \/ WaitTimeout(h)

\* What happens when neither the listener nor its log fails.
Steps ==
    \/ Issue \/ Tick \/ Stop
    \/ \E h \in Helpers :
         \/ Serve(h)
         \/ \E k \in Kinds : Connect(h, k)
         \/ Unreachable(h) \/ Send(h) \/ RefusePeer(h) \/ Return(h) \/ Kill(h)

Next == Steps \/ Crash \/ ToggleDisk

\* The event loop runs what is ready, helpers read what has arrived, and time
\* passes; nobody is obliged to connect, to send, or to unlock.
Fairness ==
    /\ WF_vars(Tick)
    /\ \A h \in Helpers : WF_vars(Serve(h)) /\ WF_vars(Return(h))

Spec == Init /\ [][Next]_vars /\ Fairness

\* The behaviours of Spec without failures.
SoundSpec == Init /\ [][Steps]_vars /\ Fairness

----------------------------------------------------------------------------
\* Type correctness of the broker, the tasks and the helpers.
TypeOK ==
    /\ now \in Nat /\ expires \in Nat /\ event \in BOOLEAN /\ disk \in BOOLEAN
    /\ issues \in Nat /\ issuedAt \in Nat
    /\ task \in [Helpers -> {"none", "done"} \cup Running]
    /\ deadline \in [Helpers -> Nat]
    /\ due \in [Helpers -> Nat]
    /\ answer \in [Helpers -> {"none", "0", "1", "eof"}]
    /\ taken \in [Helpers -> Nat]
    /\ logged \subseteq Helpers
    /\ helper \in [Helpers -> {"idle", "connected", "asking", "granted"} \cup Gone]
    /\ giveUp \in [Helpers -> Nat]
    /\ kind \in [Helpers -> Kinds]

\* The broker implements the one-shot grant: whatever the interleaving of
\* consumers, timeouts, wake-ups, expiry and restarts, each grant is claimed at
\* most once and only while it is live.
Grant == INSTANCE OneShotGrant
    WITH Claimants <- Helpers, live <- Live, owner <- taken
OneShot == Grant!Spec

\* No two logins ever consume the same grant.
GrantSingleUse == Grant!SingleUse

\* A request never consumes a grant ttl or more seconds after the last verified
\* unlock, however long it waited or slept.
GrantIsFresh ==
    [][\A h \in Helpers : taken'[h] # taken[h] => now < issuedAt + GrantTtl]_vars

\* No wake-up is lost: while a request sleeps in consume() there is no grant it
\* could take, although issue() and the clear() calls of the other consumers
\* interleave with it.
NoLostWakeup ==
    \A h \in Helpers : task[h] = "waiting" => ~event /\ ~Live

\* A login let in by the helper's exit code consumed a grant of its own, asked
\* for the unlock user, and is in the audit log.
ExitZeroIsAccounted ==
    \A h \in Helpers : helper[h] = "granted" =>
        taken[h] # 0 /\ kind[h] = "unlock" /\ h \in logged

\* The helper's pam_wait + 3 outlasts the listener's pam_wait: unless the loop
\* stalls, a helper that gave up has no request left in the listener that a later
\* unlock could be spent on.
HelperOutlivesRequest ==
    Prompt => \A h \in Helpers : helper[h] = "timedout" => task[h] \notin Running

\* A consumed grant lets its login in: once the helper has an exit code it is
\* 0, unless the audit log failed, the listener died or its loop stalled.
TakenIsDelivered ==
    Faults \subseteq {"kill"} =>
        \A h \in Helpers : taken[h] # 0 => helper[h] \notin {"denied", "timedout"}

\* Every accepted request is finished, and every helper that asked exits.
RequestsEnd ==
    \A h \in Helpers :
        /\ task[h] \in Running ~> task[h] = "done"
        /\ helper[h] = "asking" ~> helper[h] # "asking"
=============================================================================
