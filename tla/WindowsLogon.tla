----------------------------- MODULE WindowsLogon -----------------------------
(***************************************************************************)
(* The Windows build end to end: phones and other peers, the listener, and *)
(* the login screen's tile, which meet in the named pipe, where other      *)
(* local processes may write too.                                          *)
(***************************************************************************)
EXTENDS WindowsListener

CONSTANTS
    Foreign, LockedDown, \* see CredentialTile
    IntrudedSessions     \* bound: what other processes write is gone by the time
                         \* more connections than this have been made

ASSUME LogonAssumption ==
    LockedDown \in BOOLEAN /\ Foreign \notin Conns /\ IntrudedSessions \in Nat

VARIABLES ui, thread, waiting, approved, password, status, carried, due

Tile == INSTANCE CredentialTile WITH Nonces <- Conns

tileState == <<ui, thread, waiting, approved, password, status, carried, due>>
logonVars == <<listenerVars, pipe, tileState>>

LogonInit == Init /\ Tile!Init

Made == Cardinality({c \in Conns : sess[c].pc # "idle"})

\* A password that another process wrote is on its way or on the tile, or has left
\* the tile approved.
Intruded ==
    \/ Foreign \in {pipe.data, carried, password, due}
    \/ approved /\ \A a \in approvals : a[1][1] # "unlock"

ListenerStep ==
    /\ Next /\ UNCHANGED tileState
    /\ Intruded => Made' <= IntrudedSessions

TileStep == Tile!Next /\ UNCHANGED listenerVars

Intrusion == Made <= IntrudedSessions /\ Tile!OtherProcess /\ UNCHANGED listenerVars

LogonSpec == LogonInit /\ [][ListenerStep \/ TileStep \/ Intrusion]_logonVars

----------------------------------------------------------------------------
\* Type correctness of the listener, the phone and the tile; a response is only
\* reported as accepted once its nonce is in _used_nonces.
TypeOK ==
    /\ Tile!TypeOK
    /\ now \in 0 .. MaxTime
    /\ \A c \in Conns :
         /\ sess[c].pc \in {"idle", "waiting", "replying", "closed"}
         /\ sess[c].mail # NoMail => phone[c].pc \in {"sent", "settled"}
         /\ sess[c].ok => sess[c].nonce \in used
         /\ phone[c].pc \in {"none", "asked", "sent", "settled"}
    /\ DOMAIN pending \subseteq Conns /\ used \subseteq Conns
    /\ fails \in Seq(0 .. MaxTime)

\* verify() returns True only for a challenge at most NONCE_TTL old that was
\* answered by the phone, for the very action it signed and within the clock
\* skew allowed; and for no nonce twice, although a restart of the listener
\* forgets which nonces were used.
ApprovalIsWarranted ==
    /\ \A a \in approvals :
         /\ a[1] \in signed
         /\ a[2] <= NonceTtl
         /\ a[3] <= MaxClockSkew + NonceTtl
    /\ \A a, b \in approvals : a[1][2] = b[1][2] => a = b

\* No window of RATE_LIMIT_WINDOW seconds holds more than RATE_LIMIT_MAX_FAILS
\* responses that one run of the listener examined and refused, whatever else
\* went on.
FailuresAreLimited ==
    \A i \in 1 .. Len(tried) - MaxFails : tried[i + MaxFails] - tried[i] > RateWindow

\* Every password the tile would submit was received by the current wait and has
\* not been submitted; it was released by an approved unlock, or another local
\* process wrote it to a pipe that admits everybody.  A shutdown releases none and
\* runs only if it was approved as such and is enabled.
EffectsAreWarranted ==
    /\ Tile!SubmitsWhatIsDue
    /\ Tile!Submittable =>
         \/ password = Blank
         \/ password = Foreign /\ ~LockedDown
         \/ \E a \in approvals : a[1][1] = "unlock" /\ a[1][2] = password
    /\ \A c \in Conns : \A n \in TriggerShutdown(c) :
         shutdownEnabled /\ \E a \in approvals : a[1][1] = "shutdown" /\ a[1][2] = n

\* While a worker waits for the phone, the tile is marked as waiting, does not show
\* how an earlier wait ended, and carries no earlier approval: LogonUI can neither
\* submit nor read _relayedPassword while the worker writes it.
TileIsCurrent == Tile!TileIsCurrent

\* SetSelected, which runs on LogonUI's only thread, never joins a worker that
\* has still to hear from the phone: the login screen does not freeze.
SelectReturns == Tile!SelectReturns

=============================================================================
