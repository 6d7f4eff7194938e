---------------------------- MODULE CredentialTile ----------------------------
(***************************************************************************)
(* The tile of the Windows Credential Provider (RemoteUnlockCredential.cpp *)
(* and GetCredentialAt of RemoteUnlockProvider.cpp): LogonUI's thread,     *)
(* which selects, submits and releases the tile, and the worker thread     *)
(* that serves the named pipe the listener writes to.  The worker is cut   *)
(* at every access to something LogonUI's thread also reads or writes.     *)
(* A password is represented by the nonce whose approval released it.      *)
(* What the tile displays is reduced to what its status line tells: that   *)
(* it waits, how the last wait ended, or that Windows rejected the logon.  *)
(* Advise, UnAdvise and the submit button's visibility are left out.       *)
(***************************************************************************)
CONSTANTS
    Nonces,
    Blank,       \* the empty password
    Refusal,     \* the byte 0x00 on the pipe
    Foreign,     \* a password that does not come from the listener
    LockedDown   \* the pipe admits the listener only: FALSE for the descriptor it
                 \* is created with, TRUE for the one README-Windows.md asks for

VARIABLES
    pipe,        \* the single instance of \\.\pipe\remote-unlock-signal
    ui,          \* where LogonUI's thread is in a call on the tile
    thread,      \* where _waitThread is
    waiting,     \* _waiting
    approved,    \* _phoneApproved
    password,    \* _relayedPassword
    status,      \* _statusText: "over" if it tells how a wait ended, "news" if it
                 \* tells that one is going on or that Windows rejected the logon
    carried,     \* the local variable "password" of the worker
    due          \* history: what the current wait received and nobody submitted

NoPipe == [state |-> "absent", data |-> Blank]

\* What processes other than the listener write to the pipe.
Strange == IF LockedDown THEN {} ELSE {Foreign}

\* A worker that has not yet announced the end of its wait.
Underway == {"starting", "created", "listening", "missed", "keeping", "kept"}

\* Type correctness of the tile and the pipe.
TypeOK ==
    /\ pipe \in [state: {"absent", "open", "taken"}, data: Nonces \cup Strange \cup {Blank, Refusal}]
    /\ ui \in {"idle", "joining", "leaving"}
    /\ thread \in Underway \cup {"none", "approved", "released", "ended"}
    /\ waiting \in BOOLEAN /\ approved \in BOOLEAN
    /\ {password, carried, due} \subseteq Nonces \cup Strange \cup {Blank}
    /\ status \in {"over", "news"}

\* A tile that has just been constructed and initialised.
Init ==
    /\ ui = "idle" /\ thread = "none"
    /\ waiting = FALSE /\ approved = FALSE
    /\ password = Blank /\ carried = Blank
    /\ status = "over"
    /\ due = Blank
    /\ pipe = NoPipe

----------------------------------------------------------------------------
(* LogonUI's thread *)

\* No worker runs: join() returns at once, or there is nothing to join.
NoWorker == thread \in {"none", "ended"}

\* SetSelected: only the call that turns _waiting on starts a wait.  It blocks
\* while the previous worker has not returned.
SetSelected ==
    /\ ui = "idle" /\ ~waiting
    /\ waiting' = TRUE
    /\ approved' = FALSE
    /\ status' = "news"
    /\ due' = Blank
    /\ IF NoWorker THEN thread' = "starting" /\ UNCHANGED ui
                   ELSE ui' = "joining" /\ UNCHANGED thread
    /\ UNCHANGED <<pipe, password, carried>>

\* SetSelected goes on after the join.
StartThread ==
    /\ ui = "joining" /\ NoWorker
    /\ thread' = "starting"
    /\ ui' = "idle"
    /\ UNCHANGED <<pipe, waiting, approved, password, status, carried, due>>

\* GetSerialization would pack the password now.
Submittable == ui = "idle" /\ approved

\* GetSerialization packs the password; whether that succeeds or not, it clears
\* it.  On a tile that is not approved it returns CPGSR_NO_CREDENTIAL_NOT_FINISHED
\* and changes nothing.
GetSerialization ==
    /\ Submittable
    /\ password' = Blank
    /\ due' = Blank
    /\ UNCHANGED <<pipe, ui, thread, waiting, approved, status, carried>>

\* ReportResult for a logon that Windows rejected.  When LogonUI reports it is not
\* for the tile to say: another wait may have started.
ReportResult ==
    /\ ui = "idle"
    /\ status' = "news"
    /\ UNCHANGED <<pipe, ui, thread, waiting, approved, password, carried, due>>

\* The destructor has run, and GetCredentialAt of the next provider object has
\* made a new tile.
Renewed ==
    /\ ui' = "idle" /\ thread' = "none"
    /\ waiting' = FALSE /\ approved' = FALSE
    /\ password' = Blank /\ carried' = Blank
    /\ status' = "over"
    /\ due' = Blank
    /\ UNCHANGED pipe

\* The last Release: the destructor blocks while a worker runs.
Release ==
    /\ ui = "idle"
    /\ \/ NoWorker /\ Renewed
       \/ /\ ~NoWorker
          /\ ui' = "leaving"
          /\ waiting' = FALSE
          /\ UNCHANGED <<pipe, thread, approved, password, status, carried, due>>

\* The destructor goes on after its join.
Destroyed == ui = "leaving" /\ NoWorker /\ Renewed

LogonUI ==
    \/ SetSelected \/ StartThread \/ GetSerialization \/ ReportResult
    \/ Release \/ Destroyed

----------------------------------------------------------------------------
(* The worker: WaitForPhoneOnBackgroundThread *)

\* A wait that ends without approval: UpdateStatus(text), _waiting = false and
\* the return, the last of which SetSelected cannot overtake.
GiveUp ==
    /\ status' = "over"
    /\ waiting' = FALSE
    /\ thread' = "ended"

CreatePipe ==
    /\ thread = "starting"
    /\ thread' = "created"
    /\ pipe' = [state |-> "open", data |-> Blank]
    /\ UNCHANGED <<ui, waiting, approved, password, status, carried, due>>

CreatePipeFails ==
    /\ thread = "starting"
    /\ GiveUp
    /\ UNCHANGED <<pipe, ui, approved, password, carried, due>>

\* ConnectNamedPipe.  The pipe was not opened for overlapped operation, so the
\* call itself waits for the client.  A client that connected before the call
\* makes it return at once with an error and without setting the event.
ConnectPipe ==
    /\ thread = "created"
    /\ thread' = IF pipe.state = "taken" THEN "missed" ELSE "listening"
    /\ UNCHANGED <<pipe, ui, waiting, approved, password, status, carried,
                   due>>

\* WaitForSingleObject runs into its timeout.
WaitTimesOut ==
    /\ thread = "missed"
    /\ pipe' = NoPipe
    /\ GiveUp
    /\ UNCHANGED <<ui, approved, password, carried, due>>

\* ReadFile finds a failure byte.
ReadRefusal ==
    /\ thread = "listening" /\ pipe.state = "taken" /\ pipe.data = Refusal
    /\ pipe' = NoPipe
    /\ GiveUp
    /\ UNCHANGED <<ui, approved, password, carried, due>>

\* ReadFile finds a success byte and a password.
ReadPassword ==
    /\ thread = "listening" /\ pipe.state = "taken" /\ pipe.data # Refusal
    /\ pipe' = NoPipe
    /\ carried' = pipe.data
    /\ due' = pipe.data
    /\ thread' = "keeping"
    /\ UNCHANGED <<ui, waiting, approved, password, status>>

\* Faulty variant of Keep: _waiting is cleared before the approval is published.
KeepEarlyRelease ==
    /\ thread = "keeping"
    /\ password' = carried /\ carried' = Blank
    /\ waiting' = FALSE
    /\ thread' = "kept"
    /\ UNCHANGED <<pipe, ui, approved, status, due>>

\* _relayedPassword = password
Keep ==
    /\ thread = "keeping"
    /\ password' = carried /\ carried' = Blank
    /\ thread' = "kept"
    /\ UNCHANGED <<pipe, ui, waiting, approved, status, due>>

\* _phoneApproved = true
Approve ==
    /\ thread = "kept"
    /\ approved' = TRUE
    /\ thread' = "approved"
    /\ UNCHANGED <<pipe, ui, waiting, password, status, carried, due>>

\* UpdateStatus and _waiting = false
LetGo ==
    /\ thread = "approved"
    /\ status' = "over"
    /\ waiting' = FALSE
    /\ thread' = "released"
    /\ UNCHANGED <<pipe, ui, approved, password, carried, due>>

\* The call that shows the submit button, and the return.
ShowSubmit ==
    /\ thread = "released"
    /\ thread' = "ended"
    /\ UNCHANGED <<pipe, ui, waiting, approved, password, status, carried, due>>

Worker ==
    \/ CreatePipe \/ CreatePipeFails \/ ConnectPipe \/ WaitTimesOut
    \/ ReadRefusal \/ ReadPassword \/ Keep \/ Approve \/ LetGo \/ ShowSubmit

----------------------------------------------------------------------------
(* Other processes *)

\* Unless the pipe is locked down, any local process may connect to it instead of
\* the listener and write a refusal, or a success byte and some password.
OtherProcess ==
    /\ ~LockedDown
    /\ pipe.state = "open"
    /\ \E v \in Strange \cup {Refusal} : pipe' = [state |-> "taken", data |-> v]
    /\ UNCHANGED <<ui, thread, waiting, approved, password, status, carried, due>>

Next == LogonUI \/ Worker

----------------------------------------------------------------------------
\* While a worker waits for the phone, the tile is marked as waiting, does not
\* show how an earlier wait ended, and no earlier approval is left on it:
\* GetSerialization cannot submit, nor read _relayedPassword while the worker
\* writes it.
TileIsCurrent ==
    ui = "idle" /\ thread \in Underway => waiting /\ ~approved /\ status # "over"

\* SetSelected never joins a worker that has still to hear from the phone: the
\* one it joins has only its return left.
SelectReturns == ui = "joining" => thread \in {"released", "ended"}

\* What GetSerialization packs is what the current wait received, and nothing
\* once that has been packed.
SubmitsWhatIsDue == Submittable => password = due

=============================================================================
