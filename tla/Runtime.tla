------------------------------- MODULE Runtime -------------------------------
(***************************************************************************)
(* The life of the listener process (listener.py: start(), main() and      *)
(* class Runtime): the PAM socket is bound before the WebSocket port, the  *)
(* port before service_start is recorded; service_stop is recorded before  *)
(* the two servers are closed one after the other.  Each await is a point  *)
(* at which requests are served, so each is a state.                       *)
(***************************************************************************)
EXTENDS Naturals

CONSTANTS
    Faults,    \* subset of {"crash", "port", "rival"}: what may go wrong
    MaxStarts  \* bound on the number of starts

VARIABLES
    life,   \* where main() is
    sock,   \* pam.sock leads to this process and it accepts connections there
    disk,   \* the audit log can be written
    starts  \* history: number of the current run

vars == <<life, sock, disk, starts>>

\* "binding": awaiting the WebSocket server, with the PAM socket served;
\* "serving": both served; "closing": awaiting the end of the WebSocket
\* sessions; "draining": the PAM socket is closed, its last requests are not.
Lives == {"down", "binding", "serving", "closing", "draining"}

Init == life = "down" /\ sock = FALSE /\ starts = 0

\* main() and start() up to the second await: a socket left at the path, by
\* whomever, is unlinked, and a new one bound there.  The checks before that (no
\* configuration, root, readable secrets, wildcard address, wrong passphrase) end
\* a start that leaves no trace.
Bind ==
    /\ life = "down" /\ starts < MaxStarts
    /\ life' = "binding"
    /\ sock' = TRUE
    /\ starts' = starts + 1
    /\ UNCHANGED disk

\* The port is bound and service_start recorded.
Listen ==
    /\ life = "binding" /\ disk
    /\ life' = "serving"
    /\ UNCHANGED <<sock, disk, starts>>

\* The port is taken, or the record cannot be written: start() raises and the
\* process ends, leaving a socket nobody listens to.
StartFails ==
    /\ life = "binding"
    /\ "port" \in Faults \/ ~disk
    /\ life' = "down" /\ sock' = FALSE
    /\ UNCHANGED <<disk, starts>>

\* A signal sets the stop event: service_stop is recorded and the WebSocket
\* server closed.
Stop ==
    /\ life = "serving" /\ disk
    /\ life' = "closing"
    /\ UNCHANGED <<sock, disk, starts>>

\* The record of service_stop cannot be written: main() raises, close() is never
\* called.
StopFails ==
    /\ life = "serving" /\ ~disk
    /\ life' = "down" /\ sock' = FALSE
    /\ UNCHANGED <<disk, starts>>

\* The WebSocket handlers have ended and the PAM server is closed.
ClosePam ==
    /\ life = "closing"
    /\ life' = "draining" /\ sock' = FALSE
    /\ UNCHANGED <<disk, starts>>

\* wait_closed() returns, which before Python 3.12 it does at once; pam.sock is
\* unlinked and the process ends.
Close ==
    /\ life = "draining"
    /\ life' = "down"
    /\ UNCHANGED <<sock, disk, starts>>

\* The process dies, or gets its signal before main() installs the handlers.
Die ==
    /\ "crash" \in Faults
    /\ life # "down"
    /\ life' = "down" /\ sock' = FALSE
    /\ UNCHANGED <<disk, starts>>

\* Another copy takes the path away: one started by hand that unlinks pam.sock,
\* binds it and then finds the port taken, or one stopped just before whose
\* close() unlinks it late.
Rob ==
    /\ "rival" \in Faults
    /\ sock
    /\ sock' = FALSE
    /\ UNCHANGED <<life, disk, starts>>
=============================================================================
