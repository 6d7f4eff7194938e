---------------------------- MODULE RemoteUnlock ----------------------------
(***************************************************************************)
(* The Linux side from the phone's consent to the login: sessions that     *)
(* authorise (Authorisation, which UnlockService implements), the broker   *)
(* and the logins (GrantBroker), and the life of the process that holds    *)
(* them (Runtime).  A session that authorises issues the grant in the same *)
(* step; a process that ends takes the tasks and the grant with it.        *)
(***************************************************************************)
EXTENDS GrantBroker

CONSTANTS
    Nonces, Devices,
    ChallengeTtl,  \* cfg["challenge_ttl"]
    MaxStarts      \* bound on the number of starts of the listener

ASSUME SystemAssumption == ChallengeTtl \in Nat /\ MaxStarts \in Nat

VARIABLES
    issued, consents, given,  \* see Authorisation; grants are numbered like issues
    life, sock, starts,       \* see Runtime
    issuedIn                  \* history: run that issued the latest grant

phone == <<issued, consents, given>>
process == <<life, sock, starts>>
systemVars == <<vars, phone, process, issuedIn>>

Auth == INSTANCE Authorisation WITH Sessions <- 1 .. MaxIssues, Ttl <- ChallengeTtl
Run == INSTANCE Runtime

SystemInit == Init /\ Auth!Init /\ Run!Init /\ issuedIn = 0

\* _session() while the WebSocket server runs: a response is accepted and the
\* grant issued.  Responses that have arrived are still served while it closes.
Unlock(n) ==
    /\ life \in {"serving", "closing"}
    /\ Auth!Give(n, issues + 1)
    /\ Issue
    /\ issuedIn' = starts
    /\ UNCHANGED process

\* A challenge is sent, and the phone's owner consents to it.
Challenge(n, d) ==
    /\ life = "serving"
    /\ Auth!Challenge(n, d)
    /\ UNCHANGED <<vars, process, issuedIn>>

Consent(n) ==
    /\ Auth!Consent(n) /\ consents' # consents
    /\ UNCHANGED <<vars, process, issuedIn>>

\* A helper finds the listener behind the socket, or does not.
Reach(h) ==
    /\ \/ sock /\ \E k \in Kinds : Connect(h, k)
       \/ ~sock /\ Unreachable(h)
    /\ UNCHANGED <<phone, process, issuedIn>>

\* The helpers and the tasks that serve them.
Login(h) ==
    /\ Serve(h) \/ Send(h) \/ RefusePeer(h) \/ Return(h) \/ Kill(h)
    /\ UNCHANGED <<phone, process, issuedIn>>

\* The process moves on, with its memory.
Proceed ==
    /\ Run!Bind \/ Run!Listen \/ Run!Stop \/ Run!ClosePam \/ Run!Rob
    /\ UNCHANGED <<vars, phone, issuedIn>>

\* The process ends: by itself, and asyncio.run() cancels its tasks, or it dies.
End ==
    /\ \/ (Run!StartFails \/ Run!StopFails \/ Run!Close) /\ Abort("0")
       \/ Run!Die /\ Abort("eof")
    /\ UNCHANGED <<phone, issuedIn>>

SystemTick == Tick /\ UNCHANGED <<phone, process, issuedIn>>

SystemToggleDisk == ToggleDisk /\ UNCHANGED <<phone, process, issuedIn>>

SystemStop == now = MaxTime /\ UNCHANGED systemVars

SystemNext ==
    \/ Proceed \/ End \/ SystemTick \/ SystemToggleDisk \/ SystemStop
    \/ \E h \in Helpers : Reach(h) \/ Login(h)
    \/ \E n \in Nonces :
         Unlock(n) \/ Consent(n) \/ \E d \in Devices : Challenge(n, d)

SystemSpec == SystemInit /\ [][SystemNext]_systemVars

----------------------------------------------------------------------------
\* The nonces behind grant number i.
Behind(i) == {g[1] : g \in {g \in given : g[2] = i}}

\* From the phone to the login: whoever is let in was let in by the consent of a
\* device's owner to a challenge issued to that device, a consent that no other
\* login has used, whatever was killed, restarted or robbed of its socket since.
LoginIsConsented ==
    \A h \in Helpers : helper[h] = "granted" =>
        \E n \in Behind(taken[h]) :
            /\ <<n, issued[n].dev>> \in consents
            /\ \A g \in Helpers \ {h} : n \notin Behind(taken[g])

\* A grant is consumed in the run of the listener that issued it, less than
\* challenge_ttl + grant_ttl seconds after the challenge its owner consented to:
\* neither a restart nor a wait anywhere on the way prolongs a consent.
ConsentIsFresh ==
    [][\A h \in Helpers : taken'[h] # taken[h] =>
         /\ life # "down" /\ starts = issuedIn
         /\ \E n \in Behind(taken'[h]) : now < issued[n].t0 + ChallengeTtl + GrantTtl]_systemVars
=============================================================================
