---------------------------- MODULE Authorisation ----------------------------
(***************************************************************************)
(* What the WebSocket side of the listener promises the rest of the        *)
(* system, with no connections, tables, timeouts or audit records: a       *)
(* device is given a challenge, its owner may consent by signing it, and   *)
(* a session may authorise one unlock on the strength of a challenge that  *)
(* is consented to, young enough and not used before.                      *)
(***************************************************************************)
EXTENDS Integers

CONSTANTS
    Nonces, Devices,
    Sessions,  \* who authorises
    Ttl        \* how long a challenge can be answered

VARIABLES
    now,
    issued,    \* nonce -> device it was issued to, and when
    consents,  \* <<nonce, device>>: the device has signed the nonce
    given      \* <<nonce, session>>: the session has authorised an unlock with it

vars == <<now, issued, consents, given>>

Init ==
    /\ now \in Nat
    /\ issued = [n \in {} |-> 0]
    /\ consents = {} /\ given = {}

\* Nonce n is issued to device d; nonces do not repeat.
Challenge(n, d) ==
    /\ n \notin DOMAIN issued
    /\ issued' = [m \in DOMAIN issued \cup {n} |->
                    IF m = n THEN [dev |-> d, t0 |-> now] ELSE issued[m]]
    /\ UNCHANGED <<now, consents, given>>

\* The owner of the device n was issued to consents.
Consent(n) ==
    /\ n \in DOMAIN issued
    /\ consents' = consents \cup {<<n, issued[n].dev>>}
    /\ UNCHANGED <<now, issued, given>>

\* Session s authorises one unlock.
Give(n, s) ==
    /\ n \in DOMAIN issued
    /\ <<n, issued[n].dev>> \in consents
    /\ now - issued[n].t0 <= Ttl
    /\ \A g \in given : g[1] # n /\ g[2] # s
    /\ given' = given \cup {<<n, s>>}
    /\ UNCHANGED <<now, issued, consents>>

Pass ==
    /\ now' = now + 1
    /\ UNCHANGED <<issued, consents, given>>

Next ==
    \/ Pass
    \/ \E n \in Nonces :
         \/ Consent(n)
         \/ \E d \in Devices : Challenge(n, d)
         \/ \E s \in Sessions : Give(n, s)

Spec == Init /\ [][Next]_vars
=============================================================================
