---------------------------- MODULE OneShotGrant ----------------------------
(***************************************************************************)
(* What the grant broker promises, with no clock, event, socket or task: a *)
(* grant is issued, is claimed by at most one claimant, and may lapse at   *)
(* any moment before that.  Issuing again replaces an unclaimed grant.     *)
(***************************************************************************)
EXTENDS Naturals

CONSTANT Claimants

VARIABLES
    issues,  \* grants issued so far; the latest one is number "issues"
    live,    \* the latest grant can still be claimed
    owner    \* number of the grant each claimant obtained, 0 if none

vars == <<issues, live, owner>>

Init ==
    /\ issues = 0
    /\ live = FALSE
    /\ owner = [c \in Claimants |-> 0]

Issue ==
    /\ issues' = issues + 1
    /\ live' = TRUE
    /\ UNCHANGED owner

Claim(c) ==
    /\ live
    /\ owner[c] = 0
    /\ owner' = [owner EXCEPT ![c] = issues]
    /\ live' = FALSE
    /\ UNCHANGED issues

Lapse ==
    /\ live
    /\ live' = FALSE
    /\ UNCHANGED <<issues, owner>>

Next == Issue \/ Lapse \/ \E c \in Claimants : Claim(c)

Spec == Init /\ [][Next]_vars

----------------------------------------------------------------------------
\* No grant has two owners, and none was obtained before it was issued.
SingleUse ==
    \A c, d \in Claimants :
        /\ owner[c] <= issues
        /\ c # d /\ owner[c] # 0 => owner[c] # owner[d]
=============================================================================
