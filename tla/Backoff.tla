------------------------------ MODULE Backoff ------------------------------
(***************************************************************************)
(* One Backoff object of the listener driven by any sequence of fail() and *)
(* success() calls at any times.  Two history variables give it something  *)
(* to be compared with: "ideal" is the table of a Backoff that never       *)
(* prunes, "story" what each key has gone through since it last started    *)
(* over.                                                                   *)
(***************************************************************************)
EXTENDS BackoffTable

CONSTANTS Keys, MaxTime

ASSUME MaxTimeAssumption == MaxTime \in Nat

VARIABLES
    now,     \* the monotonic clock
    table,   \* self.state
    ideal,   \* history: the table had _prune never run
    story    \* history: per key, since it last started over

vars == <<now, table, ideal, story>>

\* since:   when the first failure was counted
\* guesses: failures that met no lockout
\* paid:    total length of the lockouts imposed
Story == [since: Nat, guesses: Nat, paid: Nat]

NewStory(t) == [since |-> t, guesses |-> 0, paid |-> 0]

Init ==
    /\ now = 0
    /\ table = NoEntries
    /\ ideal = NoEntries
    /\ story = [k \in Keys |-> NewStory(0)]

\* What the history says of a failure of k.
Told(k) ==
    LET over == ~Has(ideal, k) \/ Quiet(ideal[k], now)
        s    == IF over THEN NewStory(now) ELSE story[k]
        hit  == StartsLockout(table, k, now)
        secs == FailedEntry(table, k, now).until - now
    IN [since   |-> s.since,
        guesses |-> IF Locked(table, k, now) THEN s.guesses ELSE s.guesses + 1,
        paid    |-> IF hit THEN s.paid + secs ELSE s.paid]

\* fail(key)
Fail(k) ==
    /\ table' = FailTable(table, k, now)
    /\ ideal' = Put(ideal, k, FailedEntry(ideal, k, now))
    /\ story' = [story EXCEPT ![k] = Told(k)]
    /\ UNCHANGED now

\* success(key)
Success(k) ==
    /\ table' = SuccessTable(table, k)
    /\ ideal' = SuccessTable(ideal, k)
    /\ story' = [story EXCEPT ![k] = NewStory(now)]
    /\ UNCHANGED now

\* MaxTime bounds the clock.
Tick ==
    /\ now < MaxTime
    /\ now' = now + 1
    /\ UNCHANGED <<table, ideal, story>>

Next == (\E k \in Keys : Fail(k) \/ Success(k)) \/ Tick

Spec == Init /\ [][Next]_vars

----------------------------------------------------------------------------
\* The table is a partial function from keys to entries none of which lies in
\* the future or has collected a lockout's worth of failures.
TypeOK ==
    /\ now \in Nat
    /\ IsTable(table, Keys)
    /\ IsTable(ideal, Keys)
    /\ story \in [Keys -> Story]
    /\ \A k \in DOMAIN ideal : ideal[k].last <= now /\ ideal[k].fails < Threshold

\* _prune() cannot be observed: for every key remaining() and the outcome of
\* the next fail() are those of a table that was never pruned, so dropping
\* entries to bound memory never lifts a lockout or forgives a failure.
PruneInvisible ==
    \A k \in Keys :
        /\ Locked(table, k, now) <=> Locked(ideal, k, now)
        /\ Locked(table, k, now) => table[k].until = ideal[k].until
        /\ StartsLockout(table, k, now) <=> StartsLockout(ideal, k, now)
        /\ StartsLockout(table, k, now) =>
             FailedEntry(table, k, now) = FailedEntry(ideal, k, now)

\* Guesses are paid for: since a key last started over it has had fewer than
\* Threshold counted failures beyond those its lockouts account for, and the
\* lockouts were served one after the other, so the latest cannot end before
\* the first failure plus all of them (fail() neither overlaps lockouts nor
\* counts failures made during one).
GuessesArePaidFor ==
    \A k \in DOMAIN ideal :
        /\ story[k].guesses < Threshold * (ideal[k].level + 1)
        /\ story[k].guesses >= Threshold =>
             ideal[k].until >= story[k].since + story[k].paid

\* While a key is locked out no call but its own success() moves the end of
\* its lockout: more failures of it or of other keys neither extend nor
\* shorten it, and pruning does not drop it.
LockoutStands ==
    [][\A k \in Keys : Locked(table, k, now) =>
         Success(k) \/ (Has(table', k) /\ table'[k].until = table[k].until)]_vars
=============================================================================
