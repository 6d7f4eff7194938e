---------------------------- MODULE BackoffTable ----------------------------
(***************************************************************************)
(* The failure table of class Backoff (listener.py): a partial function    *)
(* from keys (IP addresses, device ids) to entries, and what its methods   *)
(* compute on it.  Every operator takes the table and the clock reading as *)
(* parameters, so the listener's two tables (per IP, per device) share it. *)
(* Time is in whole ticks of the monotonic clock.                          *)
(***************************************************************************)
EXTENDS Integers, FiniteSets

CONSTANTS
    Threshold,   \* failures that start a lockout        (lockout.threshold)
    Base,        \* length of the first lockout          (lockout.base_seconds)
    Maximum,     \* cap on the length of a lockout       (lockout.max_seconds)
    QuietReset,  \* silence after which a key starts over (quiet_reset)
    TableLimit   \* entries above which fail() prunes    (2048)

ASSUME BackoffAssumption ==
    /\ Threshold \in Nat \ {0}
    /\ Base \in Nat \ {0}
    /\ Maximum \in Nat \ {0}
    /\ QuietReset \in Nat
    /\ TableLimit \in Nat

Entry == [fails: Nat, level: Nat, until: Nat, last: Nat]

\* t is a partial function from K to entries.
IsTable(t, K) == DOMAIN t \subseteq K /\ t \in [DOMAIN t -> Entry]

NoEntries == [k \in {} |-> 0]

----------------------------------------------------------------------------
\* min(base * 2 ** level, maximum); the membership test also says that the
\* product is a number, which the provers do not know of "^".
LockoutSeconds(level) ==
    LET doubled == Base * 2^level
    IN IF doubled \in 0 .. Maximum THEN doubled ELSE Maximum

\* Faulty variant of Quiet: forgets that the key may still be locked out.
QuietIgnoringLockout(e, now) == now - e.last > QuietReset

\* The entry is neither locked nor recently active: fail() starts it over and
\* _prune() drops it.
Quiet(e, now) == now - e.last > QuietReset /\ now >= e.until

Fresh(now) == [fails |-> 0, level |-> 0, until |-> 0, last |-> now]

Has(table, k) == k \in DOMAIN table

\* remaining(key) > 0
Locked(table, k, now) == Has(table, k) /\ table[k].until > now

\* The entry fail() works on: setdefault, the quiet reset and last = now.
Touched(table, k, now) ==
    LET e == IF Has(table, k) THEN table[k] ELSE Fresh(now)
    IN [fails |-> IF Quiet(e, now) THEN 0 ELSE e.fails,
        level |-> IF Quiet(e, now) THEN 0 ELSE e.level,
        until |-> e.until,
        last  |-> now]

\* Faulty variant of StartsLockout: one failure too many is forgiven.
StartsLockoutLate(table, k, now) ==
    LET e == Touched(table, k, now)
    IN now >= e.until /\ e.fails + 1 > Threshold

\* The value fail() returns: this failure started a new lockout.
StartsLockout(table, k, now) ==
    LET e == Touched(table, k, now)
    IN now >= e.until /\ e.fails + 1 >= Threshold

\* Faulty variant of FailedEntry: failures during a lockout count too.
FailedEntryAlways(table, k, now) ==
    LET e == Touched(table, k, now)
    IN IF e.fails + 1 >= Threshold
       THEN [fails |-> 0, level |-> e.level + 1,
             until |-> now + LockoutSeconds(e.level), last |-> now]
       ELSE [e EXCEPT !.fails = @ + 1]

\* The entry of the key after fail().
FailedEntry(table, k, now) ==
    LET e == Touched(table, k, now)
    IN CASE StartsLockout(table, k, now) ->
              [fails |-> 0, level |-> e.level + 1,
               until |-> now + LockoutSeconds(e.level), last |-> now]
         [] now < e.until /\ ~StartsLockout(table, k, now) -> e
         [] OTHER -> [e EXCEPT !.fails = @ + 1]

Put(table, k, e) ==
    [x \in DOMAIN table \cup {k} |-> IF x = k THEN e ELSE table[x]]

\* _prune(now)
Prune(table, now) ==
    [x \in {y \in DOMAIN table : ~Quiet(table[y], now)} |-> table[x]]

\* fail(key): only a failure that neither starts nor meets a lockout prunes.
FailTable(table, k, now) ==
    LET t == Put(table, k, FailedEntry(table, k, now))
    IN IF /\ ~StartsLockout(table, k, now)
          /\ now >= Touched(table, k, now).until
          /\ Cardinality(DOMAIN t) > TableLimit
       THEN Prune(t, now)
       ELSE t

\* success(key)
SuccessTable(table, k) == [x \in DOMAIN table \ {k} |-> table[x]]
=============================================================================
