------------------------- MODULE BackoffTableProofs -------------------------
(***************************************************************************)
(* What the methods of class Backoff return on any table, whatever its     *)
(* keys and whenever they are called: the facts that the proofs about a    *)
(* Backoff object and about the service's two tables share.                *)
(***************************************************************************)
EXTENDS BackoffTable, TLAPS

\* A lockout lasts a natural number of seconds.
LEMMA LockoutSecondsType ==
    ASSUME NEW l PROVE LockoutSeconds(l) \in Nat
  BY BackoffAssumption DEF LockoutSeconds

\* What fail() works on is an entry, touched now.
LEMMA TouchedType ==
    ASSUME NEW t, NEW K, IsTable(t, K), NEW k, NEW n \in Nat
    PROVE  Touched(t, k, n) \in Entry /\ Touched(t, k, n).last = n
<1>1. (IF Has(t, k) THEN t[k] ELSE Fresh(n)) \in Entry
  BY DEF IsTable, Has, Fresh, Entry
<1> QED
  BY <1>1 DEF Touched, Entry

\* The three outcomes of fail(): a lockout starts, one is running, or the failure
\* is counted.
LEMMA FailedEntryCases ==
    ASSUME NEW t, NEW k, NEW n
    PROVE  LET e == Touched(t, k, n)
               f == FailedEntry(t, k, n)
           IN \/ /\ StartsLockout(t, k, n)
                 /\ f = [fails |-> 0, level |-> e.level + 1,
                         until |-> n + LockoutSeconds(e.level), last |-> n]
              \/ ~StartsLockout(t, k, n) /\ n < e.until /\ f = e
              \/ ~StartsLockout(t, k, n) /\ ~(n < e.until) /\ f = [e EXCEPT !.fails = @ + 1]
<1>1. CASE StartsLockout(t, k, n)
  BY <1>1 DEF FailedEntry
<1>2. CASE ~StartsLockout(t, k, n) /\ n < Touched(t, k, n).until
  BY <1>2 DEF FailedEntry
<1>3. CASE ~StartsLockout(t, k, n) /\ ~(n < Touched(t, k, n).until)
  BY <1>3 DEF FailedEntry
<1> QED
  BY <1>1, <1>2, <1>3

\* What fail() leaves behind is an entry.
LEMMA FailedEntryType ==
    ASSUME NEW t, NEW K, IsTable(t, K), NEW k, NEW n \in Nat
    PROVE  FailedEntry(t, k, n) \in Entry /\ FailedEntry(t, k, n).last = n
<1> DEFINE e == Touched(t, k, n)
<1>1. e \in Entry /\ e.last = n
  BY TouchedType
<1>2. LockoutSeconds(e.level) \in Nat
  BY LockoutSecondsType
<1> HIDE DEF e
<1> QED
  BY <1>1, <1>2, FailedEntryCases DEF Entry, e

\* No entry reaches the threshold: the failure that would starts a lockout.
LEMMA FailedEntryBelow ==
    ASSUME NEW t, NEW K, IsTable(t, K), NEW k, NEW n \in Nat,
           \A x \in DOMAIN t : t[x].fails < Threshold
    PROVE  FailedEntry(t, k, n).fails < Threshold
<1> DEFINE e == Touched(t, k, n)
<1>1. e \in Entry
  BY TouchedType
<1>2. e.fails < Threshold
  BY BackoffAssumption DEF Touched, Has, Fresh, IsTable, Entry
<1>3. ~StartsLockout(t, k, n) /\ ~(n < e.until) => e.fails + 1 < Threshold
  BY <1>1, BackoffAssumption DEF StartsLockout, Entry
<1> HIDE DEF e
<1> QED
  BY <1>1, <1>2, <1>3, FailedEntryCases, BackoffAssumption DEF Entry, e

\* _prune() leaves a table.
LEMMA PruneTable ==
    ASSUME NEW t, NEW K, IsTable(t, K), NEW n
    PROVE  /\ IsTable(Prune(t, n), K)
           /\ DOMAIN Prune(t, n) = {x \in DOMAIN t : ~Quiet(t[x], n)}
           /\ \A x \in DOMAIN Prune(t, n) : Prune(t, n)[x] = t[x]
  BY DEF IsTable, Prune

\* fail() puts the failed entry in the table and drops quiet entries only.
LEMMA FailTableShape ==
    ASSUME NEW t, NEW K, IsTable(t, K), NEW k \in K, NEW n \in Nat
    PROVE  LET u == FailTable(t, k, n)
           IN /\ IsTable(u, K)
              /\ DOMAIN u \subseteq DOMAIN t \cup {k}
              /\ k \in DOMAIN u => u[k] = FailedEntry(t, k, n)
              /\ k \notin DOMAIN u => Quiet(FailedEntry(t, k, n), n)
              /\ \A x \in DOMAIN u : x # k => u[x] = t[x]
              /\ \A x \in DOMAIN t \ DOMAIN u : x # k => Quiet(t[x], n)
<1> DEFINE p == Put(t, k, FailedEntry(t, k, n))
<1>1. /\ IsTable(p, K) /\ DOMAIN p = DOMAIN t \cup {k}
      /\ p[k] = FailedEntry(t, k, n)
      /\ \A x \in DOMAIN t : x # k => p[x] = t[x]
  <2>1. FailedEntry(t, k, n) \in Entry
    BY FailedEntryType
  <2> QED
    BY <2>1 DEF IsTable, Put
<1>2. FailTable(t, k, n) = p \/ FailTable(t, k, n) = Prune(p, n)
  BY DEF FailTable
<1>3. /\ IsTable(Prune(p, n), K)
      /\ DOMAIN Prune(p, n) = {x \in DOMAIN p : ~Quiet(p[x], n)}
      /\ \A x \in DOMAIN Prune(p, n) : Prune(p, n)[x] = p[x]
  BY <1>1, PruneTable
<1> HIDE DEF p
<1> QED
  BY <1>1, <1>2, <1>3

\* success() leaves a table.
LEMMA SuccessTableShape ==
    ASSUME NEW t, NEW K, IsTable(t, K), NEW k
    PROVE  /\ IsTable(SuccessTable(t, k), K)
           /\ DOMAIN SuccessTable(t, k) = DOMAIN t \ {k}
           /\ \A x \in DOMAIN t \ {k} : SuccessTable(t, k)[x] = t[x]
  BY DEF IsTable, SuccessTable
=============================================================================
