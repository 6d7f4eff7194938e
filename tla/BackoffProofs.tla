---------------------------- MODULE BackoffProofs ----------------------------
(***************************************************************************)
(* The backoff table for any set of keys, thresholds, lockout lengths and  *)
(* table limit.                                                            *)
(***************************************************************************)
EXTENDS Backoff, BackoffTableProofs

\* Two entries that no caller can tell apart at time t or later.
Agree(e, f, t) ==
    /\ e.fails = f.fails /\ e.level = f.level /\ e.last = f.last
    /\ e.until = f.until \/ (e.until <= t /\ f.until <= t)

\* The table against the one that is never pruned: entries it still has agree,
\* entries it dropped would be started over anyway.
Match ==
    /\ DOMAIN table \subseteq DOMAIN ideal
    /\ \A k \in DOMAIN ideal :
         IF Has(table, k) THEN Agree(table[k], ideal[k], now)
                          ELSE Quiet(ideal[k], now)

\* The history against the unpruned table: lockouts account for all guesses but
\* the entry's current fails, and follow one another.
Ledger ==
    \A k \in DOMAIN ideal :
        /\ story[k].since <= now
        /\ story[k].guesses = Threshold * ideal[k].level + ideal[k].fails
        /\ ideal[k].level = 0 => story[k].paid = 0
        /\ ideal[k].level # 0 => ideal[k].until >= story[k].since + story[k].paid

IndInv == TypeOK /\ Match /\ Ledger

----------------------------------------------------------------------------
(* The table and its unpruned twin. *)

\* A key that agrees in two tables is touched alike in both.
LEMMA TouchedAgree ==
    ASSUME TypeOK, Match, NEW k \in Keys
    PROVE  Agree(Touched(table, k, now), Touched(ideal, k, now), now)
<1> USE BackoffAssumption DEF TypeOK, Agree, Touched
<1>1. CASE Has(table, k)
  <2>1. Has(ideal, k) /\ Agree(table[k], ideal[k], now)
    BY <1>1 DEF Match, Has
  <2>2. table[k] \in Entry /\ ideal[k] \in Entry
    BY <1>1, <2>1 DEF IsTable, Has
  <2>3. Quiet(table[k], now) <=> Quiet(ideal[k], now)
    BY <2>1, <2>2 DEF Quiet, Entry
  <2> QED
    BY <1>1, <2>1, <2>2, <2>3 DEF Entry
<1>2. CASE ~Has(table, k) /\ Has(ideal, k)
  <2>1. Quiet(ideal[k], now) /\ ideal[k] \in Entry
    BY <1>2 DEF Match, IsTable, Has
  <2> QED
    BY <1>2, <2>1 DEF Quiet, Fresh, Entry
<1>3. CASE ~Has(table, k) /\ ~Has(ideal, k)
  BY <1>3
<1> QED
  BY <1>1, <1>2, <1>3 DEF Match, Has

\* Both tables answer alike, and their entries still agree after a failure.
LEMMA AnswersAgree ==
    ASSUME TypeOK, Match, \A x \in DOMAIN table : table[x].fails < Threshold,
           NEW k \in Keys
    PROVE  /\ Locked(table, k, now) <=> Locked(ideal, k, now)
           /\ Locked(table, k, now) => table[k].until = ideal[k].until
           /\ StartsLockout(table, k, now) <=> StartsLockout(ideal, k, now)
           /\ StartsLockout(table, k, now) =>
                FailedEntry(table, k, now) = FailedEntry(ideal, k, now)
           /\ Agree(FailedEntry(table, k, now), FailedEntry(ideal, k, now), now)
<1> DEFINE e == Touched(table, k, now)
           f == Touched(ideal, k, now)
<1>1. e \in Entry /\ f \in Entry /\ e.last = now /\ f.last = now
  BY TouchedType DEF TypeOK, Touched
<1>2. Agree(e, f, now)
  BY TouchedAgree
<1>3. Locked(table, k, now) <=> Locked(ideal, k, now)
  BY DEF Locked, Match, Agree, Quiet, Has, TypeOK, IsTable, Entry
<1>4. Locked(table, k, now) => table[k].until = ideal[k].until
  BY DEF Locked, Match, Agree, Has, TypeOK, IsTable, Entry
<1>5. StartsLockout(table, k, now) <=> StartsLockout(ideal, k, now)
  BY <1>1, <1>2, BackoffAssumption DEF StartsLockout, Agree, Entry, TypeOK
<1>6. StartsLockout(table, k, now) =>
        FailedEntry(table, k, now) = FailedEntry(ideal, k, now)
  <2>1. e.level = f.level
    BY <1>2 DEF Agree
  <2> QED
    BY <1>5, <2>1 DEF FailedEntry
<1>7. Agree(FailedEntry(table, k, now), FailedEntry(ideal, k, now), now)
  <2>1. CASE StartsLockout(table, k, now)
    BY <1>6, <2>1 DEF Agree
  <2>2. CASE ~StartsLockout(table, k, now) /\ now < e.until
    <3>1. now < f.until
      BY <1>1, <1>2, <2>2 DEF Agree, Entry, TypeOK
    <3>2. FailedEntry(table, k, now) = e /\ FailedEntry(ideal, k, now) = f
      BY <1>5, <2>2, <3>1 DEF FailedEntry
    <3> QED
      BY <1>2, <3>2
  <2>3. CASE ~StartsLockout(table, k, now) /\ ~(now < e.until)
    <3>1. ~(now < f.until)
      BY <1>1, <1>2, <2>3 DEF Agree, Entry, TypeOK
    <3>2. /\ FailedEntry(table, k, now) = [e EXCEPT !.fails = @ + 1]
          /\ FailedEntry(ideal, k, now) = [f EXCEPT !.fails = @ + 1]
      BY <1>5, <2>3, <3>1 DEF FailedEntry
    <3> HIDE DEF e, f
    <3> QED
      BY <1>1, <1>2, <3>2 DEF Agree, Entry
  <2> QED
    BY <2>1, <2>2, <2>3
<1> QED
  BY <1>3, <1>4, <1>5, <1>6, <1>7

\* The entries of the pruned table satisfy what TypeOK says of the other.
LEMMA FailsBelowThreshold ==
    ASSUME TypeOK, Match
    PROVE  \A x \in DOMAIN table : table[x].fails < Threshold
  BY DEF TypeOK, Match, Agree, Has

----------------------------------------------------------------------------
(* One lemma per action. *)

\* The history entry of a failing key balances with its table entry.
LEMMA ToldBalances ==
    ASSUME IndInv, NEW k \in Keys
    PROVE  LET f == FailedEntry(ideal, k, now)
           IN /\ Told(k) \in Story
              /\ Told(k).since <= now
              /\ Told(k).guesses = Threshold * f.level + f.fails
              /\ f.level = 0 => Told(k).paid = 0
              /\ f.level # 0 => f.until >= Told(k).since + Told(k).paid
<1> DEFINE f    == FailedEntry(ideal, k, now)
           t    == Touched(ideal, k, now)
           over == ~Has(ideal, k) \/ Quiet(ideal[k], now)
           s    == IF over THEN NewStory(now)
                           ELSE story[k]
           hit  == StartsLockout(ideal, k, now)
<1> SUFFICES /\ Told(k) \in Story
             /\ Told(k).since <= now
             /\ Told(k).guesses = Threshold * f.level + f.fails
             /\ f.level = 0 => Told(k).paid = 0
             /\ f.level # 0 => f.until >= Told(k).since + Told(k).paid
  OBVIOUS
<1> USE BackoffAssumption DEF IndInv
<1>1. TypeOK /\ now \in Nat /\ story[k] \in Story /\ t \in Entry
  BY TouchedType DEF TypeOK
<1>2. /\ s \in Story /\ s.since <= now
      /\ s.guesses = Threshold * t.level + t.fails
      /\ t.level = 0 => s.paid = 0
      /\ t.level # 0 => t.until >= s.since + s.paid
      /\ t.fails < Threshold
  <2>1. CASE over
    <3>1. t.level = 0 /\ t.fails = 0
      BY <2>1 DEF Touched, Fresh
    <3>2. s = [since |-> now, guesses |-> 0, paid |-> 0]
      BY <2>1 DEF NewStory
    <3> HIDE DEF s, t
    <3> QED
      BY <1>1, <3>1, <3>2 DEF Story
  <2>2. CASE ~over
    <3>1. /\ t.level = ideal[k].level /\ t.fails = ideal[k].fails
          /\ t.until = ideal[k].until /\ s = story[k] /\ k \in DOMAIN ideal
      BY <2>2 DEF Touched, Has
    <3> HIDE DEF s, t
    <3> QED
      BY <1>1, <3>1 DEF Ledger, TypeOK
  <2> QED
    BY <2>1, <2>2
<1>3. Locked(table, k, now) <=> now < t.until
  <2>1. Locked(ideal, k, now) <=> now < t.until
    BY <1>1 DEF Locked, Touched, Has, Fresh, TypeOK, IsTable, Entry
  <2> QED
    BY <2>1, FailsBelowThreshold, AnswersAgree
<1>4. /\ StartsLockout(table, k, now) <=> hit
      /\ hit => FailedEntry(table, k, now) = f
  BY FailsBelowThreshold, AnswersAgree
<1>5. hit <=> now >= t.until /\ t.fails + 1 >= Threshold
  BY DEF StartsLockout
<1>6. LockoutSeconds(t.level) \in Nat
  BY LockoutSecondsType
<1>7. Told(k) = [since   |-> s.since,
                 guesses |-> IF now < t.until THEN s.guesses ELSE s.guesses + 1,
                 paid    |-> IF hit THEN s.paid + (f.until - now) ELSE s.paid]
  BY <1>3, <1>4 DEF Told
<1>8. CASE hit
  <2>1. /\ f.fails = 0 /\ f.level = t.level + 1
        /\ f.until = now + LockoutSeconds(t.level)
    BY <1>8 DEF FailedEntry
  <2>2. t.fails + 1 = Threshold /\ now >= t.until
    <3>1. t.fails < Threshold
      BY <1>2
    <3>2. now >= t.until /\ t.fails + 1 >= Threshold
      BY <1>5, <1>8
    <3> HIDE DEF f, s, t, hit
    <3>3. t.fails \in Nat /\ Threshold \in Nat
      BY <1>1, BackoffAssumption DEF Entry
    <3> QED
      BY <3>1, <3>2, <3>3
  <2>3. Threshold * (t.level + 1) = Threshold * t.level + Threshold
    BY <1>1 DEF Entry
  <2>4. /\ Told(k).since = s.since /\ Told(k).guesses = s.guesses + 1
        /\ Told(k).paid = s.paid + LockoutSeconds(t.level)
        /\ Told(k) \in Story
    <3>1. f.until - now = LockoutSeconds(t.level)
      BY <1>1, <1>6, <2>1
    <3>2. ~(now < t.until)
      BY <1>1, <2>2 DEF Entry
    <3> HIDE DEF f, s, t, hit
    <3> QED
      BY <1>2, <1>6, <1>7, <1>8, <3>1, <3>2 DEF Story
  <2> HIDE DEF f, s, t, hit
  <2>5. Told(k).guesses = Threshold * f.level + f.fails
    BY <1>1, <1>2, <2>1, <2>2, <2>3, <2>4 DEF Story, Entry
  <2>6. f.until >= Told(k).since + Told(k).paid
    BY <1>1, <1>2, <1>6, <2>1, <2>2, <2>4 DEF Story, Entry
  <2> QED
    BY <1>1, <1>2, <2>1, <2>4, <2>5, <2>6 DEF Story, Entry
<1>9. CASE ~hit /\ now < t.until
  <2>1. f = t
    BY <1>9 DEF FailedEntry
  <2> HIDE DEF f, s, t, hit
  <2> QED
    BY <1>1, <1>2, <1>7, <1>9, <2>1 DEF Story, Entry
<1>10. CASE ~hit /\ ~(now < t.until)
  <2>1. f = [t EXCEPT !.fails = @ + 1]
    BY <1>10 DEF FailedEntry
  <2> HIDE DEF f, s, t, hit
  <2>2. f.fails = t.fails + 1 /\ f.level = t.level /\ f.until = t.until
    BY <1>1, <2>1 DEF Entry
  <2>3. Told(k).guesses = s.guesses + 1 /\ Told(k).paid = s.paid /\ Told(k).since = s.since
    BY <1>7, <1>10
  <2>4. Told(k) \in Story
    BY <1>2, <1>7, <1>10 DEF Story
  <2>5. Threshold * t.level \in Nat
    BY <1>1 DEF Entry
  <2> QED
    BY <1>1, <1>2, <2>2, <2>3, <2>4, <2>5 DEF Story, Entry
<1> QED
  BY <1>8, <1>9, <1>10

\* fail() preserves the inductive invariant.
LEMMA FailPreserves ==
    ASSUME IndInv, NEW k \in Keys, Fail(k)
    PROVE  IndInv'
<1> USE DEF IndInv
<1> DEFINE e == FailedEntry(table, k, now)
           f == FailedEntry(ideal, k, now)
<1>1. \A x \in DOMAIN table : table[x].fails < Threshold
  BY FailsBelowThreshold
<1>2. /\ e \in Entry /\ e.last = now
      /\ f \in Entry /\ f.last = now /\ f.fails < Threshold
  BY <1>1, FailedEntryType, FailedEntryBelow DEF TypeOK
<1>3. now' = now /\ now \in Nat
  BY DEF Fail, TypeOK
<1>4. /\ IsTable(ideal', Keys) /\ DOMAIN ideal' = DOMAIN ideal \cup {k}
      /\ ideal'[k] = f
      /\ \A x \in DOMAIN ideal : x # k => ideal'[x] = ideal[x]
  BY <1>2 DEF Fail, Put, TypeOK, IsTable
<1>5. /\ IsTable(table', Keys) /\ DOMAIN table' \subseteq DOMAIN table \cup {k}
      /\ k \in DOMAIN table' => table'[k] = e
      /\ k \notin DOMAIN table' => Quiet(e, now)
      /\ \A x \in DOMAIN table' : x # k => table'[x] = table[x]
      /\ \A x \in DOMAIN table \ DOMAIN table' : x # k => Quiet(table[x], now)
  BY <1>1, FailTableShape DEF Fail, TypeOK
<1>6. Agree(e, f, now)
  BY <1>1, AnswersAgree
<1>0. /\ Told(k) \in Story
      /\ Told(k).since <= now
      /\ Told(k).guesses = Threshold * f.level + f.fails
      /\ f.level = 0 => Told(k).paid = 0
      /\ f.level # 0 => f.until >= Told(k).since + Told(k).paid
  BY ToldBalances
<1> HIDE DEF e, f
<1>7. Match'
  <2>1. DOMAIN table' \subseteq DOMAIN ideal'
    BY <1>4, <1>5 DEF Match
  <2>2. ASSUME NEW x \in DOMAIN ideal'
        PROVE  IF Has(table', x) THEN Agree(table'[x], ideal'[x], now)
                                 ELSE Quiet(ideal'[x], now)
    <3>1. CASE x = k
      BY <1>2, <1>3, <1>4, <1>5, <1>6, <3>1 DEF Has, Agree, Quiet, Entry
    <3>2. CASE x # k /\ Has(table', x)
      BY <1>4, <1>5, <3>2, <2>2 DEF Match, Has
    <3>3. CASE x # k /\ ~Has(table', x) /\ ~Has(table, x)
      BY <1>4, <1>5, <3>3, <2>2 DEF Match, Has
    <3>4. CASE x # k /\ ~Has(table', x) /\ Has(table, x)
      <4>1. Quiet(table[x], now) /\ Agree(table[x], ideal[x], now)
        BY <1>5, <2>2, <3>4 DEF Match, Has
      <4>2. table[x] \in Entry /\ ideal[x] \in Entry /\ ideal'[x] = ideal[x]
        BY <1>4, <2>2, <3>4 DEF TypeOK, IsTable, Has
      <4> QED
        BY <1>3, <3>4, <4>1, <4>2, BackoffAssumption DEF Quiet, Agree, Entry
    <3> QED
      BY <3>1, <3>2, <3>3, <3>4
  <2> QED
    BY <1>3, <2>1, <2>2 DEF Match, Has
<1>8. story' = [story EXCEPT ![k] = Told(k)] /\ story \in [Keys -> Story]
  BY DEF Fail, TypeOK
<1>10. TypeOK'
  BY <1>2, <1>3, <1>4, <1>5, <1>8, <1>0 DEF TypeOK
<1>11. Ledger'
  BY <1>3, <1>4, <1>8, <1>0 DEF Ledger, TypeOK, IsTable
<1> QED
  BY <1>7, <1>10, <1>11

\* success() preserves the inductive invariant.
LEMMA SuccessPreserves ==
    ASSUME IndInv, NEW k \in Keys, Success(k)
    PROVE  IndInv'
<1> USE DEF IndInv
<1>1. /\ IsTable(table', Keys) /\ DOMAIN table' = DOMAIN table \ {k}
      /\ \A x \in DOMAIN table' : table'[x] = table[x]
  BY DEF Success, SuccessTable, TypeOK, IsTable
<1>2. /\ IsTable(ideal', Keys) /\ DOMAIN ideal' = DOMAIN ideal \ {k}
      /\ \A x \in DOMAIN ideal' : ideal'[x] = ideal[x]
  BY DEF Success, SuccessTable, TypeOK, IsTable
<1>3. /\ now' = now /\ story' \in [Keys -> Story]
      /\ \A x \in Keys \ {k} : story'[x] = story[x]
  BY DEF Success, TypeOK, NewStory, Story
<1>4. TypeOK'
  BY <1>1, <1>2, <1>3 DEF TypeOK
<1>5. Match'
  BY <1>1, <1>2, <1>3 DEF Match, Has
<1>6. Ledger'
  BY <1>2, <1>3 DEF Ledger, TypeOK, IsTable
<1> QED
  BY <1>4, <1>5, <1>6

\* The passing of time preserves the inductive invariant.
LEMMA TickPreserves ==
    ASSUME IndInv, Tick
    PROVE  IndInv'
<1> USE DEF IndInv, Tick
<1>1. TypeOK'
  BY BackoffAssumption DEF TypeOK, IsTable, Entry
<1>2. Match'
  BY BackoffAssumption DEF TypeOK, Match, Has, Agree, Quiet, IsTable, Entry
<1>3. Ledger'
  BY DEF TypeOK, Ledger, Story, IsTable
<1> QED
  BY <1>1, <1>2, <1>3

\* The inductive invariant of a Backoff object.
THEOREM Invariance == Spec => []IndInv
<1>1. Init => IndInv
  BY BackoffAssumption
     DEF Init, IndInv, TypeOK, IsTable, NoEntries, Match, Ledger, NewStory, Story
<1>2. IndInv /\ [Next]_vars => IndInv'
  <2>1. IndInv /\ UNCHANGED vars => IndInv'
    BY DEF vars, IndInv, TypeOK, IsTable, Match, Has, Ledger
  <2> QED
    BY <2>1, FailPreserves, SuccessPreserves, TickPreserves DEF Next
<1> QED
  BY <1>1, <1>2, PTL DEF Spec

\* Every variable keeps its type, and no entry reaches Threshold failures.
THEOREM TypeCorrect == Spec => []TypeOK
<1>1. IndInv => TypeOK
  BY DEF IndInv
<1> QED
  BY <1>1, Invariance, PTL

\* Pruning the table is invisible to every caller.
THEOREM PruningIsInvisible == Spec => []PruneInvisible
<1>1. ASSUME IndInv PROVE PruneInvisible
  <2>1. TypeOK /\ Match /\ \A x \in DOMAIN table : table[x].fails < Threshold
    BY <1>1, FailsBelowThreshold DEF IndInv
  <2> QED
    BY <2>1, AnswersAgree DEF PruneInvisible
<1> QED
  BY <1>1, Invariance, PTL

\* Every guess beyond a threshold has been paid for with a lockout served.
THEOREM EveryGuessIsPaidFor == Spec => []GuessesArePaidFor
<1>1. ASSUME IndInv, NEW k \in DOMAIN ideal
      PROVE  /\ story[k].guesses < Threshold * (ideal[k].level + 1)
             /\ story[k].guesses >= Threshold =>
                  ideal[k].until >= story[k].since + story[k].paid
  <2>1. /\ ideal[k].level \in Nat /\ ideal[k].fails \in Nat
        /\ ideal[k].fails < Threshold
        /\ story[k].guesses = Threshold * ideal[k].level + ideal[k].fails
        /\ ideal[k].level # 0 => ideal[k].until >= story[k].since + story[k].paid
    BY <1>1 DEF IndInv, TypeOK, IsTable, Entry, Ledger
  <2>2. Threshold * (ideal[k].level + 1) = Threshold * ideal[k].level + Threshold
    BY <2>1, BackoffAssumption
  <2>3. Threshold * ideal[k].level \in Nat
    BY <2>1, BackoffAssumption
  <2>4. ideal[k].level = 0 => story[k].guesses < Threshold
    BY <2>1, <2>3, BackoffAssumption
  <2> QED
    BY <2>1, <2>2, <2>3, <2>4, BackoffAssumption
<1>2. IndInv => GuessesArePaidFor
  BY <1>1 DEF GuessesArePaidFor
<1> QED
  BY <1>2, Invariance, PTL

\* Nothing but its own success() moves the end of a running lockout.
THEOREM LockoutsStand == Spec => LockoutStands
<1> DEFINE Stands(k) ==
      Locked(table, k, now) =>
        Success(k) \/ (Has(table', k) /\ table'[k].until = table[k].until)
<1>1. ASSUME IndInv, [Next]_vars PROVE [\A k \in Keys : Stands(k)]_vars
  <2> SUFFICES ASSUME NEW k \in Keys, Locked(table, k, now), Next, ~Success(k)
               PROVE  Has(table', k) /\ table'[k].until = table[k].until
    BY <1>1
  <2>1. /\ TypeOK /\ k \in DOMAIN table /\ table[k] \in Entry
        /\ now < table[k].until /\ now \in Nat
        /\ \A x \in DOMAIN table : table[x].fails < Threshold
    BY <1>1, FailsBelowThreshold DEF IndInv, TypeOK, IsTable, Locked, Has, Entry
  <2>2. ~Quiet(table[k], now)
    BY <2>1 DEF Quiet, Entry
  <2>3. CASE Fail(k)
    <3>1. FailedEntry(table, k, now) = Touched(table, k, now)
      BY <2>1 DEF FailedEntry, StartsLockout, Touched, Has, Entry
    <3>2. Touched(table, k, now).until = table[k].until
      BY <2>1 DEF Touched, Has
    <3>3. ~Quiet(FailedEntry(table, k, now), now)
      BY <2>1, <3>1, <3>2 DEF Quiet, Entry
    <3> QED
      BY <2>1, <2>3, <3>1, <3>2, <3>3, FailTableShape DEF Fail, TypeOK, Has
  <2>4. ASSUME NEW j \in Keys, j # k, Fail(j)
        PROVE  Has(table', k) /\ table'[k].until = table[k].until
    BY <2>1, <2>2, <2>4, FailTableShape DEF Fail, TypeOK, Has
  <2>5. ASSUME NEW j \in Keys, j # k, Success(j)
        PROVE  Has(table', k) /\ table'[k].until = table[k].until
    BY <2>1, <2>5 DEF Success, SuccessTable, Has
  <2>6. CASE Tick
    BY <2>1, <2>6 DEF Tick, Has
  <2> QED
    BY <2>3, <2>4, <2>5, <2>6 DEF Next
<1> QED
  BY <1>1, Invariance, PTL DEF Spec, LockoutStands
=============================================================================
