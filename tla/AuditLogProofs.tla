--------------------------- MODULE AuditLogProofs ---------------------------
(***************************************************************************)
(* The audit log, for any set of events and any length of the file: a log  *)
(* nobody edited and whose writes all succeeded always verifies, over any  *)
(* number of crashes and restarts; damage stays visible; records are not   *)
(* lost silently; edits show, and with an alert's head rewriting does too. *)
(***************************************************************************)
EXTENDS AuditLog, SequenceTheorems, FiniteSetTheorems, TLAPS

Lines(f) == {f[i] : i \in 1 .. Len(f)}

\* f is a sequence of complete lines, each of which verifies.
Sound(f) ==
    /\ f \in Seq(Lines(f))
    /\ \A i \in 1 .. Len(f) : Good(f, i) /\ f[i].open = FALSE

\* As long as the log is untouched the file is sound, no restart has found
\* fault with it, and the running listener's memory is its last line.
IndInv ==
    /\ edits \in Nat /\ mishaps \in Nat
    /\ Untouched => /\ Sound(file)
                    /\ tamper = FALSE
                    /\ up => seq = Len(file) /\ head = HashAt(file, Len(file))

----------------------------------------------------------------------------
\* A sequence is a sequence of its own elements.
LEMMA OwnLines ==
    ASSUME NEW S, NEW f \in Seq(S)
    PROVE  f \in Seq(Lines(f))
<1>1. /\ Len(f) \in Nat
      /\ f \in [1 .. Len(f) -> S]
      /\ DOMAIN f = 1 .. Len(f)
  BY LenProperties
<1>2. f \in [1 .. Len(f) -> Lines(f)]
  BY <1>1 DEF Lines
<1> QED
  BY <1>1, <1>2, SeqDef

\* A record written after a sound file that carries the next number and the hash
\* of the last line gives a sound file that is one line longer.
LEMMA SoundAppend ==
    ASSUME NEW f, Sound(f), NEW event
    PROVE  LET line == EntryLine(Len(f) + 1, event, HashAt(f, Len(f)))
               g    == Written(f, line)
           IN Sound(g) /\ Len(g) = Len(f) + 1 /\ HashAt(g, Len(g)) = line.hash
<1> DEFINE line == EntryLine(Len(f) + 1, event, HashAt(f, Len(f)))
           g    == Append(f, line)
           T    == Lines(f) \cup {line}
<1>1. f \in Seq(Lines(f)) /\ Len(f) \in Nat
  BY LenProperties DEF Sound
<1>2. f \in Seq(T)
  BY <1>1, SeqMonotonic
<1>3. /\ g \in Seq(T)
      /\ Len(g) = Len(f) + 1
      /\ \A i \in 1 .. Len(f) : g[i] = f[i]
      /\ g[Len(f) + 1] = line
  BY <1>2, AppendProperties
<1>4. Written(f, line) = g
  <2>1. CASE f = <<>>
    BY <2>1 DEF Written
  <2>2. CASE f # <<>>
    <3>1. Len(f) \in 1 .. Len(f)
      BY <1>1, <2>2, EmptySeq
    <3> QED
      BY <3>1 DEF Sound, Written
  <2> QED
    BY <2>1, <2>2
<1>5. ASSUME NEW i \in 1 .. Len(f)
      PROVE  HashAt(g, i) = HashAt(f, i) /\ HashAt(g, i - 1) = HashAt(f, i - 1)
  BY <1>1, <1>3, <1>5 DEF HashAt
<1>6. HashAt(g, Len(f)) = HashAt(f, Len(f))
  BY <1>1, <1>3 DEF HashAt
<1>7. ASSUME NEW i \in 1 .. Len(f)
      PROVE  Good(g, i) /\ g[i].open = FALSE
  BY <1>3, <1>5, <1>7 DEF Sound, Good
<1>8. Good(g, Len(f) + 1) /\ line.open = FALSE
  BY <1>1, <1>3, <1>6 DEF Good, EntryLine
<1>9. Sound(g)
  <2>1. g \in Seq(Lines(g))
    BY <1>3, OwnLines
  <2>2. ASSUME NEW i \in 1 .. Len(g)
        PROVE  Good(g, i) /\ g[i].open = FALSE
    <3>1. i \in 1 .. Len(f) \/ i = Len(f) + 1
      BY <1>1, <1>3, <2>2
    <3> QED
      BY <1>3, <1>7, <1>8, <3>1
  <2> QED
    BY <2>1, <2>2 DEF Sound
<1>10. HashAt(g, Len(g)) = line.hash
  BY <1>1, <1>3 DEF HashAt
<1> QED
  BY <1>3, <1>4, <1>9, <1>10

----------------------------------------------------------------------------
\* The inductive invariant holds of a new log.
LEMMA InitIndInv ==
    Init => IndInv
<1> SUFFICES ASSUME Init PROVE IndInv
  OBVIOUS
<1>1. <<>> \in Seq(Lines(<<>>)) /\ Len(<<>>) = 0
  BY EmptySeq
<1>2. Sound(file)
  BY <1>1 DEF Init, Sound
<1> QED
  BY <1>2 DEF Init, IndInv

\* Every append, failure, crash, restart and edit preserves it.
LEMMA NextIndInv ==
    IndInv /\ [Next]_vars => IndInv'
<1> SUFFICES ASSUME IndInv, [Next]_vars
             PROVE  IndInv'
  OBVIOUS
<1>1. CASE Restart
  <2>1. edits' = edits /\ mishaps' = mishaps /\ file' = file
    BY <1>1 DEF Restart, changes
  <2>2. ASSUME Untouched
        PROVE  tamper' = FALSE /\ seq' = Len(file) /\ head' = HashAt(file, Len(file))
    <3>1. Intact(file)
      BY <2>2 DEF IndInv, Sound, Intact
    <3> QED
      BY <1>1, <3>1 DEF Restart, Verify
  <2>3. Untouched' <=> Untouched
    BY <2>1 DEF Untouched
  <2> QED
    BY <2>1, <2>2, <2>3 DEF IndInv, Sound, Lines, Good, HashAt
<1>2. ASSUME NEW event \in Events, DoAppend(event)
      PROVE  IndInv'
  <2> DEFINE line == EntryLine(seq + 1, event, head)
  <2>1. /\ up /\ up' = up /\ tamper' = tamper
        /\ edits' = edits /\ mishaps' = mishaps
        /\ file' = Written(file, line) /\ seq' = seq + 1 /\ head' = line.hash
    BY <1>2 DEF DoAppend, NextSeq, changes
  <2>2. Untouched' <=> Untouched
    BY <2>1 DEF Untouched
  <2>3. ASSUME Untouched
        PROVE  Sound(file') /\ seq' = Len(file') /\ head' = HashAt(file', Len(file'))
    <3>1. Sound(file) /\ seq = Len(file) /\ head = HashAt(file, Len(file))
      BY <2>1, <2>3 DEF IndInv
    <3> QED
      BY <2>1, <3>1, SoundAppend
  <2>4. Sound(file)' <=> Sound(file')
    BY DEF Sound, Lines, Good, HashAt
  <2> QED
    BY <2>1, <2>2, <2>3, <2>4 DEF IndInv, HashAt
<1>3. ASSUME NEW event \in Events, FailingAppend(event)
      PROVE  IndInv'
  BY <1>3 DEF FailingAppend, IndInv, Untouched
<1>4. CASE Crash
  <2>1. /\ up /\ up' = FALSE /\ tamper' = tamper
        /\ edits' = edits /\ mishaps' = mishaps
        /\ \/ file' = file
           \/ \E event \in Events : file' = Written(file, EntryLine(seq + 1, event, head))
    BY <1>4 DEF Crash, NextSeq, changes
  <2>2. Untouched' <=> Untouched
    BY <2>1 DEF Untouched
  <2>3. ASSUME Untouched
        PROVE  Sound(file')
    <3>1. Sound(file) /\ seq = Len(file) /\ head = HashAt(file, Len(file))
      BY <2>1, <2>3 DEF IndInv
    <3> QED
      BY <2>1, <3>1, SoundAppend
  <2>4. Sound(file)' <=> Sound(file')
    BY DEF Sound, Lines, Good, HashAt
  <2> QED
    BY <2>1, <2>2, <2>3, <2>4 DEF IndInv
<1>5. CASE Tamper
  BY <1>5 DEF Tamper, IndInv, Untouched
<1>6. ASSUME Shutdown \/ (\E a \in flying : Deliver(a)) \/ Stop \/ UNCHANGED vars
      PROVE  IndInv'
  <2>1. /\ (up' => up) /\ tamper' = tamper /\ seq' = seq /\ head' = head
        /\ edits' = edits /\ mishaps' = mishaps /\ file' = file
    BY <1>6 DEF Shutdown, Deliver, Stop, vars, memory, changes
  <2>2. Untouched' <=> Untouched
    BY <2>1 DEF Untouched
  <2>3. Sound(file)' <=> Sound(file)
    BY <2>1 DEF Sound, Lines, Good, HashAt
  <2> QED
    BY <2>1, <2>2, <2>3 DEF IndInv, HashAt
<1> QED
  BY <1>1, <1>2, <1>3, <1>4, <1>5, <1>6 DEF Next

\* It implies what the run checks.
LEMMA IndInvImplies ==
    IndInv => HonestLogVerifies
BY DEF IndInv, HonestLogVerifies, Sound, Intact

\* append(), verify_file() and the restart agree for every length of the log:
\* without edits or failing writes the file verifies and no restart reports
\* tampering, whenever the process died.
THEOREM HonestLogsVerify ==
    Spec => []HonestLogVerifies
<1>1. Spec => []IndInv
  BY InitIndInv, NextIndInv, PTL DEF Spec
<1> QED
  BY <1>1, IndInvImplies, PTL

----------------------------------------------------------------------------
(* Files. *)

LineOK(l) ==
    /\ l = [parsed |-> l.parsed, seq |-> l.seq, event |-> l.event,
            prev |-> l.prev, hash |-> l.hash, open |-> l.open]
    /\ l.parsed \in BOOLEAN /\ l.open \in BOOLEAN
    /\ l.seq \in Nat /\ l.event \in Events \cup {"none"}

\* f is a sequence of lines.
Log(f) == f \in Seq(Lines(f)) /\ \A i \in 1 .. Len(f) : LineOK(f[i])

\* Only the event of the line may have been changed.
SameButEvent(l, w) ==
    /\ l.parsed = w.parsed /\ l.seq = w.seq
    /\ l.prev = w.prev /\ l.hash = w.hash /\ l.open = w.open

\* What one line at most has been added to or taken from is a file again.
LEMMA LogOf ==
    ASSUME NEW S, NEW f \in Seq(S), \A i \in 1 .. Len(f) : LineOK(f[i])
    PROVE  Log(f) /\ Len(f) \in Nat
BY OwnLines, LenProperties DEF Log

LEMMA EmptyLog == Log(<<>>) /\ Len(<<>>) = 0
<1>1. <<>> \in Seq(Lines(<<>>)) /\ Len(<<>>) = 0
  BY EmptySeq
<1> QED
  BY <1>1 DEF Log

LEMMA LogAppend ==
    ASSUME NEW f, Log(f), NEW l, LineOK(l)
    PROVE  /\ Log(Append(f, l)) /\ Len(Append(f, l)) = Len(f) + 1 /\ Len(f) \in Nat
           /\ Append(f, l)[Len(f) + 1] = l
           /\ \A i \in 1 .. Len(f) : Append(f, l)[i] = f[i]
<1> DEFINE T == Lines(f) \cup {l}
           g == Append(f, l)
<1>1. f \in Seq(T) /\ Len(f) \in Nat
  BY SeqMonotonic, LenProperties DEF Log
<1>2. /\ g \in Seq(T) /\ Len(g) = Len(f) + 1 /\ g[Len(f) + 1] = l
      /\ \A i \in 1 .. Len(f) : g[i] = f[i]
  BY <1>1, AppendProperties
<1> HIDE DEF g, T
<1>3. \A i \in 1 .. Len(g) : i \in 1 .. Len(f) \/ i = Len(f) + 1
  BY <1>1, <1>2
<1>4. \A i \in 1 .. Len(g) : LineOK(g[i])
  BY <1>2, <1>3 DEF Log
<1>5. Log(g)
  BY <1>2, <1>4, LogOf
<1> QED
  BY <1>1, <1>2, <1>5 DEF g

LEMMA LogExcept ==
    ASSUME NEW f, Log(f), NEW i \in 1 .. Len(f), NEW l, LineOK(l)
    PROVE  /\ Log([f EXCEPT ![i] = l]) /\ Len([f EXCEPT ![i] = l]) = Len(f)
           /\ \A j \in 1 .. Len(f) : [f EXCEPT ![i] = l][j] = IF j = i THEN l ELSE f[j]
<1> DEFINE T == Lines(f) \cup {l}
           g == [f EXCEPT ![i] = l]
<1>1. f \in Seq(T) /\ l \in T
  BY SeqMonotonic DEF Log
<1>2. /\ g \in Seq(T) /\ Len(g) = Len(f)
      /\ \A j \in 1 .. Len(f) : g[j] = IF j = i THEN l ELSE f[j]
  BY <1>1, ExceptSeq
<1> HIDE DEF g, T
<1>3. \A j \in 1 .. Len(g) : LineOK(g[j])
  BY <1>2 DEF Log
<1>4. Log(g)
  BY <1>2, <1>3, LogOf
<1> QED
  BY <1>2, <1>4 DEF g

LEMMA LogSubSeq ==
    ASSUME NEW f, Log(f), NEW m \in Nat, NEW n \in Nat, 1 <= m, m <= n + 1, n <= Len(f)
    PROVE  /\ Log(SubSeq(f, m, n)) /\ Len(SubSeq(f, m, n)) = n - m + 1
           /\ \A i \in 1 .. n - m + 1 : SubSeq(f, m, n)[i] = f[m + i - 1]
<1> DEFINE g == SubSeq(f, m, n)
<1>1. f \in Seq(Lines(f)) /\ Len(f) \in Nat
  BY LenProperties DEF Log
<1>2. \A i \in m .. n : f[i] \in Lines(f) /\ LineOK(f[i])
  BY <1>1 DEF Lines, Log
<1>3. /\ g \in Seq(Lines(f)) /\ Len(g) = n - m + 1
      /\ \A i \in 1 .. n - m + 1 : g[i] = f[m + i - 1]
  BY <1>2, SubSeqProperties
<1> HIDE DEF g
<1>4. \A i \in 1 .. Len(g) : m + i - 1 \in m .. n /\ g[i] = f[m + i - 1]
  BY <1>3
<1>5. Log(g)
  BY <1>2, <1>3, <1>4, LogOf
<1> QED
  BY <1>3, <1>5 DEF g

LEMMA LogConcat ==
    ASSUME NEW f, Log(f), NEW g, Log(g)
    PROVE  /\ Log(f \o g) /\ Len(f \o g) = Len(f) + Len(g)
           /\ \A i \in 1 .. Len(f) + Len(g) :
                 (f \o g)[i] = IF i <= Len(f) THEN f[i] ELSE g[i - Len(f)]
<1> DEFINE T == Lines(f) \cup Lines(g)
           h == f \o g
<1>1. f \in Seq(T) /\ g \in Seq(T) /\ Len(f) \in Nat /\ Len(g) \in Nat
  BY SeqMonotonic, LenProperties DEF Log
<1>2. /\ h \in Seq(T) /\ Len(h) = Len(f) + Len(g)
      /\ \A i \in 1 .. Len(f) + Len(g) : h[i] = IF i <= Len(f) THEN f[i] ELSE g[i - Len(f)]
  BY <1>1, ConcatProperties
<1> HIDE DEF h, T
<1>3. ASSUME NEW i \in 1 .. Len(h) PROVE LineOK(h[i])
  <2>1. \/ i \in 1 .. Len(f) /\ h[i] = f[i]
        \/ i - Len(f) \in 1 .. Len(g) /\ h[i] = g[i - Len(f)]
    BY <1>1, <1>2
  <2>2. CASE i \in 1 .. Len(f) /\ h[i] = f[i]
    BY <2>2 DEF Log
  <2>3. CASE i - Len(f) \in 1 .. Len(g) /\ h[i] = g[i - Len(f)]
    BY <2>3 DEF Log
  <2> QED
    BY <2>1, <2>2, <2>3
<1>4. Log(h)
  BY <1>2, <1>3, LogOf
<1> QED
  BY <1>2, <1>4 DEF h

\* A line with another event is a line.
LEMMA LineEdited ==
    ASSUME NEW l, LineOK(l), NEW event \in Events
    PROVE  LineOK([l EXCEPT !.event = event]) /\ SameButEvent([l EXCEPT !.event = event], l)
BY DEF LineOK, SameButEvent

\* A line that loses its newline is a line.
LEMMA LineOpened ==
    ASSUME NEW l, LineOK(l), NEW open \in BOOLEAN
    PROVE  LineOK([l EXCEPT !.open = open])
<1> DEFINE r == [parsed |-> l.parsed, seq |-> l.seq, event |-> l.event,
                 prev |-> l.prev, hash |-> l.hash, open |-> l.open]
           m == [l EXCEPT !.open = open]
<1>1. l = r
  BY Zenon DEF LineOK
<1>2. DOMAIN l = DOMAIN r
  BY <1>1, Zenon
<1>3. DOMAIN l = {"parsed", "seq", "event", "prev", "hash", "open"}
  BY <1>2
<1>4. m = [parsed |-> l.parsed, seq |-> l.seq, event |-> l.event,
           prev |-> l.prev, hash |-> l.hash, open |-> open]
  BY <1>3
<1> HIDE DEF m
<1>5. /\ m.parsed = l.parsed /\ m.seq = l.seq /\ m.event = l.event
      /\ m.prev = l.prev /\ m.hash = l.hash /\ m.open = open
  BY <1>4, Zenon
<1> QED
  BY <1>4, <1>5, Zenon DEF LineOK, m

\* The lines append() writes, whole or in part.
LEMMA WrittenLines ==
    ASSUME NEW n \in Nat, NEW event \in Events \cup {"none"}, NEW prev
    PROVE  /\ LineOK(EntryLine(n, event, prev))
           /\ LineOK([EntryLine(n, event, prev) EXCEPT !.open = TRUE])
<1>1. LineOK(EntryLine(n, event, prev))
  BY Zenon DEF LineOK, EntryLine
<1>2. LineOK([EntryLine(n, event, prev) EXCEPT !.open = TRUE])
  BY <1>1, LineOpened
<1> QED
  BY <1>1, <1>2

LEMMA ScrapLine ==
    ASSUME NEW open \in BOOLEAN
    PROVE  LineOK(Scrap(open))
BY DEF LineOK, Scrap

\* A write adds a line, or spoils the last one when that lacks its newline.
LEMMA WrittenCases ==
    ASSUME NEW f, Log(f), NEW l, LineOK(l)
    PROVE  /\ Log(Written(f, l))
           /\ \/ /\ Written(f, l) = Append(f, l)
                 /\ f = <<>> \/ f[Len(f)].open = FALSE
              \/ /\ Len(f) \in 1 .. Len(f) /\ f[Len(f)].open = TRUE
                 /\ Written(f, l) = [f EXCEPT ![Len(f)] = Scrap(l.open)]
<1>1. f \in Seq(Lines(f)) /\ Len(f) \in Nat
  BY LenProperties DEF Log
<1>2. CASE f = <<>>
  BY <1>2, LogAppend DEF Written
<1>3. CASE f # <<>>
  <2>1. Len(f) \in 1 .. Len(f)
    BY <1>1, <1>3, EmptySeq
  <2>2. f[Len(f)].open \in BOOLEAN
    BY <2>1 DEF Log, LineOK
  <2>3. CASE f[Len(f)].open = FALSE
    BY <2>3, LogAppend DEF Written
  <2>4. CASE f[Len(f)].open = TRUE
    <3>1. LineOK(Scrap(l.open))
      BY ScrapLine DEF LineOK
    <3> QED
      BY <1>3, <2>1, <2>4, <3>1, LogExcept DEF Written
  <2> QED
    BY <2>2, <2>3, <2>4
<1> QED
  BY <1>2, <1>3

\* A write leaves a file that verifies only if it added a whole line that fits
\* to a file that verified.
LEMMA WrittenIntact ==
    ASSUME NEW f, Log(f), NEW l, LineOK(l), Intact(Written(f, l))
    PROVE  /\ Written(f, l) = Append(f, l) /\ Intact(f)
           /\ l.parsed /\ l.seq = Len(f) + 1 /\ l.prev = HashAt(f, Len(f))
           /\ l.hash = Hash(l.prev, l.seq, l.event)
<1> DEFINE g == Written(f, l)
           L == Len(f)
<1>1. L \in Nat
  BY LenProperties DEF Log
<1>2. CASE L \in 1 .. L /\ g = [f EXCEPT ![L] = Scrap(l.open)]
  <2>1. LineOK(Scrap(l.open))
    BY ScrapLine DEF LineOK
  <2>2. Len(g) = L /\ g[L] = Scrap(l.open)
    BY <1>2, <2>1, LogExcept
  <2>3. ~Good(g, L)
    BY <2>2 DEF Good, Scrap
  <2> QED
    BY <1>2, <2>2, <2>3 DEF Intact
<1>3. CASE g = Append(f, l)
  <2>1. Len(g) = L + 1 /\ g[L + 1] = l /\ \A i \in 1 .. L : g[i] = f[i]
    BY <1>3, LogAppend
  <2> HIDE DEF g
  <2>2. \A i \in 0 .. L : HashAt(g, i) = HashAt(f, i)
    BY <1>1, <2>1 DEF HashAt
  <2>3. \A i \in 1 .. L : Good(g, i) /\ g[i] = f[i] /\ HashAt(g, i - 1) = HashAt(f, i - 1)
    BY <1>1, <2>1, <2>2 DEF g, Intact
  <2>4. Intact(f)
    BY <2>3 DEF Intact, Good
  <2>5. Good(g, L + 1)
    BY <1>1, <2>1 DEF g, Intact
  <2>6. HashAt(g, L) = HashAt(f, L) /\ (L + 1) - 1 = L
    BY <1>1, <2>2
  <2> QED
    BY <1>3, <2>1, <2>4, <2>5, <2>6 DEF Good, g
<1> QED
  BY <1>2, <1>3, WrittenCases

\* A set of natural numbers that is not empty has a least element.
LEMMA LeastNatural ==
    ASSUME NEW T, T \subseteq Nat, T # {}
    PROVE  \E x \in T : \A y \in T : x <= y
<1> DEFINE A == {k \in Nat : \A j \in 0 .. k : j \notin T}
           c == Cardinality(A)
<1>1. PICK t \in T : TRUE
  OBVIOUS
<1>2. A \subseteq 0 .. t
  BY <1>1
<1>3. IsFiniteSet(A) /\ c \in Nat
  <2>1. IsFiniteSet(0 .. t)
    BY <1>1, FS_Interval
  <2>2. IsFiniteSet(A)
    BY <1>2, <2>1, FS_Subset
  <2> HIDE DEF A
  <2> QED
    BY <2>2, FS_CardinalityType
<1>4. c \notin A
  <2> SUFFICES ASSUME c \in A PROVE FALSE
    OBVIOUS
  <2>1. 0 .. c \subseteq A
    BY <1>3
  <2>2. Cardinality(0 .. c) <= c
    BY <2>1, <1>3, FS_Subset
  <2>3. Cardinality(0 .. c) = c + 1
    BY <1>3, FS_Interval
  <2> QED
    BY <2>2, <2>3, <1>3
<1>5. \A j \in 0 .. c - 1 : j \in A
  <2> SUFFICES ASSUME NEW j \in 0 .. c - 1, j \notin A PROVE FALSE
    OBVIOUS
  <2>1. j \in Nat /\ j < c /\ j - 1 \in Int /\ 0 \in Int
    BY <1>3
  <2>2. A \subseteq 0 .. j - 1
    BY <2>1
  <2>3. /\ IsFiniteSet(0 .. j - 1)
        /\ Cardinality(0 .. j - 1) = IF 0 > j - 1 THEN 0 ELSE j - 1 - 0 + 1
    BY <2>1, FS_Interval, Zenon
  <2>4. Cardinality(A) <= Cardinality(0 .. j - 1)
    BY <2>2, <2>3, FS_Subset, Zenon
  <2> DEFINE d == Cardinality(0 .. j - 1)
  <2>5. d = IF 0 > j - 1 THEN 0 ELSE j - 1 - 0 + 1
    BY <2>3
  <2>6. c <= d
    BY <2>4
  <2> HIDE DEF A, c, d
  <2> QED
    BY <1>3, <2>1, <2>5, <2>6
<1>6. PICK x \in 0 .. c : x \in T
  BY <1>3, <1>4
<1>7. \A y \in T : x <= y
  BY <1>3, <1>5, <1>6
<1> QED
  BY <1>6, <1>7

\* verify_file() finds the first bad line of a file that does not verify.
LEMMA FirstBadLine ==
    ASSUME NEW f, Log(f), ~Intact(f)
    PROVE  FirstBad(f) \in 1 .. Len(f) /\ \A j \in 1 .. FirstBad(f) - 1 : Good(f, j)
<1> DEFINE T == {i \in 1 .. Len(f) : ~Good(f, i)}
<1>1. Len(f) \in Nat
  BY LenProperties DEF Log
<1>2. T \subseteq Nat /\ T # {}
  BY <1>1 DEF Intact
<1>3. PICK i \in T : \A j \in T : i <= j
  <2> HIDE DEF T
  <2> QED
    BY <1>2, LeastNatural
<1>4. i \in 1 .. Len(f) /\ ~Good(f, i) /\ \A j \in 1 .. i - 1 : Good(f, j)
  BY <1>1, <1>3
<1> QED
  BY <1>4, Zenon DEF FirstBad

----------------------------------------------------------------------------
(* Chains. *)

\* Each line is hashed with the hash of the line before it.
Linked(f) ==
    \A i \in 1 .. Len(f) : f[i].hash = Hash(HashAt(f, i - 1), f[i].seq, f[i].event)

\* The ideal hash says what was hashed.
LEMMA Hashes ==
    /\ \A p, n, e : Hash(p, n, e) # Genesis
    /\ \A p, n, e, q, m, d : Hash(p, n, e) = Hash(q, m, d) => p = q /\ n = m /\ e = d
BY DEF Hash, Genesis

\* A file that verifies is a chain.
LEMMA IntactLinked ==
    ASSUME NEW f, Intact(f)
    PROVE  Linked(f)
BY DEF Intact, Linked, Good

\* The head of a chain stands for all of it: two chains with the same head say
\* the same events.
LEMMA SameChain ==
    ASSUME NEW f, Log(f), Linked(f), NEW g, Log(g), Linked(g),
           HashAt(f, Len(f)) = HashAt(g, Len(g))
    PROVE  EventsOf(f) = EventsOf(g)
<1> DEFINE m == Len(f)
           n == Len(g)
           T == {k \in Nat : k <= m /\ k <= n /\ HashAt(f, m - k) # HashAt(g, n - k)}
<1>1. m \in Nat /\ n \in Nat
  BY LenProperties DEF Log
<1>2. \A i \in 1 .. m : HashAt(f, i) = Hash(HashAt(f, i - 1), f[i].seq, f[i].event)
  BY <1>1 DEF Linked, HashAt
<1>3. \A j \in 1 .. n : HashAt(g, j) = Hash(HashAt(g, j - 1), g[j].seq, g[j].event)
  BY <1>1 DEF Linked, HashAt
<1>4. HashAt(f, 0) = Genesis /\ HashAt(g, 0) = Genesis
  BY DEF HashAt
<1>5. HashAt(f, m) = HashAt(g, n)
  OBVIOUS
<1> HIDE DEF m, n
<1>6. T = {}
  <2> SUFFICES ASSUME T # {} PROVE FALSE
    OBVIOUS
  <2>1. PICK k \in T : \A x \in T : k <= x
    <3>1. T \subseteq Nat
      OBVIOUS
    <3> HIDE DEF T
    <3> QED
      BY <3>1, LeastNatural
  <2>2. k # 0
    BY <1>1, <1>5, <2>1
  <2>3. /\ k - 1 \in Nat /\ k - 1 <= m /\ k - 1 <= n /\ ~(k <= k - 1)
        /\ m - (k - 1) \in 1 .. m /\ n - (k - 1) \in 1 .. n
        /\ m - (k - 1) - 1 = m - k /\ n - (k - 1) - 1 = n - k
    <3>1. k \in Nat /\ k <= m /\ k <= n
      BY <2>1
    <3> HIDE DEF T
    <3> QED
      BY <1>1, <2>2, <3>1
  <2>4. HashAt(f, m - (k - 1)) = HashAt(g, n - (k - 1))
    BY <2>1, <2>3, Zenon
  <2>5. HashAt(f, m - k) = HashAt(g, n - k)
    BY <1>2, <1>3, <2>3, <2>4, Hashes
  <2> QED
    BY <2>1, <2>5
<1>7. \A k \in 0 .. m : k <= n => HashAt(f, m - k) = HashAt(g, n - k)
  <2>1. \A k \in 0 .. m : k \in Nat /\ k <= m
    BY <1>1
  <2> QED
    BY <1>6, <2>1, Zenon
<1> HIDE DEF T
<1>8. m = n
  <2>1. ~(m < n)
    <3> SUFFICES ASSUME m < n PROVE FALSE
      OBVIOUS
    <3>1. m \in 0 .. m /\ m <= n /\ m - m = 0 /\ n - m \in 1 .. n
      BY <1>1
    <3>2. HashAt(f, 0) = HashAt(g, n - m)
      BY <1>7, <3>1
    <3> QED
      BY <1>3, <1>4, <3>1, <3>2, Hashes
  <2>2. ~(n < m)
    <3> SUFFICES ASSUME n < m PROVE FALSE
      OBVIOUS
    <3>1. n \in 0 .. m /\ n <= n /\ n - n = 0 /\ m - n \in 1 .. m
      BY <1>1
    <3>2. HashAt(f, m - n) = HashAt(g, 0)
      BY <1>7, <3>1
    <3> QED
      BY <1>2, <1>4, <3>1, <3>2, Hashes
  <2> QED
    BY <1>1, <2>1, <2>2
<1>9. ASSUME NEW i \in 1 .. m
      PROVE  f[i].event = g[i].event
  <2>1. m - i \in 0 .. m /\ m - i <= n /\ m - (m - i) = i /\ n - (m - i) = i /\ i \in 1 .. n
    BY <1>1, <1>8, <1>9
  <2>2. HashAt(f, i) = HashAt(g, i)
    BY <1>7, <2>1
  <2> QED
    BY <1>2, <1>3, <1>9, <2>1, <2>2, Hashes
<1> QED
  BY <1>8, <1>9 DEF EventsOf, m, n

----------------------------------------------------------------------------
(* Edits. *)

\* Every line of g is a line of f, but for its event.
FromLines(g, f) ==
    \A j \in 1 .. Len(g) : \E i \in 1 .. Len(f) : SameButEvent(g[j], f[i])

LEMMA EditOne ==
    ASSUME NEW f, Log(f), NEW i \in 1 .. Len(f), NEW e \in Events
    PROVE  LET g == [f EXCEPT ![i].event = e] IN Log(g) /\ FromLines(g, f)
<1> DEFINE l == [f[i] EXCEPT !.event = e]
           g == [f EXCEPT ![i] = l]
<1>1. LineOK(l) /\ SameButEvent(l, f[i])
  BY LineEdited DEF Log
<1> HIDE DEF l
<1>2. /\ Log(g) /\ Len(g) = Len(f)
      /\ \A j \in 1 .. Len(f) : g[j] = IF j = i THEN l ELSE f[j]
  BY <1>1, LogExcept
<1> HIDE DEF g
<1>3. FromLines(g, f)
  BY <1>1, <1>2 DEF FromLines, SameButEvent
<1> QED
  BY <1>2, <1>3 DEF g, l

LEMMA EditDelete ==
    ASSUME NEW f, Log(f), NEW i \in 1 .. Len(f)
    PROVE  Log(RemoveAt(f, i)) /\ FromLines(RemoveAt(f, i), f)
<1> DEFINE a == SubSeq(f, 1, i - 1)
           b == SubSeq(f, i + 1, Len(f))
           g == a \o b
<1>1. Len(f) \in Nat
  BY LenProperties DEF Log
<1>2. /\ Log(a) /\ Len(a) = i - 1
      /\ \A j \in 1 .. i - 1 : a[j] = f[j]
  <2>1. /\ 1 \in Nat /\ i - 1 \in Nat /\ 1 <= 1 /\ 1 <= (i - 1) + 1 /\ i - 1 <= Len(f)
        /\ (i - 1) - 1 + 1 = i - 1
        /\ \A j \in 1 .. i - 1 : 1 + j - 1 = j
    BY <1>1
  <2> QED
    BY <2>1, LogSubSeq
<1>3. /\ Log(b) /\ Len(b) = Len(f) - i
      /\ \A j \in 1 .. Len(f) - i : b[j] = f[i + j]
  <2>1. /\ i + 1 \in Nat /\ 1 <= i + 1 /\ i + 1 <= Len(f) + 1 /\ Len(f) <= Len(f)
        /\ Len(f) - (i + 1) + 1 = Len(f) - i
        /\ \A j \in 1 .. Len(f) - i : (i + 1) + j - 1 = i + j
    BY <1>1
  <2>2. /\ Log(b) /\ Len(b) = Len(f) - (i + 1) + 1
        /\ \A j \in 1 .. Len(f) - (i + 1) + 1 : b[j] = f[(i + 1) + j - 1]
    BY <1>1, <2>1, LogSubSeq, Zenon
  <2> HIDE DEF b
  <2> QED
    BY <2>1, <2>2
<1> HIDE DEF a, b
<1>4. /\ Log(g) /\ Len(g) = Len(f) - 1
      /\ \A j \in 1 .. Len(f) - 1 : g[j] = IF j <= i - 1 THEN a[j] ELSE b[j - (i - 1)]
  <2>1. /\ Log(g) /\ Len(g) = Len(a) + Len(b)
        /\ \A j \in 1 .. Len(a) + Len(b) :
              g[j] = IF j <= Len(a) THEN a[j] ELSE b[j - Len(a)]
    BY <1>2, <1>3, LogConcat, Zenon
  <2>2. /\ Len(g) = (i - 1) + (Len(f) - i)
        /\ \A j \in 1 .. (i - 1) + (Len(f) - i) :
              g[j] = IF j <= i - 1 THEN a[j] ELSE b[j - (i - 1)]
    BY <1>2, <1>3, <2>1, Zenon
  <2> HIDE DEF g
  <2> QED
    BY <1>1, <2>1, <2>2
<1> HIDE DEF g
<1>5. ASSUME NEW j \in 1 .. Len(g)
      PROVE  \E k \in 1 .. Len(f) : g[j] = f[k]
  <2>1. CASE j <= i - 1
    <3>1. j \in 1 .. i - 1 /\ j \in 1 .. Len(f) /\ j \in 1 .. Len(f) - 1
      BY <1>1, <1>4, <1>5, <2>1
    <3> QED
      BY <1>2, <1>4, <2>1, <3>1
  <2>2. CASE ~(j <= i - 1)
    <3>1. /\ j \in 1 .. Len(f) - 1 /\ j - (i - 1) \in 1 .. Len(f) - i
          /\ i + (j - (i - 1)) = j + 1 /\ j + 1 \in 1 .. Len(f)
      BY <1>1, <1>4, <1>5, <2>2
    <3>2. g[j] = b[j - (i - 1)] /\ b[j - (i - 1)] = f[j + 1]
      BY <1>3, <1>4, <2>2, <3>1
    <3> QED
      BY <3>1, <3>2
  <2> QED
    BY <2>1, <2>2
<1>6. FromLines(g, f)
  BY <1>5, Zenon DEF FromLines, SameButEvent
<1> QED
  BY <1>4, <1>6 DEF RemoveAt, g, a, b

LEMMA EditSwap ==
    ASSUME NEW f, Log(f), NEW i \in 1 .. Len(f) - 1
    PROVE  LET g == [f EXCEPT ![i] = f[i + 1], ![i + 1] = f[i]]
           IN Log(g) /\ FromLines(g, f)
<1> DEFINE h == [f EXCEPT ![i] = f[i + 1]]
           g == [h EXCEPT ![i + 1] = f[i]]
<1>1. Len(f) \in Nat /\ i \in 1 .. Len(f) /\ i + 1 \in 1 .. Len(f)
  BY LenProperties DEF Log
<1>2. LineOK(f[i]) /\ LineOK(f[i + 1])
  BY <1>1 DEF Log
<1>3. /\ Log(h) /\ Len(h) = Len(f)
      /\ \A j \in 1 .. Len(f) : h[j] = IF j = i THEN f[i + 1] ELSE f[j]
  BY <1>1, <1>2, LogExcept
<1> HIDE DEF h
<1>4. /\ Log(g) /\ Len(g) = Len(f)
      /\ \A j \in 1 .. Len(f) : g[j] = IF j = i + 1 THEN f[i] ELSE h[j]
  BY <1>1, <1>2, <1>3, LogExcept
<1> HIDE DEF g
<1>5. \A j \in 1 .. Len(g) : \E k \in 1 .. Len(f) : g[j] = f[k]
  BY <1>1, <1>3, <1>4
<1>6. FromLines(g, f)
  BY <1>5, Zenon DEF FromLines, SameButEvent
<1> QED
  BY <1>4, <1>6 DEF g, h

LEMMA EditTruncate ==
    ASSUME NEW f, Log(f), NEW i \in 0 .. Len(f) - 1
    PROVE  Log(SubSeq(f, 1, i)) /\ FromLines(SubSeq(f, 1, i), f)
<1> DEFINE g == SubSeq(f, 1, i)
<1>1. Len(f) \in Nat
  BY LenProperties DEF Log
<1>2. /\ i \in Nat /\ 1 <= i + 1 /\ i <= Len(f) /\ i - 1 + 1 = i /\ 1 <= 1 /\ 1 \in Nat
      /\ \A j \in 1 .. i : 1 + j - 1 = j /\ j \in 1 .. Len(f)
  BY <1>1
<1>3. Log(g) /\ Len(g) = i /\ \A j \in 1 .. i : g[j] = f[j]
  BY <1>2, LogSubSeq
<1> HIDE DEF g
<1>4. FromLines(g, f)
  BY <1>2, <1>3, Zenon DEF FromLines, SameButEvent
<1> QED
  BY <1>3, <1>4 DEF g

\* A rewritten file has complete lines.
LEMMA EditRewrite ==
    ASSUME NEW f, Log(f), NEW i \in 1 .. Len(f), NEW e \in Events
    PROVE  LET g == Rechained([EventsOf(f) EXCEPT ![i] = e])
           IN Log(g) /\ \A j \in 1 .. Len(g) : g[j].open = FALSE
<1> DEFINE S == Events \cup {"none"}
           v == [EventsOf(f) EXCEPT ![i] = e]
           n == Len(f)
           chain[k \in 0 .. Len(v)] ==
             IF k = 0 THEN Genesis ELSE Hash(chain[k - 1], k, v[k])
           g == [j \in 1 .. Len(v) |-> EntryLine(j, v[j], chain[j - 1])]
<1>1. n \in Nat
  BY LenProperties DEF Log
<1>2. \A j \in 1 .. n : f[j].event \in S
  BY DEF Log, LineOK
<1>3. v \in [1 .. n -> S]
  BY <1>2 DEF EventsOf
<1> HIDE DEF v
<1>4. Len(v) = n
  <2>1. v \in Seq(S)
    BY <1>1, <1>3, SeqDef
  <2> QED
    BY <1>1, <1>3, <2>1, LenProperties
<1> HIDE DEF chain
<1>5. g \in Seq(Lines(g)) /\ Len(g) = n
  <2>1. g \in [1 .. n -> {g[j] : j \in 1 .. n}]
    BY <1>4
  <2> HIDE DEF g
  <2>2. g \in Seq({g[j] : j \in 1 .. n})
    BY <1>1, <2>1, SeqDef
  <2>3. Len(g) = n
    BY <1>1, <2>1, <2>2, LenProperties
  <2> QED
    BY <2>2, <2>3 DEF Lines
<1>6. \A j \in 1 .. n : g[j] = EntryLine(j, v[j], chain[j - 1])
  BY <1>4
<1>7. ASSUME NEW j \in 1 .. n
      PROVE  LineOK(g[j]) /\ g[j].open = FALSE
  <2>1. j \in Nat /\ v[j] \in S
    BY <1>1, <1>3
  <2>2. LineOK(EntryLine(j, v[j], chain[j - 1]))
    BY <2>1, WrittenLines
  <2>3. EntryLine(j, v[j], chain[j - 1]).open = FALSE
    BY DEF EntryLine
  <2> QED
    BY <1>6, <2>2, <2>3, Zenon
<1>8. Rechained(v) = g
  BY Zenon DEF Rechained, chain, g
<1> HIDE DEF g
<1>9. Log(g)
  BY <1>5, <1>7 DEF Log
<1> QED
  BY <1>5, <1>7, <1>8, <1>9, Zenon DEF v

\* An edit gives a file again.  Unless it recomputes the chain it invents no
\* line; and when it does, all lines are complete.
LEMMA EditedLines ==
    ASSUME NEW f, Log(f), NEW how \in Edits, NEW g \in Edited(f, how)
    PROVE  /\ Log(g)
           /\ IF how = "rewrite" THEN \A j \in 1 .. Len(g) : g[j].open = FALSE
                                 ELSE FromLines(g, f)
<1>1. how \in {"edit", "delete", "swap", "truncate", "rewrite"}
  BY AuditAssumption
<1>2. CASE how = "edit"
  <2>1. PICK i \in 1 .. Len(f), e \in Events : g = [f EXCEPT ![i].event = e]
    BY <1>2 DEF Edited
  <2> QED
    BY <1>2, <2>1, EditOne
<1>3. CASE how = "delete"
  <2>1. PICK i \in 1 .. Len(f) - 1 : g = RemoveAt(f, i)
    BY <1>3 DEF Edited
  <2>2. i \in 1 .. Len(f)
    BY LenProperties DEF Log
  <2> QED
    BY <1>3, <2>1, <2>2, EditDelete
<1>4. CASE how = "swap"
  <2>1. PICK i \in 1 .. Len(f) - 1 : g = [f EXCEPT ![i] = f[i + 1], ![i + 1] = f[i]]
    BY <1>4 DEF Edited
  <2> QED
    BY <1>4, <2>1, EditSwap
<1>5. CASE how = "truncate"
  <2>1. PICK i \in 0 .. Len(f) - 1 : g = SubSeq(f, 1, i)
    BY <1>5 DEF Edited
  <2> QED
    BY <1>5, <2>1, EditTruncate
<1>6. CASE how = "rewrite"
  <2> DEFINE S == {Rechained([EventsOf(f) EXCEPT ![i] = e]) : i \in 1 .. Len(f), e \in Events}
  <2>1. Edited(f, how) = S
    BY <1>6 DEF Edited
  <2> HIDE DEF S
  <2>2. g \in S
    BY <2>1
  <2> USE DEF S
  <2>3. PICK i \in 1 .. Len(f), e \in Events : g = Rechained([EventsOf(f) EXCEPT ![i] = e])
    BY <2>2
  <2> QED
    BY <1>6, <2>3, EditRewrite
<1> QED
  BY <1>1, <1>2, <1>3, <1>4, <1>5, <1>6

----------------------------------------------------------------------------
(* The inductive invariant of the log under crashes, failures and edits. *)

\* All lines have their newline.
Closed(f) == \A i \in 1 .. Len(f) : f[i].open = FALSE

\* An alert says what some chain said, under the head of that chain.
Sourced(a) ==
    \E g : /\ Log(g) /\ Linked(g)
           /\ a.head = HashAt(g, Len(g)) /\ a.events = EventsOf(g)

\* The file holds the lines w, and at most one more.
Holds(f, w) ==
    /\ Len(f) = Len(w) \/ Len(f) = Len(w) + 1
    /\ \A i \in 1 .. Len(w) : f[i].hash = w[i].hash

LogInv ==
    /\ Log(file) /\ Log(wrote)
    /\ up \in BOOLEAN /\ tamper \in BOOLEAN /\ rebuilt \in BOOLEAN
    /\ seq \in Nat /\ edits \in Nat /\ mishaps \in Nat
    /\ Linked(wrote) /\ head = HashAt(wrote, Len(wrote))
    /\ \A a \in flying \cup inbox : Sourced(a)
    /\ mishaps = 0 => Closed(file)
    /\ up /\ ~tamper /\ mishaps = 0 /\ ~rebuilt =>
          seq = Len(wrote) /\ Intact(wrote) /\ FromLines(file, wrote)
    /\ up /\ edits = 0 /\ Intact(file) => Holds(file, wrote)

\* The invariant after a step, part by part.
LEMMA Afterwards ==
    ASSUME Log(file'), Log(wrote'),
           up' \in BOOLEAN, tamper' \in BOOLEAN, rebuilt' \in BOOLEAN,
           seq' \in Nat, edits' \in Nat, mishaps' \in Nat,
           Linked(wrote'), head' = HashAt(wrote', Len(wrote')),
           \A a \in flying' \cup inbox' : Sourced(a),
           mishaps' = 0 => Closed(file'),
           up' /\ ~tamper' /\ mishaps' = 0 /\ ~rebuilt' =>
              seq' = Len(wrote') /\ Intact(wrote') /\ FromLines(file', wrote'),
           up' /\ edits' = 0 /\ Intact(file') => Holds(file', wrote')
    PROVE  LogInv'
<1>1. /\ Log(file)' <=> Log(file')
      /\ Log(wrote)' <=> Log(wrote')
  BY DEF Log, Lines, LineOK
<1>2. Linked(wrote)' <=> Linked(wrote')
  BY DEF Linked, HashAt
<1>3. (head = HashAt(wrote, Len(wrote)))' <=> head' = HashAt(wrote', Len(wrote'))
  BY DEF HashAt
<1>4. (\A a \in flying \cup inbox : Sourced(a))' <=> \A a \in flying' \cup inbox' : Sourced(a)
  OBVIOUS
<1>5. Closed(file)' <=> Closed(file')
  BY DEF Closed
<1>6. (Intact(wrote)' <=> Intact(wrote')) /\ (Intact(file)' <=> Intact(file'))
  BY DEF Intact, Good, HashAt
<1>7. FromLines(file, wrote)' <=> FromLines(file', wrote')
  BY DEF FromLines, SameButEvent
<1>8. Holds(file, wrote)' <=> Holds(file', wrote')
  BY DEF Holds
<1> QED
  BY <1>1, <1>2, <1>3, <1>4, <1>5, <1>6, <1>7, <1>8, Zenon DEF LogInv

\* A chain grows by a line that is hashed with its head.
LEMMA LinkedAppend ==
    ASSUME NEW w, Log(w), Linked(w), NEW l, LineOK(l),
           l.hash = Hash(HashAt(w, Len(w)), l.seq, l.event)
    PROVE  /\ Linked(Append(w, l))
           /\ HashAt(Append(w, l), Len(Append(w, l))) = l.hash
<1> DEFINE g == Append(w, l)
           n == Len(w)
<1>1. /\ n \in Nat /\ Len(g) = n + 1 /\ g[n + 1] = l
      /\ \A i \in 1 .. n : g[i] = w[i]
  BY LogAppend
<1> HIDE DEF g
<1>2. \A i \in 0 .. n : HashAt(g, i) = HashAt(w, i)
  BY <1>1 DEF HashAt
<1>3. ASSUME NEW i \in 1 .. Len(g)
      PROVE  g[i].hash = Hash(HashAt(g, i - 1), g[i].seq, g[i].event)
  <2>1. CASE i \in 1 .. n
    <3>1. i - 1 \in 0 .. n
      BY <1>1, <2>1
    <3> QED
      BY <1>1, <1>2, <2>1, <3>1 DEF Linked
  <2>2. CASE i = n + 1
    <3>1. i - 1 = n /\ n \in 0 .. n
      BY <1>1, <2>2
    <3> QED
      BY <1>1, <1>2, <2>2, <3>1
  <2> QED
    BY <1>1, <2>1, <2>2
<1>4. HashAt(g, Len(g)) = l.hash
  BY <1>1 DEF HashAt
<1> QED
  BY <1>3, <1>4 DEF Linked, g

\* A file that verifies grows by a line that continues it.
LEMMA IntactAppend ==
    ASSUME NEW w, Log(w), Intact(w), NEW event \in Events
    PROVE  Intact(Append(w, EntryLine(Len(w) + 1, event, HashAt(w, Len(w)))))
<1> DEFINE l == EntryLine(Len(w) + 1, event, HashAt(w, Len(w)))
           g == Append(w, l)
           n == Len(w)
<1>1. n \in Nat
  BY LenProperties DEF Log
<1>2. LineOK(l)
  <2>1. n + 1 \in Nat /\ event \in Events \cup {"none"}
    BY <1>1
  <2> QED
    BY <2>1, WrittenLines, Zenon
<1>3. /\ l.parsed = TRUE /\ l.seq = n + 1 /\ l.prev = HashAt(w, n)
      /\ l.hash = Hash(l.prev, l.seq, l.event)
  BY DEF EntryLine
<1> HIDE DEF l
<1>4. /\ Len(g) = n + 1 /\ g[n + 1] = l
      /\ \A i \in 1 .. n : g[i] = w[i]
  BY <1>2, LogAppend
<1> HIDE DEF g
<1>5. \A i \in 0 .. n : HashAt(g, i) = HashAt(w, i)
  BY <1>1, <1>4 DEF HashAt
<1>6. ASSUME NEW i \in 1 .. n
      PROVE  Good(g, i)
  <2>1. i - 1 \in 0 .. n /\ g[i] = w[i] /\ Good(w, i)
    BY <1>1, <1>4 DEF Intact
  <2> QED
    BY <1>5, <2>1 DEF Good
<1>7. Good(g, n + 1)
  <2>1. (n + 1) - 1 = n /\ n \in 0 .. n
    BY <1>1
  <2> QED
    BY <1>3, <1>4, <1>5, <2>1 DEF Good
<1>8. \A i \in 1 .. Len(g) : i \in 1 .. n \/ i = n + 1
  BY <1>1, <1>4
<1>9. Intact(g)
  BY <1>6, <1>7, <1>8 DEF Intact
<1> QED
  BY <1>9 DEF g, l

\* A record can only be written after a file that verifies, so that it still
\* does, when the file holds exactly what was written before.
LEMMA HoldsAppend ==
    ASSUME NEW f, Log(f), NEW w, Log(w), Intact(f) => Holds(f, w),
           NEW l, LineOK(l), l.prev = HashAt(w, Len(w)), Intact(Written(f, l)),
           NEW k, LineOK(k), k.hash = l.hash
    PROVE  Holds(Written(f, l), w) /\ Holds(Written(f, l), Append(w, k))
<1> DEFINE n == Len(w)
           g == Append(f, l)
           v == Append(w, k)
<1>1. /\ Written(f, l) = g /\ Intact(f)
      /\ HashAt(f, Len(f)) = HashAt(w, n)
  BY WrittenIntact
<1>2. Holds(f, w) /\ n \in Nat
  BY <1>1, LenProperties DEF Log
<1>3. HashAt(f, n) = HashAt(w, n)
  BY <1>2 DEF Holds, HashAt
<1>4. Len(f) # n + 1
  <2> SUFFICES ASSUME Len(f) = n + 1 PROVE FALSE
    OBVIOUS
  <2>1. n + 1 \in 1 .. Len(f) /\ (n = 0 \/ n \in 1 .. Len(f))
    BY <1>2
  <2>2. Good(f, n + 1)
    BY <1>1, <2>1 DEF Intact
  <2>3. HashAt(f, n + 1) = Hash(f[n + 1].prev, n + 1, f[n + 1].event)
    BY <1>2, <2>2 DEF Good, HashAt
  <2>4. HashAt(f, n + 1) = HashAt(f, n)
    BY <1>1, <1>3
  <2>5. CASE n = 0
    BY <2>3, <2>4, <2>5, Hashes DEF HashAt
  <2>6. CASE n \in 1 .. Len(f)
    <3>1. Good(f, n)
      BY <1>1, <2>6 DEF Intact
    <3>2. HashAt(f, n) = Hash(f[n].prev, n, f[n].event)
      BY <1>2, <2>6, <3>1 DEF Good, HashAt
    <3>3. n = n + 1
      BY <2>3, <2>4, <3>2, Hashes
    <3> QED
      BY <1>2, <3>3
  <2> QED
    BY <2>1, <2>5, <2>6
<1>5. Len(f) = n
  BY <1>2, <1>4 DEF Holds
<1>6. /\ Len(g) = n + 1 /\ g[n + 1] = l
      /\ \A i \in 1 .. n : g[i] = f[i]
  <2>1. /\ Len(g) = Len(f) + 1 /\ g[Len(f) + 1] = l
        /\ \A i \in 1 .. Len(f) : g[i] = f[i]
    BY LogAppend
  <2> HIDE DEF g, n
  <2> QED
    BY <1>5, <2>1
<1>7. /\ Len(v) = n + 1 /\ v[n + 1] = k
      /\ \A i \in 1 .. n : v[i] = w[i]
  BY LogAppend
<1> HIDE DEF g, v
<1>8. \A i \in 1 .. n : g[i].hash = w[i].hash /\ v[i].hash = w[i].hash
  BY <1>2, <1>6, <1>7 DEF Holds
<1>9. \A i \in 1 .. n + 1 : i \in 1 .. n \/ i = n + 1
  BY <1>2
<1>10. Holds(g, w)
  BY <1>6, <1>8 DEF Holds
<1>11. Holds(g, v)
  BY <1>6, <1>7, <1>8, <1>9 DEF Holds
<1> QED
  BY <1>1, <1>10, <1>11 DEF v

\* A whole line written after whole lines is a line of its own.
LEMMA ClosedAppend ==
    ASSUME NEW f, Log(f), Closed(f), NEW l, LineOK(l), l.open = FALSE
    PROVE  Written(f, l) = Append(f, l) /\ Closed(Append(f, l))
<1> DEFINE n == Len(f)
           g == Append(f, l)
<1>1. n \in Nat /\ Len(g) = n + 1 /\ g[n + 1] = l /\ \A i \in 1 .. n : g[i] = f[i]
  BY LogAppend
<1>2. Written(f, l) = g
  <2>1. CASE f = <<>>
    BY <2>1 DEF Written
  <2>2. CASE f # <<>>
    <3>1. n \in 1 .. n
      BY <1>1, <2>2, EmptySeq DEF Log
    <3>2. f[n].open = FALSE
      BY <3>1 DEF Closed
    <3> QED
      BY <3>2 DEF Written
  <2> QED
    BY <2>1, <2>2
<1> HIDE DEF g
<1>3. \A i \in 1 .. Len(g) : i \in 1 .. n \/ i = n + 1
  BY <1>1
<1>4. ASSUME NEW i \in 1 .. Len(g)
      PROVE  g[i].open = FALSE
  <2>1. CASE i \in 1 .. n
    BY <1>1, <2>1 DEF Closed
  <2>2. CASE i = n + 1
    BY <1>1, <2>2
  <2> QED
    BY <1>3, <2>1, <2>2
<1> QED
  BY <1>2, <1>4 DEF Closed, g

LEMMA FromLinesAppend ==
    ASSUME NEW f, Log(f), NEW w, Log(w), FromLines(f, w), NEW l, LineOK(l)
    PROVE  FromLines(Append(f, l), Append(w, l))
<1> DEFINE n == Len(f)
           m == Len(w)
           g == Append(f, l)
           v == Append(w, l)
<1>1. n \in Nat /\ Len(g) = n + 1 /\ g[n + 1] = l /\ \A i \in 1 .. n : g[i] = f[i]
  BY LogAppend
<1>2. m \in Nat /\ Len(v) = m + 1 /\ v[m + 1] = l /\ \A i \in 1 .. m : v[i] = w[i]
  BY LogAppend
<1> HIDE DEF g, v
<1>3. ASSUME NEW j \in 1 .. Len(g)
      PROVE  \E i \in 1 .. Len(v) : SameButEvent(g[j], v[i])
  <2>1. CASE j \in 1 .. n
    <3>1. PICK i \in 1 .. m : SameButEvent(f[j], w[i])
      BY <2>1 DEF FromLines
    <3>2. i \in 1 .. Len(v) /\ v[i] = w[i] /\ g[j] = f[j]
      BY <1>1, <1>2, <2>1
    <3> QED
      BY <3>1, <3>2
  <2>2. CASE j = n + 1
    <3>1. m + 1 \in 1 .. Len(v) /\ g[j] = v[m + 1]
      BY <1>1, <1>2, <2>2
    <3> QED
      BY <3>1, Zenon DEF SameButEvent
  <2> QED
    BY <1>1, <2>1, <2>2
<1> QED
  BY <1>3 DEF FromLines, g, v

LEMMA InitLog ==
    Init => LogInv
<1> SUFFICES ASSUME Init PROVE LogInv
  OBVIOUS
<1>1. Log(<<>>) /\ Len(<<>>) = 0
  BY EmptyLog
<1>2. \A i \in 1 .. 0 : FALSE
  OBVIOUS
<1>3. Linked(<<>>) /\ HashAt(<<>>, 0) = Genesis /\ Closed(<<>>)
  BY <1>1, <1>2 DEF Linked, HashAt, Closed
<1> QED
  BY <1>1, <1>3 DEF Init, LogInv

\* A restart continues the chain of the file as far as it verifies.
LEMMA RestartLog ==
    ASSUME LogInv, Restart
    PROVE  LogInv'
<1> DEFINE b == FirstBad(file)
           cut == SubSeq(file, 1, b - 1)
<1>1. Log(file) /\ Len(file) \in Nat
  BY LenProperties DEF LogInv, Log
<1>2. /\ up' = TRUE /\ file' = file /\ flying' = flying /\ inbox' = inbox
      /\ edits' = edits /\ mishaps' = mishaps /\ rebuilt' = rebuilt
  BY DEF Restart, alerts, changes
<1>3. CASE Intact(file)
  <2>1. seq' = Len(file) /\ head' = HashAt(file, Len(file)) /\ tamper' = FALSE /\ wrote' = file
    BY <1>3 DEF Restart, Verify
  <2>2. Linked(file)
    BY <1>3, IntactLinked
  <2>3. FromLines(file, file)
    BY Zenon DEF FromLines, SameButEvent
  <2>4. Holds(file, file)
    BY Zenon DEF Holds
  <2> QED
    BY <1>1, <1>2, <1>3, <2>1, <2>2, <2>3, <2>4, Afterwards DEF LogInv
<1>4. CASE ~Intact(file)
  <2>1. /\ b \in 1 .. Len(file)
        /\ \A j \in 1 .. b - 1 : Good(file, j)
    BY <1>1, <1>4, FirstBadLine
  <2>2. /\ seq' = IF file[b].parsed THEN b ELSE b - 1
        /\ head' = HashAt(file, b - 1) /\ tamper' = TRUE /\ wrote' = cut
    BY <1>4 DEF Restart, Verify
  <2>3. /\ b - 1 \in Nat /\ 1 <= (b - 1) + 1 /\ b - 1 <= Len(file)
        /\ (b - 1) - 1 + 1 = b - 1 /\ 1 \in Nat /\ 1 <= 1
        /\ \A i \in 1 .. b - 1 : 1 + i - 1 = i /\ i - 1 \in 0 .. b - 1
    BY <1>1, <2>1
  <2> HIDE DEF b
  <2>4. /\ Log(cut) /\ Len(cut) = b - 1
        /\ \A i \in 1 .. b - 1 : cut[i] = file[i]
    BY <1>1, <2>3, LogSubSeq
  <2> HIDE DEF cut
  <2>5. \A i \in 0 .. b - 1 : HashAt(cut, i) = HashAt(file, i)
    BY <2>3, <2>4 DEF HashAt
  <2>6. Linked(cut)
    BY <2>1, <2>3, <2>4, <2>5 DEF Linked, Good
  <2>7. HashAt(cut, Len(cut)) = HashAt(file, b - 1)
    BY <2>3, <2>4, <2>5
  <2>8. seq' \in Nat
    BY <2>1, <2>2, <2>3
  <2> QED
    BY <1>1, <1>2, <1>4, <2>2, <2>4, <2>6, <2>7, <2>8, Afterwards DEF LogInv
<1> QED
  BY <1>3, <1>4

\* append() and record(): the chain in memory and the file grow together, and
\* the alert carries the head of that chain.
LEMMA AppendLog ==
    ASSUME LogInv, NEW event \in Events, DoAppend(event)
    PROVE  LogInv'
<1> DEFINE line == EntryLine(seq + 1, event, head)
           w    == Append(wrote, line)
<1>1. /\ up /\ up' = up /\ tamper' = tamper /\ inbox' = inbox
      /\ edits' = edits /\ mishaps' = mishaps /\ rebuilt' = rebuilt
      /\ file' = Written(file, line) /\ wrote' = w
      /\ seq' = seq + 1 /\ head' = line.hash
      /\ flying' = flying \cup {[head |-> line.hash, events |-> EventsOf(w)] : e \in {event} \cap Titled}
  BY DEF DoAppend, NextSeq, changes, Alerted
<1>2. LineOK(line)
  <2>1. seq + 1 \in Nat /\ event \in Events \cup {"none"}
    BY DEF LogInv
  <2> QED
    BY <2>1, WrittenLines, Zenon
<1>3. /\ line.open = FALSE /\ line.prev = head
      /\ line.hash = Hash(head, line.seq, line.event)
  BY DEF EntryLine
<1>4. seq = Len(wrote) => line = EntryLine(Len(wrote) + 1, event, HashAt(wrote, Len(wrote)))
  BY DEF LogInv
<1> HIDE DEF line
<1>5. Log(Written(file, line)) /\ Log(w)
  BY <1>2, WrittenCases, LogAppend DEF LogInv
<1>6. Linked(w) /\ HashAt(w, Len(w)) = line.hash
  BY <1>2, <1>3, LinkedAppend DEF LogInv
<1>7. mishaps = 0 => /\ Written(file, line) = Append(file, line)
                     /\ Closed(Written(file, line))
  BY <1>2, <1>3, ClosedAppend DEF LogInv
<1>8. ASSUME up, ~tamper, mishaps = 0, ~rebuilt
      PROVE  seq + 1 = Len(w) /\ Intact(w) /\ FromLines(Written(file, line), w)
  <2>1. seq = Len(wrote) /\ Intact(wrote) /\ FromLines(file, wrote) /\ Log(file) /\ Log(wrote)
    BY <1>8 DEF LogInv
  <2>2. Len(w) = Len(wrote) + 1
    BY <1>2, <2>1, LogAppend
  <2>3. Intact(w)
    BY <1>4, <2>1, IntactAppend
  <2>4. FromLines(Append(file, line), w)
    BY <1>2, <2>1, FromLinesAppend
  <2> QED
    BY <1>7, <1>8, <2>1, <2>2, <2>3, <2>4
<1>9. up /\ edits = 0 /\ Intact(Written(file, line)) => Holds(Written(file, line), w)
  BY <1>2, <1>3, HoldsAppend DEF LogInv
<1> HIDE DEF w
<1>10. ASSUME NEW a \in flying' \cup inbox'
       PROVE  Sourced(a)
  <2>1. CASE a \in flying \cup inbox
    BY <2>1 DEF LogInv
  <2>2. CASE a = [head |-> line.hash, events |-> EventsOf(w)]
    <3>1. a.head = HashAt(w, Len(w)) /\ a.events = EventsOf(w)
      BY <1>6, <2>2
    <3> QED
      BY <1>5, <1>6, <3>1 DEF Sourced
  <2> QED
    BY <1>1, <2>1, <2>2
<1>11. seq + 1 \in Nat
  BY DEF LogInv
<1> QED
  BY <1>1, <1>5, <1>6, <1>7, <1>8, <1>9, <1>10, <1>11, Afterwards DEF LogInv

\* A write that fails leaves the chain in memory as it was, or grows it by the
\* line of which only a part was written, whose alert is sent all the same.
LEMMA FailingLog ==
    ASSUME LogInv, NEW event \in Events, FailingAppend(event)
    PROVE  LogInv'
<1> DEFINE line == EntryLine(seq + 1, event, head)
           w    == Append(wrote, line)
           Part == {Scrap(TRUE), [line EXCEPT !.open = TRUE]}
<1>1. /\ up' = up /\ tamper' = tamper /\ inbox' = inbox
      /\ edits' = edits /\ mishaps' = mishaps + 1 /\ rebuilt' = rebuilt
      /\ seq' = seq + 1
  BY DEF FailingAppend, NextSeq
<1>2. \/ file' = file /\ head' = head /\ wrote' = wrote /\ flying' = flying
      \/ /\ file' = Written(file, line) /\ head' = head /\ wrote' = wrote
         /\ flying' = flying
      \/ /\ \E part \in Part : file' = Written(file, part)
         /\ head' = line.hash /\ wrote' = w
         /\ flying' \subseteq flying \cup {[head |-> line.hash, events |-> EventsOf(w)]}
  BY DEF FailingAppend, NextSeq, Alerted
<1>3. LineOK(line) /\ LineOK([line EXCEPT !.open = TRUE])
  <2>1. seq + 1 \in Nat /\ event \in Events \cup {"none"}
    BY DEF LogInv
  <2> QED
    BY <2>1, WrittenLines, Zenon
<1>4. /\ line.prev = head
      /\ line.hash = Hash(head, line.seq, line.event)
  BY DEF EntryLine
<1>5. ASSUME NEW part \in Part
      PROVE  /\ LineOK(part)
             /\ part.parsed => part.prev = head /\ part.hash = line.hash
  <2>1. CASE part = Scrap(TRUE)
    BY <2>1, ScrapLine DEF Scrap
  <2>2. CASE part = [line EXCEPT !.open = TRUE]
    <3>1. part.prev = line.prev /\ part.hash = line.hash
      BY <2>2 DEF EntryLine
    <3> QED
      BY <1>3, <1>4, <2>2, <3>1, Zenon
  <2> QED
    BY <2>1, <2>2
<1> HIDE DEF line, Part
<1>6. /\ seq + 1 \in Nat /\ mishaps + 1 \in Nat /\ mishaps + 1 # 0
      /\ Log(file) /\ Log(wrote) /\ head = HashAt(wrote, Len(wrote))
  BY DEF LogInv
<1>7. Log(w) /\ Linked(w) /\ HashAt(w, Len(w)) = line.hash
  <2>1. Linked(wrote) /\ line.hash = Hash(HashAt(wrote, Len(wrote)), line.seq, line.event)
    BY <1>4, <1>6 DEF LogInv
  <2> QED
    BY <1>3, <1>6, <2>1, LinkedAppend, LogAppend
<1>8. CASE file' = file /\ head' = head /\ wrote' = wrote /\ flying' = flying
  BY <1>1, <1>6, <1>8, Afterwards DEF LogInv
<1>9. CASE /\ file' = Written(file, line) /\ head' = head /\ wrote' = wrote
           /\ flying' = flying
  <2>1. Log(Written(file, line))
    BY <1>3, <1>6, WrittenCases
  <2>2. up /\ edits = 0 /\ Intact(Written(file, line)) => Holds(Written(file, line), wrote)
    BY <1>3, <1>4, HoldsAppend DEF LogInv
  <2> QED
    BY <1>1, <1>6, <1>9, <2>1, <2>2, Afterwards DEF LogInv
<1>10. ASSUME NEW part \in Part, file' = Written(file, part), head' = line.hash, wrote' = w,
              flying' \subseteq flying \cup {[head |-> line.hash, events |-> EventsOf(w)]}
       PROVE  LogInv'
  <2>1. Log(Written(file, part))
    BY <1>5, <1>6, WrittenCases
  <2>2. ASSUME up, edits = 0, Intact(Written(file, part))
        PROVE  Holds(Written(file, part), w)
    <3>1. part.parsed
      BY <1>5, <1>6, <2>2, WrittenIntact
    <3>2. Intact(file) => Holds(file, wrote)
      BY <2>2 DEF LogInv
    <3> QED
      BY <1>3, <1>5, <1>6, <2>2, <3>1, <3>2, HoldsAppend
  <2> HIDE DEF w
  <2>3. ASSUME NEW a \in flying' \cup inbox'
        PROVE  Sourced(a)
    <3>1. CASE a \in flying \cup inbox
      BY <3>1 DEF LogInv
    <3>2. CASE a = [head |-> line.hash, events |-> EventsOf(w)]
      <4>1. a.head = HashAt(w, Len(w)) /\ a.events = EventsOf(w)
        BY <1>7, <3>2
      <4> QED
        BY <1>7, <4>1 DEF Sourced
    <3> QED
      BY <1>1, <1>10, <3>1, <3>2
  <2> QED
    BY <1>1, <1>6, <1>7, <1>10, <2>1, <2>2, <2>3, Afterwards DEF LogInv
<1> QED
  BY <1>2, <1>8, <1>9, <1>10

\* A crash takes at most a whole line to the file.
LEMMA CrashLog ==
    ASSUME LogInv, Crash
    PROVE  LogInv'
<1>1. /\ up' = FALSE /\ flying' = {} /\ seq' = seq /\ head' = head /\ tamper' = tamper
      /\ wrote' = wrote /\ inbox' = inbox
      /\ edits' = edits /\ mishaps' = mishaps /\ rebuilt' = rebuilt
  BY DEF Crash, changes
<1>2. CASE file' = file
  BY <1>1, <1>2, Afterwards DEF LogInv
<1>3. ASSUME NEW event \in Events, file' = Written(file, EntryLine(seq + 1, event, head))
      PROVE  LogInv'
  <2> DEFINE line == EntryLine(seq + 1, event, head)
  <2>1. LineOK(line)
    <3>1. seq + 1 \in Nat /\ event \in Events \cup {"none"}
      BY DEF LogInv
    <3> QED
      BY <3>1, WrittenLines, Zenon
  <2>2. line.open = FALSE
    BY DEF EntryLine
  <2>3. file' = Written(file, line)
    BY <1>3
  <2> HIDE DEF line
  <2>4. Log(Written(file, line))
    BY <2>1, WrittenCases DEF LogInv
  <2>5. mishaps = 0 => Closed(Written(file, line))
    BY <2>1, <2>2, ClosedAppend DEF LogInv
  <2> QED
    BY <1>1, <2>3, <2>4, <2>5, Afterwards DEF LogInv
<1> QED
  BY <1>2, <1>3 DEF Crash, NextSeq

\* An edit that does not recompute the chain invents no line.
LEMMA TamperLog ==
    ASSUME LogInv, Tamper
    PROVE  LogInv'
<1>1. PICK how \in Edits : file' \in Edited(file, how) /\ rebuilt' = (rebuilt \/ how = "rewrite")
  BY DEF Tamper
<1>2. /\ edits' = edits + 1 /\ mishaps' = mishaps /\ up' = up /\ seq' = seq
      /\ head' = head /\ tamper' = tamper /\ wrote' = wrote
      /\ flying' = flying /\ inbox' = inbox
  BY DEF Tamper, memory, alerts
<1>3. /\ Log(file')
      /\ IF how = "rewrite" THEN Closed(file') ELSE FromLines(file', file)
  BY <1>1, EditedLines DEF LogInv, Closed
<1>4. how # "rewrite" /\ Closed(file) => Closed(file')
  BY <1>3 DEF FromLines, SameButEvent, Closed
<1>5. how # "rewrite" /\ FromLines(file, wrote) => FromLines(file', wrote)
  BY <1>3 DEF FromLines, SameButEvent
<1>6. /\ rebuilt' \in BOOLEAN
      /\ ~rebuilt' => ~rebuilt /\ how # "rewrite"
  BY <1>1
<1>7. edits + 1 \in Nat /\ edits + 1 # 0
  BY DEF LogInv
<1> QED
  BY <1>2, <1>3, <1>4, <1>5, <1>6, <1>7, Afterwards DEF LogInv

\* Alerts travel, and an orderly stop changes no file.
LEMMA QuietLog ==
    ASSUME LogInv, Shutdown \/ (\E a \in flying : Deliver(a)) \/ Stop \/ UNCHANGED vars
    PROVE  LogInv'
<1>1. /\ file' = file /\ wrote' = wrote /\ seq' = seq /\ head' = head /\ tamper' = tamper
      /\ edits' = edits /\ mishaps' = mishaps /\ rebuilt' = rebuilt
      /\ up' = FALSE \/ up' = up
  BY Zenon DEF Shutdown, Deliver, Stop, vars, memory, changes
<1>2. \A a \in flying' \cup inbox' : Sourced(a)
  <2>1. flying' \cup inbox' \subseteq flying \cup inbox
    BY DEF Shutdown, Deliver, Stop, vars, alerts
  <2> QED
    BY <2>1 DEF LogInv
<1>3. CASE up' = FALSE
  BY <1>1, <1>2, <1>3, Afterwards DEF LogInv
<1>4. CASE up' = up
  BY <1>1, <1>2, <1>4, Afterwards DEF LogInv
<1> QED
  BY <1>1, <1>3, <1>4

LEMMA NextLog ==
    LogInv /\ [Next]_vars => LogInv'
BY RestartLog, AppendLog, FailingLog, CrashLog, TamperLog, QuietLog, Zenon DEF Next

\* Every reachable log satisfies the invariant.
THEOREM LogInvariance ==
    Spec => []LogInv
<1> QED
  BY InitLog, NextLog, PTL DEF Spec

----------------------------------------------------------------------------
(* What the invariant shows. *)

LEMMA LogTypes ==
    LogInv => TypeOK
<1> SUFFICES ASSUME LogInv PROVE TypeOK
  OBVIOUS
<1> DEFINE P == {file[i].prev : i \in DOMAIN file}
           H == {file[i].hash : i \in DOMAIN file}
           R == [parsed: BOOLEAN, seq: Nat, event: Events \cup {"none"},
                 prev: P, hash: H, open: BOOLEAN]
<1>1. /\ file \in Seq(Lines(file)) /\ Len(file) \in Nat
      /\ file \in [1 .. Len(file) -> Lines(file)] /\ DOMAIN file = 1 .. Len(file)
  BY LenProperties DEF LogInv, Log
<1>2. ASSUME NEW i \in 1 .. Len(file)
      PROVE  file[i] \in R
  <2>1. LineOK(file[i])
    BY DEF LogInv, Log
  <2>2. file[i].prev \in P /\ file[i].hash \in H
    BY <1>1
  <2> DEFINE l == file[i]
  <2>3. l.prev \in P /\ l.hash \in H /\ LineOK(l)
    BY <2>1, <2>2
  <2> HIDE DEF P, H, l
  <2>4. l \in R
    BY <2>3, Zenon DEF LineOK
  <2> QED
    BY <2>4 DEF l
<1> HIDE DEF R
<1>3. file \in [1 .. Len(file) -> R]
  BY <1>1, <1>2
<1>4. file \in Seq(R)
  BY <1>1, <1>3, SeqDef
<1> QED
  BY <1>4 DEF TypeOK, LogInv, R

\* The file is a sequence of lines and the counters are numbers, whatever is
\* edited and whatever write fails.
THEOREM TypeCorrect ==
    Spec => []TypeOK
<1> QED
  BY LogInvariance, LogTypes, PTL

LEMMA LogContinues ==
    ASSUME LogInv, up, ~tamper, mishaps = 0, ~rebuilt, Verify(file).ok
    PROVE  IsPrefix(file, wrote)
<1> DEFINE m == Len(file)
           n == Len(wrote)
<1>1. /\ Log(file) /\ Log(wrote) /\ Intact(wrote) /\ FromLines(file, wrote)
      /\ m \in Nat /\ n \in Nat
  BY LenProperties DEF LogInv, Log
<1>2. Intact(file)
  BY DEF Verify
<1> HIDE DEF m, n
<1>3. ASSUME NEW i \in 1 .. m
      PROVE  i \in 1 .. n /\ file[i] = wrote[i]
  <2> DEFINE l == file[i]
             w == wrote[i]
  <2>1. PICK j \in 1 .. n : SameButEvent(l, wrote[j])
    BY <1>1 DEF FromLines, m, n
  <2>2. Good(file, i) /\ Good(wrote, j)
    BY <1>1, <1>2 DEF Intact, m, n
  <2>3. j = i
    BY <2>1, <2>2 DEF Good, SameButEvent
  <2>4. SameButEvent(l, w) /\ Good(wrote, i) /\ i \in 1 .. n
    BY <2>1, <2>2, <2>3
  <2>5. /\ l.hash = Hash(l.prev, l.seq, l.event)
        /\ w.hash = Hash(w.prev, w.seq, w.event)
    BY <2>2, <2>4 DEF Good
  <2>6. LineOK(l) /\ LineOK(w)
    BY <1>1, <2>4 DEF Log, m, n
  <2> HIDE DEF l, w
  <2>7. l.event = w.event
    <3>1. Hash(l.prev, l.seq, l.event) = Hash(w.prev, w.seq, w.event)
      BY <2>4, <2>5, Zenon DEF SameButEvent
    <3> QED
      BY <3>1, Hashes
  <2>8. l = w
    BY <2>4, <2>6, <2>7, Zenon DEF LineOK, SameButEvent
  <2> QED
    BY <2>4, <2>8 DEF l, w
<1>4. m <= n
  <2>1. CASE m = 0
    BY <1>1, <2>1
  <2>2. CASE m # 0
    <3>1. m \in 1 .. m
      BY <1>1, <2>2
    <3> QED
      BY <1>1, <1>3, <3>1
  <2> QED
    BY <2>1, <2>2
<1>5. SubSeq(file, 1, m) = SubSeq(wrote, 1, m)
  <2> DEFINE a == SubSeq(file, 1, m)
             b == SubSeq(wrote, 1, m)
  <2>1. /\ 1 \in Nat /\ 1 <= 1 /\ 1 <= m + 1 /\ m <= m /\ m - 1 + 1 = m
        /\ \A i \in 1 .. m : 1 + i - 1 = i
    BY <1>1
  <2>2. /\ Log(a) /\ Len(a) = m - 1 + 1
        /\ \A i \in 1 .. m - 1 + 1 : a[i] = file[1 + i - 1]
    BY <1>1, <2>1, LogSubSeq, Zenon DEF m
  <2>3. /\ Log(b) /\ Len(b) = m - 1 + 1
        /\ \A i \in 1 .. m - 1 + 1 : b[i] = wrote[1 + i - 1]
    BY <1>1, <1>4, <2>1, LogSubSeq, Zenon DEF n
  <2> HIDE DEF a, b
  <2>4. \A i \in 1 .. m : a[i] = b[i]
    BY <1>3, <2>1, <2>2, <2>3
  <2>5. /\ a \in Seq(Lines(a) \cup Lines(b)) /\ b \in Seq(Lines(a) \cup Lines(b))
        /\ Len(a) = m /\ Len(b) = m
    BY <2>1, <2>2, <2>3, SeqMonotonic DEF Log
  <2>6. a = b
    BY <2>4, <2>5, SeqEqual
  <2> QED
    BY <2>6 DEF a, b
<1> QED
  BY <1>4, <1>5 DEF IsPrefix, m, n

\* What the log said after each record, in every run: each line of the file that
\* can be read at all carries the head of a chain whose events the log once said.
Vouched(l, S) ==
    l.parsed => \E g : /\ Log(g) /\ Linked(g)
                       /\ l.hash = HashAt(g, Len(g)) /\ EventsOf(g) \in S

VouchInv ==
    /\ <<>> \in said
    /\ ~rebuilt => \A i \in 1 .. Len(file) : Vouched(file[i], said)

\* A record whose line is vouched for keeps a file that was.
LEMMA VouchedWritten ==
    ASSUME NEW f, Log(f), NEW l, LineOK(l), NEW S, NEW T, S \subseteq T,
           \A i \in 1 .. Len(f) : Vouched(f[i], S), Vouched(l, T)
    PROVE  \A i \in 1 .. Len(Written(f, l)) : Vouched(Written(f, l)[i], T)
<1> DEFINE L == Len(f)
           h == Written(f, l)
<1>1. L \in Nat
  BY LenProperties DEF Log
<1>2. \A i \in 1 .. L : Vouched(f[i], T)
  BY DEF Vouched
<1>3. CASE h = Append(f, l)
  <2>1. Len(h) = L + 1 /\ h[L + 1] = l /\ \A i \in 1 .. L : h[i] = f[i]
    BY <1>3, LogAppend
  <2> HIDE DEF h, L
  <2>2. \A i \in 1 .. Len(h) : i \in 1 .. L \/ i = L + 1
    BY <1>1, <2>1
  <2>3. \A i \in 1 .. Len(h) : Vouched(h[i], T)
    BY <1>2, <2>1, <2>2
  <2> QED
    BY <2>3 DEF h
<1>4. CASE L \in 1 .. L /\ h = [f EXCEPT ![L] = Scrap(l.open)]
  <2>1. LineOK(Scrap(l.open)) /\ Vouched(Scrap(l.open), T)
    BY ScrapLine DEF LineOK, Vouched, Scrap
  <2>2. /\ Len(h) = L
        /\ \A i \in 1 .. L : h[i] = IF i = L THEN Scrap(l.open) ELSE f[i]
    BY <1>4, <2>1, LogExcept
  <2> HIDE DEF h, L
  <2>3. \A i \in 1 .. Len(h) : Vouched(h[i], T)
    BY <1>2, <2>1, <2>2
  <2> QED
    BY <2>3 DEF h
<1> QED
  BY <1>3, <1>4, WrittenCases

\* The line append() makes is vouched for by the chain in memory and what the
\* log says with it, also when only a part of it gets to the file.
LEMMA VouchedLine ==
    ASSUME LogInv, NEW event \in Events, NEW T,
           NEW line, line = EntryLine(seq + 1, event, head),
           EventsOf(Append(wrote, line)) \in T
    PROVE  /\ LineOK(line) /\ Vouched(line, T)
           /\ LineOK([line EXCEPT !.open = TRUE]) /\ Vouched([line EXCEPT !.open = TRUE], T)
           /\ LineOK(Scrap(TRUE)) /\ Vouched(Scrap(TRUE), T)
<1> DEFINE w == Append(wrote, line)
           part == [line EXCEPT !.open = TRUE]
<1>1. LineOK(line) /\ LineOK(part)
  <2>1. seq + 1 \in Nat /\ event \in Events \cup {"none"}
    BY DEF LogInv
  <2> QED
    BY <2>1, WrittenLines, Zenon
<1>2. /\ line.hash = Hash(head, line.seq, line.event)
      /\ part.hash = line.hash
  BY DEF EntryLine
<1>3. Log(w) /\ Linked(w) /\ HashAt(w, Len(w)) = line.hash
  <2>1. /\ Log(wrote) /\ Linked(wrote)
        /\ line.hash = Hash(HashAt(wrote, Len(wrote)), line.seq, line.event)
    BY <1>2 DEF LogInv
  <2> QED
    BY <1>1, <2>1, LinkedAppend, LogAppend
<1>4. EventsOf(w) \in T
  OBVIOUS
<1> HIDE DEF w, part
<1>5. Vouched(line, T) /\ Vouched(part, T)
  BY <1>2, <1>3, <1>4, Zenon DEF Vouched
<1>6. LineOK(Scrap(TRUE)) /\ Vouched(Scrap(TRUE), T)
  BY ScrapLine DEF Vouched, Scrap
<1> QED
  BY <1>1, <1>5, <1>6 DEF part

LEMMA InitVouch ==
    Init => VouchInv
<1> SUFFICES ASSUME Init PROVE VouchInv
  OBVIOUS
<1>1. \A i \in 1 .. Len(file) : FALSE
  BY EmptyLog DEF Init
<1> QED
  BY <1>1 DEF Init, VouchInv

LEMMA NextVouch ==
    LogInv /\ VouchInv /\ [Next]_vars => VouchInv'
<1> SUFFICES ASSUME LogInv, VouchInv, [Next]_vars
             PROVE  VouchInv'
  OBVIOUS
<1>1. ASSUME said' = said, file' = file, rebuilt' = rebuilt
      PROVE  VouchInv'
  BY <1>1 DEF VouchInv, Vouched, Log, Lines, LineOK, Linked, HashAt, EventsOf, Hash
<1>2. ASSUME NEW event \in Events, NEW line, line = EntryLine(seq + 1, event, head),
             NEW part \in {line, [line EXCEPT !.open = TRUE], Scrap(TRUE)},
             file' = Written(file, part), said' = SaidWith(line), rebuilt' = rebuilt
      PROVE  VouchInv'
  <2>1. said \subseteq said' /\ EventsOf(Append(wrote, line)) \in said'
    BY <1>2 DEF SaidWith
  <2>2. LineOK(part) /\ Vouched(part, said')
    BY <1>2, <2>1, VouchedLine, Zenon
  <2>3. ~rebuilt => \A i \in 1 .. Len(file') : Vouched(file'[i], said')
    BY <1>2, <2>1, <2>2, VouchedWritten DEF VouchInv, LogInv
  <2> QED
    BY <1>2, <2>1, <2>3 DEF VouchInv, Vouched
<1>3. ASSUME NEW event \in Events, DoAppend(event) \/ FailingAppend(event)
      PROVE  VouchInv'
  BY <1>1, <1>2, <1>3, Zenon DEF DoAppend, FailingAppend, NextSeq, changes
<1>4. CASE Crash
  BY <1>1, <1>2, <1>4, Zenon DEF Crash, NextSeq, changes
<1>5. CASE Tamper
  <2>1. PICK how \in Edits : file' \in Edited(file, how) /\ rebuilt' = (rebuilt \/ how = "rewrite")
    BY <1>5 DEF Tamper
  <2>2. said' = said
    BY <1>5 DEF Tamper
  <2>3. how # "rewrite" => FromLines(file', file)
    BY <2>1, EditedLines DEF LogInv
  <2>4. ASSUME ~rebuilt', NEW j \in 1 .. Len(file')
        PROVE  Vouched(file'[j], said')
    <3>1. PICK i \in 1 .. Len(file) : SameButEvent(file'[j], file[i])
      BY <2>1, <2>3, <2>4 DEF FromLines
    <3>2. Vouched(file[i], said)
      BY <2>1, <2>4 DEF VouchInv
    <3> QED
      BY <2>2, <3>1, <3>2, Zenon DEF Vouched, SameButEvent
  <2> QED
    BY <2>2, <2>4 DEF VouchInv, Vouched
<1>6. ASSUME Restart \/ Shutdown \/ (\E a \in flying : Deliver(a)) \/ Stop \/ UNCHANGED vars
      PROVE  VouchInv'
  BY <1>1, <1>6, Zenon DEF Restart, Shutdown, Deliver, Stop, vars, changes
<1> QED
  BY <1>3, <1>4, <1>5, <1>6 DEF Next

LEMMA LogSays ==
    ASSUME LogInv, VouchInv, ~rebuilt, Verify(file).ok
    PROVE  EventsOf(file) \in said
<1> DEFINE n == Len(file)
<1>1. Intact(file) /\ Linked(file) /\ Log(file) /\ n \in Nat
  BY IntactLinked, LenProperties DEF Verify, LogInv, Log
<1>2. CASE n = 0
  <2>1. EventsOf(file) = <<>>
    BY <1>2 DEF EventsOf
  <2> QED
    BY <2>1 DEF VouchInv
<1>3. CASE n # 0
  <2>1. n \in 1 .. n
    BY <1>1, <1>3
  <2>2. file[n].parsed /\ HashAt(file, n) = file[n].hash
    BY <1>1, <1>3, <2>1 DEF Intact, Good, HashAt
  <2>3. PICK g : /\ Log(g) /\ Linked(g)
                 /\ file[n].hash = HashAt(g, Len(g)) /\ EventsOf(g) \in said
    BY <2>1, <2>2 DEF VouchInv, Vouched
  <2>4. EventsOf(file) = EventsOf(g)
    BY <1>1, <2>2, <2>3, SameChain
  <2> QED
    BY <2>3, <2>4
<1> QED
  BY <1>2, <1>3

\* Whatever line was edited, deleted or moved, in any number of edits, by somebody
\* who waits for the listener to be down or does not: unless the chain was
\* recomputed, what verifies is what the log said after some record.
THEOREM EditsShow ==
    Spec => []LocalEditsShow
<1>1. Spec => [](LogInv /\ VouchInv)
  BY InitLog, NextLog, InitVouch, NextVouch, PTL DEF Spec
<1>2. LogInv /\ VouchInv => LocalEditsShow
  BY LogContinues, LogSays DEF LocalEditsShow
<1> QED
  BY <1>1, <1>2, PTL

LEMMA LogPinned ==
    LogInv => AnchorPinsLog
<1> SUFFICES ASSUME LogInv, NEW a \in inbox, VerifyAnchored(file, a.head)
             PROVE  EventsOf(file) = a.events
  BY DEF AnchorPinsLog
<1>1. Intact(file) /\ HashAt(file, Len(file)) = a.head
  BY DEF VerifyAnchored, Verify
<1>2. Log(file) /\ Linked(file)
  BY <1>1, IntactLinked DEF LogInv
<1>3. PICK g : /\ Log(g) /\ Linked(g)
               /\ a.head = HashAt(g, Len(g)) /\ a.events = EventsOf(g)
  BY DEF LogInv, Sourced
<1> QED
  BY <1>1, <1>2, <1>3, SameChain

\* verify_file() with the head of any alert that arrived: equal heads mean equal
\* histories, for logs of every length.
THEOREM AnchorsPin ==
    Spec => []AnchorPinsLog
<1> QED
  BY LogInvariance, LogPinned, PTL

LEMMA LogKept ==
    LogInv => AppendedIsKept
<1> SUFFICES ASSUME LogInv, up, edits = 0, Verify(file).ok
             PROVE  /\ Len(wrote) <= Len(file)
                    /\ \A i \in 1 .. Len(wrote) : file[i].hash = wrote[i].hash
  BY DEF AppendedIsKept
<1>1. Intact(file)
  BY DEF Verify
<1>2. Holds(file, wrote) /\ Len(file) \in Nat /\ Len(wrote) \in Nat
  BY <1>1, LenProperties DEF LogInv, Log
<1> QED
  BY <1>2 DEF Holds

\* Refused, unsynced and short writes, with any restarts between them, lose no
\* record that append() returned from without the file failing to verify.
THEOREM RecordsAreKept ==
    Spec => []AppendedIsKept
<1> QED
  BY LogInvariance, LogKept, PTL

\* No step of the listener mends a broken log.
LEMMA StepKeepsBreak ==
    LogInv /\ [Next]_vars =>
      [edits' = edits /\ ~Verify(file).ok => ~Verify(file').ok]_vars
<1> SUFFICES ASSUME LogInv, Next, edits' = edits, Intact(file')
             PROVE  Intact(file)
  BY DEF Verify
<1>1. /\ Log(file) /\ edits + 1 # edits /\ seq + 1 \in Nat
      /\ \A e \in Events : e \in Events \cup {"none"}
  BY DEF LogInv
<1>2. CASE file' = file
  BY <1>2
<1>3. ASSUME NEW event \in Events, NEW line, file' = Written(file, line),
             line \in {EntryLine(seq + 1, event, head), Scrap(TRUE),
                       [EntryLine(seq + 1, event, head) EXCEPT !.open = TRUE]}
      PROVE  Intact(file)
  <2>1. /\ LineOK(EntryLine(seq + 1, event, head))
        /\ LineOK([EntryLine(seq + 1, event, head) EXCEPT !.open = TRUE])
    BY <1>1, WrittenLines, Zenon
  <2>2. LineOK(Scrap(TRUE))
    BY ScrapLine
  <2>3. LineOK(line)
    BY <1>3, <2>1, <2>2, Zenon
  <2> QED
    BY <1>1, <1>3, <2>3, WrittenIntact, Zenon
<1>4. ASSUME NEW event \in Events, DoAppend(event) \/ FailingAppend(event)
      PROVE  Intact(file)
  BY <1>2, <1>3, <1>4, Zenon DEF DoAppend, FailingAppend, NextSeq
<1>5. CASE Crash
  BY <1>2, <1>3, <1>5, Zenon DEF Crash, NextSeq
<1>6. CASE Tamper
  BY <1>1, <1>6 DEF Tamper
<1>7. CASE Restart \/ Shutdown \/ Stop \/ \E a \in flying : Deliver(a)
  BY <1>2, <1>7 DEF Restart, Shutdown, Stop, Deliver, vars
<1> QED
  BY <1>4, <1>5, <1>6, <1>7 DEF Next

\* Damage stays visible, however many records and restarts follow it.
THEOREM BreaksArePermanent ==
    Spec => BreakIsPermanent
<1> QED
  BY LogInvariance, StepKeepsBreak, PTL DEF Spec, BreakIsPermanent

=============================================================================
