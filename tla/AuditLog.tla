------------------------------ MODULE AuditLog ------------------------------
(***************************************************************************)
(* The hash-chained audit log (audit.py): AuditLog.append, verify_file and *)
(* the restart that verifies the file it finds; the alerts that carry its  *)
(* head off the laptop (record() in listener.py, notify.py); and what can  *)
(* happen to the file: failing and short writes, crashes, and edits by     *)
(* somebody else.  SHA-256 is ideal: the hash of an entry after a prefix   *)
(* is the pair of both, so equal hashes mean equal histories.              *)
(***************************************************************************)
EXTENDS Integers, Sequences, FiniteSets, SequencesExt

CONSTANTS
    Events,      \* what a record can say
    Titled,      \* the events record() is given a title for, and alerts about
    Mishaps,     \* subset of {"refused", "unsynced", "short"}: failing writes
    Edits,       \* subset of {"edit", "delete", "swap", "truncate", "rewrite"}
    MaxLines,    \* bound on the lines of the file
    MaxRecords,  \* bound on the different things the log ever says
    MaxChanges   \* bound on the edits and mishaps of a behaviour

ASSUME AuditAssumption ==
    /\ Titled \subseteq Events /\ MaxLines \in Nat
    /\ MaxRecords \in Nat /\ MaxChanges \in Nat
    /\ Edits \subseteq {"edit", "delete", "swap", "truncate", "rewrite"}

VARIABLES
    file,     \* the lines of audit.log
    up,       \* the listener is running
    seq,      \* AuditLog.seq
    head,     \* AuditLog.head
    tamper,   \* tamper_error is set
    wrote,    \* history: lines the chain in memory stands for, since a start
    said,     \* history: what the log said after any record, in any run
    flying,   \* alerts on their way: their head, and the events it stands for
    inbox,    \* alerts that have arrived off the laptop
    edits,    \* history: edits made by somebody else
    mishaps,  \* history: writes that failed
    rebuilt   \* history: an edit recomputed the chain

memory == <<up, seq, head, tamper, wrote>>
alerts == <<flying, inbox>>
changes == <<edits, mishaps, rebuilt>>
vars == <<file, memory, said, alerts, changes>>

Genesis == <<>>

\* _hash(prev, entry)
Hash(prev, n, event) == <<prev, n, event>>

\* The line append() writes; "open" lines lack their newline.
EntryLine(n, event, prev) ==
    [parsed |-> TRUE, seq |-> n, event |-> event, prev |-> prev,
     hash |-> Hash(prev, n, event), open |-> FALSE]

\* A line json.loads() rejects.
Scrap(open) ==
    [parsed |-> FALSE, seq |-> 0, event |-> "none", prev |-> Genesis,
     hash |-> Genesis, open |-> open]

\* Faulty variant of Written: an unterminated line is cut off first.
WrittenOver(f, line) ==
    IF f # <<>> /\ f[Len(f)].open
    THEN [f EXCEPT ![Len(f)] = line]
    ELSE Append(f, line)

\* O_APPEND: text written after an unterminated line becomes part of it.
Written(f, line) ==
    IF f # <<>> /\ f[Len(f)].open
    THEN [f EXCEPT ![Len(f)] = Scrap(line.open)]
    ELSE Append(f, line)

EventsOf(f) == [i \in 1 .. Len(f) |-> f[i].event]

----------------------------------------------------------------------------
(* verify_file *)

\* The hash of line i, the chain link of line i + 1.
HashAt(f, i) == IF i = 0 THEN Genesis ELSE f[i].hash

\* Faulty variant of Good: the stored hash is not recomputed.
GoodUnhashed(f, i) ==
    /\ f[i].parsed
    /\ f[i].seq = i
    /\ f[i].prev = HashAt(f, i - 1)

\* Faulty variant of Good: lines that are not JSON are passed over.
GoodSkippingScrap(f, i) ==
    \/ ~f[i].parsed
    \/ /\ f[i].seq = i
       /\ f[i].prev = HashAt(f, i - 1)
       /\ f[i].hash = Hash(f[i].prev, f[i].seq, f[i].event)

Good(f, i) ==
    /\ f[i].parsed
    /\ f[i].seq = i
    /\ f[i].prev = HashAt(f, i - 1)
    /\ f[i].hash = Hash(f[i].prev, f[i].seq, f[i].event)

FirstBad(f) ==
    CHOOSE i \in 1 .. Len(f) : ~Good(f, i) /\ \A j \in 1 .. i - 1 : Good(f, j)

Intact(f) == \A i \in 1 .. Len(f) : Good(f, i)

\* Faulty variant of Verify: the index of the last line for the number of lines.
VerifyIndexed(f) ==
    [ok |-> Intact(f), n |-> Len(f) - 1, head |-> HashAt(f, Len(f))]

\* What verify_file(path) returns.  The entry counter is advanced before an
\* entry is checked, so it includes a parsable bad entry.
Verify(f) ==
    IF Intact(f)
    THEN [ok |-> TRUE, n |-> Len(f), head |-> HashAt(f, Len(f))]
    ELSE LET b == FirstBad(f)
         IN [ok |-> FALSE, n |-> IF f[b].parsed THEN b ELSE b - 1,
             head |-> HashAt(f, b - 1)]

\* Faulty variant of VerifyAnchored: the anchor is compared with nothing.
VerifyUnanchored(f, expected) == Intact(f)

\* verify_file(path, expected_head)[0]
VerifyAnchored(f, expected) ==
    LET v == Verify(f) IN v.ok /\ v.head = expected

----------------------------------------------------------------------------
Init ==
    /\ file = <<>>
    /\ up = FALSE
    /\ seq = 0 /\ head = Genesis /\ tamper = FALSE
    /\ wrote = <<>> /\ said = {<<>>}
    /\ flying = {} /\ inbox = {}
    /\ edits = 0 /\ mishaps = 0 /\ rebuilt = FALSE

\* AuditLog.__init__: continue from what verify_file() returns.
Restart ==
    LET v == Verify(file)
    IN /\ ~up
       /\ up' = TRUE
       /\ seq' = v.n /\ head' = v.head /\ tamper' = ~v.ok
       /\ wrote' = IF v.ok THEN file ELSE SubSeq(file, 1, FirstBad(file) - 1)
       /\ UNCHANGED <<file, said, alerts, changes>>

\* Faulty variant of NextSeq: the number of the last record is used again.
NextSeqStuck == IF seq = 0 THEN 1 ELSE seq

NextSeq == seq + 1

\* The alerts under way after record(): an event with a title starts the task
\* that sends the new head.
Alerted(event, newHead, lines) ==
    flying \cup {[head |-> newHead, events |-> EventsOf(lines)] : e \in {event} \cap Titled}

\* What the log has said so far, when append() puts out one more line.
SaidWith(line) == said \cup {EventsOf(Append(wrote, line))}

\* The bounds on what is written.
Room == Len(file) < MaxLines /\ Cardinality(said) <= MaxRecords

\* append() succeeds, called by record().
DoAppend(event) ==
    LET line == EntryLine(NextSeq, event, head)
    IN /\ up /\ Room
       /\ file' = Written(file, line)
       /\ seq' = NextSeq
       /\ head' = line.hash
       /\ wrote' = Append(wrote, line)
       /\ said' = SaidWith(line)
       /\ flying' = Alerted(event, line.hash, wrote')
       /\ UNCHANGED <<up, tamper, inbox, changes>>

\* Notifier.send() runs on a thread of its own: alerts arrive in any order, and
\* one whose channels all fail, which is only logged, never does.
Deliver(a) ==
    /\ flying' = flying \ {a}
    /\ inbox' = inbox \cup {a}
    /\ UNCHANGED <<file, memory, said, changes>>

\* The listener stops in order.  The interpreter waits for the alerts whose
\* threads have started; the others are lost.
Shutdown ==
    /\ up
    /\ up' = FALSE
    /\ flying' = {}
    /\ \E started \in SUBSET flying : inbox' = inbox \cup started
    /\ UNCHANGED <<file, seq, head, tamper, wrote, said, changes>>

\* os.open() or os.write() raises, or os.fsync() does after the write: seq was
\* already advanced, head is not, and record() gets no further.  Or os.write()
\* writes only part of the line, with or without the closing brace, which
\* append() does not notice: it returns, and record() sends its alert.
FailingAppend(event) ==
    LET line == EntryLine(NextSeq, event, head)
    IN /\ up /\ Room
       /\ edits + mishaps < MaxChanges
       /\ mishaps' = mishaps + 1
       /\ seq' = NextSeq
       /\ \/ /\ "refused" \in Mishaps
             /\ UNCHANGED <<file, head, wrote, said, flying>>
          \/ /\ "unsynced" \in Mishaps
             /\ file' = Written(file, line)
             /\ said' = SaidWith(line)
             /\ UNCHANGED <<head, wrote, flying>>
          \/ /\ "short" \in Mishaps
             /\ \E part \in {Scrap(TRUE), [line EXCEPT !.open = TRUE]} :
                  file' = Written(file, part)
             /\ head' = line.hash
             /\ wrote' = Append(wrote, line)
             /\ said' = SaidWith(line)
             /\ flying' = Alerted(event, line.hash, wrote')
       /\ UNCHANGED <<up, tamper, inbox, edits, rebuilt>>

\* The process dies: between two appends, or inside one after its write.
Crash ==
    /\ up
    /\ up' = FALSE
    /\ flying' = {}
    /\ \/ UNCHANGED <<file, said>>
       \/ /\ Room
          /\ \E event \in Events :
               LET line == EntryLine(NextSeq, event, head)
               IN file' = Written(file, line) /\ said' = SaidWith(line)
    /\ UNCHANGED <<seq, head, tamper, wrote, inbox, changes>>

----------------------------------------------------------------------------
(* Edits by somebody else *)

\* A file with the given events and a chain recomputed from the start.
Rechained(events) ==
    LET chain[i \in 0 .. Len(events)] ==
          IF i = 0 THEN Genesis ELSE Hash(chain[i - 1], i, events[i])
    IN [i \in 1 .. Len(events) |-> EntryLine(i, events[i], chain[i - 1])]

\* Files one edit away from f, by kind of edit.
Edited(f, how) ==
    LET n == Len(f)
    IN CASE how = "edit"     -> {[f EXCEPT ![i].event = e] : i \in 1 .. n, e \in Events}
         [] how = "delete"   -> {RemoveAt(f, i) : i \in 1 .. n - 1}
         [] how = "swap"     -> {[f EXCEPT ![i] = f[i + 1], ![i + 1] = f[i]] : i \in 1 .. n - 1}
         [] how = "truncate" -> {SubSeq(f, 1, i) : i \in 0 .. n - 1}
         [] how = "rewrite"  -> {Rechained([EventsOf(f) EXCEPT ![i] = e]) : i \in 1 .. n, e \in Events}

Tamper ==
    /\ edits + mishaps < MaxChanges
    /\ \E how \in Edits :
         /\ file' \in Edited(file, how) \ {file}
         /\ rebuilt' = (rebuilt \/ how = "rewrite")
    /\ edits' = edits + 1
    /\ UNCHANGED <<memory, said, alerts, mishaps>>

\* The bounds are reached.
Stop ==
    /\ ~Room
    /\ UNCHANGED vars

Next ==
    \/ Restart \/ Shutdown \/ Crash \/ Tamper \/ Stop
    \/ \E event \in Events : DoAppend(event) \/ FailingAppend(event)
    \/ \E a \in flying : Deliver(a)

Spec == Init /\ [][Next]_vars

----------------------------------------------------------------------------
\* Type correctness of the file and of the chain in memory.
TypeOK ==
    /\ file \in Seq([parsed: BOOLEAN, seq: Nat, event: Events \cup {"none"},
                     prev: {file[i].prev : i \in DOMAIN file},
                     hash: {file[i].hash : i \in DOMAIN file}, open: BOOLEAN])
    /\ up \in BOOLEAN /\ tamper \in BOOLEAN /\ rebuilt \in BOOLEAN
    /\ seq \in Nat /\ edits \in Nat /\ mishaps \in Nat

Untouched == edits = 0 /\ mishaps = 0

\* A log that nobody edited and whose writes all succeeded verifies, as far as
\* the running listener has got, and no restart ever reports tampering, even
\* after a crash in the middle of an append.
HonestLogVerifies ==
    Untouched =>
        /\ Intact(file)
        /\ ~tamper
        /\ up => seq = Len(file) /\ head = HashAt(file, Len(file))

\* "Editing, deleting or reordering any line" shows, whether the listener is up,
\* down or restarted in between: unless the chain was recomputed, a file that
\* verifies says, event for event, what the log said after some record, so that
\* edits can at most bring back an earlier log (a truncation, which only an
\* anchor shows, and whatever is recorded after it).  While the listener runs,
\* what verifies is moreover a beginning of the chain it has in memory.
LocalEditsShow ==
    ~rebuilt /\ Verify(file).ok =>
        /\ EventsOf(file) \in said
        /\ up /\ ~tamper /\ mishaps = 0 => IsPrefix(file, wrote)

\* With an off-box anchor, truncation and rewriting show too: a file that
\* verifies against the head of an alert that arrived, however late and whatever
\* other alerts were lost, says event for event what the log said that alert was
\* sent for; also when that record was one os.write() cut short.
AnchorPinsLog ==
    \A a \in inbox : VerifyAnchored(file, a.head) => EventsOf(file) = a.events

\* Damage stays visible: once a log fails to verify, nothing the listener does,
\* no record and no restart that continues the chain, makes it verify again.
BreakIsPermanent ==
    [][edits' = edits /\ ~Verify(file).ok => ~Verify(file').ok]_vars

\* Failing and short writes never lose a record silently: in a file that
\* verifies, every record append() returned from is in its place.
AppendedIsKept ==
    up /\ edits = 0 /\ Verify(file).ok =>
        /\ Len(wrote) <= Len(file)
        /\ \A i \in 1 .. Len(wrote) : file[i].hash = wrote[i].hash

\* What "TAMPER DETECTED" claims: a file nobody edited never fails to verify.
UneditedLogVerifies == edits = 0 => Verify(file).ok
=============================================================================
