--------------------------- MODULE JournalShapes ----------------------------
(***************************************************************************)
(* Shapes of the journal's inputs and records, type correctness, what an   *)
(* accepted correction says of the logs it touches, and that each command  *)
(* keeps stream, lifecycle states, reference lists and record ids          *)
(* consistent with each other.                                             *)
(***************************************************************************)
EXTENDS EventJournal, FiniteSetTheorems, TLAPS

-----------------------------------------------------------------------------
(* Shapes of the inputs and of the computed records.                       *)

(* A correction consists of two parent-linked branches above its ancestor, *)
(* the ordered logs of the new one and a finality not above the ancestor   *)
(* (ForkResolver, validate_finality, ReorgCorrection::new).                *)
LEMMA CorrectionShape ==
    ASSUME NEW c \in Correction
    PROVE  /\ c.reorg \in ReorgId
           /\ c.finalized \in Block
           /\ c.reorg.old \in BranchesFrom(c.reorg.ancestor)
           /\ c.reorg.new \in BranchesFrom(c.reorg.ancestor)
           /\ c.reorg.logs \in ReplacementLogs(c.reorg.new)
           /\ c.finalized = c.reorg.ancestor
                \/ Number[c.finalized] < Number[c.reorg.ancestor]
  <1>1. PICK a \in Block : c \in CorrectionsAbove(a)
    BY Zenon DEF Correction
  <1>2. PICK new \in BranchesFrom(a), old \in BranchesFrom(a), context \in Context,
             logs \in LogSeq, f \in Block :
          /\ logs \in ReplacementLogs(new)
          /\ c = [reorg |-> [ancestor |-> a, old |-> old, new |-> new,
                             context |-> context, logs |-> logs],
                  finalized |-> f]
          /\ f = a \/ Number[f] < Number[a]
    BY <1>1 DEF CorrectionsAbove, ReplacementLogs
  <1>3. old \in Branch /\ new \in Branch
    BY Zenon DEF BranchesFrom
  <1>5. c.reorg \in ReorgId
    BY Zenon, <1>2, <1>3 DEF ReorgId
  <1> QED
    BY Zenon, <1>2, <1>5

(* Bounded sequences are sequences.                                        *)
LEMMA BoundedSequence ==
    ASSUME NEW S, NEW N \in Int, NEW s \in UNION {[1..n -> S] : n \in 0..N}
    PROVE  /\ s \in Seq(S)
           /\ Len(s) \in 0..N
           /\ DOMAIN s = 1..Len(s)
           /\ \A i \in 1..Len(s) : s[i] \in S
  <1>1. PICK n \in 0..N : s \in [1..n -> S]
    BY Zenon
  <1> QED
    BY <1>1

(* The tip of a branch is a block.                                         *)
LEMMA TipIsBlock ==
    ASSUME NEW a \in Block, NEW s \in Branch
    PROVE  TipOf(a, s) \in Block
  <1>1. /\ s \in Seq(Block)
        /\ Len(s) \in Nat
        /\ \A i \in 1..Len(s) : s[i] \in Block
    BY BoundedSequence, BoundAssumption DEF Branch
  <1>2. s # <<>> => Len(s) \in 1..Len(s)
    BY <1>1
  <1> QED
    BY Zenon, <1>1, <1>2 DEF TipOf

(* The references a correction reverts: a duplicate-free listing within    *)
(* the event budget (materialize_old_logs, validate_total_event_count).    *)
LEMMA OldLogsShape ==
    ASSUME TypeOK, NEW c \in Correction, NEW olds \in OldLogs(c)
    PROVE  /\ olds \in Seq(Reference)
           /\ Len(olds) \in Nat
           /\ DOMAIN olds = 1..Len(olds)
           /\ \A i \in 1..Len(olds) : olds[i] \in OldReferences(c) /\ olds[i] \in Reference
           /\ RangeOf(olds) = OldReferences(c)
           /\ \A i, j \in 1..Len(olds) : i < j => RevertedBefore(olds[i], olds[j])
           /\ c.reorg.logs \in Seq(Log)
           /\ Len(c.reorg.logs) \in Nat
           /\ DOMAIN c.reorg.logs = 1..Len(c.reorg.logs)
           /\ \A i \in 1..Len(c.reorg.logs) : c.reorg.logs[i] \in Log
           /\ Len(olds) + Len(c.reorg.logs) + 2 <= MaxEvents
  <1>1. /\ c.reorg.logs \in Seq(Log)
        /\ Len(c.reorg.logs) \in Nat
        /\ DOMAIN c.reorg.logs = 1..Len(c.reorg.logs)
        /\ \A i \in 1..Len(c.reorg.logs) : c.reorg.logs[i] \in Log
    BY SMTT(30), CorrectionShape, BoundedSequence, BoundAssumption DEF ReplacementLogs, LogSeq
  <1>2. OldEventBudget(c) \in Int
    BY <1>1, BoundAssumption DEF OldEventBudget
  <1>3. /\ olds \in Seq(OldReferences(c))
        /\ Len(olds) \in 0..OldEventBudget(c)
        /\ DOMAIN olds = 1..Len(olds)
        /\ \A i \in 1..Len(olds) : olds[i] \in OldReferences(c)
    BY Zenon, <1>2, BoundedSequence DEF OldLogs
  <1>4. RangeOf(c.reorg.old) \subseteq Block
    BY CorrectionShape, BoundedSequence, BoundAssumption DEF BranchesFrom, Branch, RangeOf
  <1>5. OldReferences(c) \subseteq Reference
    BY Zenon, <1>4 DEF OldReferences, TypeOK
  <1> QED
    BY SMTT(30), <1>1, <1>2, <1>3, <1>5, BoundAssumption DEF OldLogs, OldEventBudget

(* A function on 1..k with values in S is a sequence of length k.          *)
LEMMA FunctionIsSequence ==
    ASSUME NEW S, NEW k \in Nat, NEW f \in [1..k -> S]
    PROVE  f \in Seq(S) /\ Len(f) = k
  OBVIOUS

(* Transition entries and control entries are stream records.              *)
LEMMA LogRecordType ==
    ASSUME NEW op \in LogOp, NEW l \in Log, NEW revision \in Nat, NEW id \in RecordId
    PROVE  LogRecord(op, l, revision, id) \in Record
  BY Zenon DEF LogRecord, Record

(* The fields of a log entry, so that leaves need not expand the record.   *)
LEMMA LogRecordFields ==
    ASSUME NEW op, NEW l, NEW revision, NEW id
    PROVE  /\ LogRecord(op, l, revision, id).op = op
           /\ LogRecord(op, l, revision, id).log = l
           /\ LogRecord(op, l, revision, id).revision = revision
           /\ LogRecord(op, l, revision, id).id = id
  BY Zenon DEF LogRecord

(* The fields of a control entry.                                          *)
LEMMA ControlRecordFields ==
    ASSUME NEW op, NEW r, NEW n, NEW k
    PROVE  /\ ControlRecord(op, r, n, k).op = op
           /\ ControlRecord(op, r, n, k).log = None
           /\ ControlRecord(op, r, n, k).revision = 0
           /\ ControlRecord(op, r, n, k).id = ControlRecordId(op, r)
           /\ ControlRecord(op, r, n, k).reverted = n
           /\ ControlRecord(op, r, n, k).applied = k
  BY Zenon DEF ControlRecord

(* The three digests of the code are record ids.                           *)
LEMMA RecordIdType ==
    ASSUME NEW l \in Log, NEW r \in ReorgId
    PROVE  /\ OriginRecordId(l) \in RecordId
           /\ \A op \in LogOp : LifecycleRecordId(l, op, r) \in RecordId
           /\ \A op \in ControlOp : ControlRecordId(op, r) \in RecordId
  BY Zenon DEF OriginRecordId, LifecycleRecordId, ControlRecordId, RecordId

(* A begin or commit entry is a record of the stream.                      *)
LEMMA ControlRecordType ==
    ASSUME NEW op \in ControlOp, NEW r \in ReorgId, NEW n \in Nat, NEW k \in Nat
    PROVE  ControlRecord(op, r, n, k) \in Record
  BY Zenon DEF ControlRecord, ControlRecordId, Record, RecordId

(* The entries of a correction, by position.                               *)
LEMMA RecordsShape ==
    ASSUME TypeOK, NEW c \in Correction, NEW olds \in OldLogs(c)
    PROVE  LET R == CorrectionRecords(c, olds)
               n == Len(olds)
               m == Len(c.reorg.logs)
           IN  /\ n \in Nat /\ m \in Nat
               /\ R \in Seq(Record)
               /\ Len(R) = n + m + 2
               /\ DOMAIN R = 1..(n + m + 2)
               /\ R[1] = ControlRecord("correction_begin", c.reorg, n, m)
               /\ \A i \in 2..(n + 1) :
                    /\ olds[i - 1].log \in Log
                    /\ R[i] = LogRecord("reverted", olds[i - 1].log,
                                        NextRevision(olds[i - 1].log),
                                        RevertedRecordId(c, olds[i - 1].log))
               /\ \A i \in (n + 2)..(n + m + 1) :
                    /\ c.reorg.logs[i - n - 1] \in Log
                    /\ R[i] = LogRecord("applied", c.reorg.logs[i - n - 1],
                                        NextRevision(c.reorg.logs[i - n - 1]),
                                        AppliedRecordId(c, c.reorg.logs[i - n - 1]))
               /\ R[n + m + 2] = ControlRecord("correction_commit", c.reorg, n, m)
  <1> DEFINE R == CorrectionRecords(c, olds)
             n == Len(olds)
             m == Len(c.reorg.logs)
             Reverted(l) == LogRecord("reverted", l, NextRevision(l), RevertedRecordId(c, l))
             Applied(l) == LogRecord("applied", l, NextRevision(l), AppliedRecordId(c, l))
  <1>1. n \in Nat /\ m \in Nat
    BY Zenon, OldLogsShape
  <1>2. DOMAIN R = 1..(n + m + 2)
    BY Zenon, <1>1 DEF CorrectionRecords
  <1>3. R[1] = ControlRecord("correction_begin", c.reorg, n, m)
    BY <1>1 DEF CorrectionRecords
  <1>4. ASSUME NEW i \in 2..(n + 1)
        PROVE  olds[i - 1].log \in Log /\ R[i] = Reverted(olds[i - 1].log)
    <2>1. i \in 1..(n + m + 2) /\ i # 1 /\ i <= n + 1 /\ i - 1 \in 1..n
      BY <1>1
    <2>2. olds[i - 1] \in Reference
      BY Zenon, <2>1, OldLogsShape
    <2> QED
      BY Zenon, <2>1, <2>2 DEF CorrectionRecords, Reference
  <1>5. ASSUME NEW i \in (n + 2)..(n + m + 1)
        PROVE  c.reorg.logs[i - n - 1] \in Log /\ R[i] = Applied(c.reorg.logs[i - n - 1])
    <2>1. i \in 1..(n + m + 2) /\ i # 1 /\ ~(i <= n + 1) /\ i <= n + m + 1
          /\ i - n - 1 \in 1..m
      BY <1>1
    <2>2. c.reorg.logs[i - n - 1] \in Log
      BY Zenon, <2>1, OldLogsShape
    <2> QED
      BY Zenon, <2>1, <2>2 DEF CorrectionRecords
  <1>6. R[n + m + 2] = ControlRecord("correction_commit", c.reorg, n, m)
    BY <1>1 DEF CorrectionRecords
  <1>7. c.reorg \in ReorgId
    BY Zenon, CorrectionShape
  <1>8. ASSUME NEW l \in Log PROVE Reverted(l) \in Record /\ Applied(l) \in Record
    <2>1. NextRevision(l) \in Nat
      BY DEF NextRevision, TypeOK, LogState
    <2>2. "reverted" \in LogOp /\ "applied" \in LogOp
      BY Zenon DEF LogOp
    <2>3. RevertedRecordId(c, l) \in RecordId /\ AppliedRecordId(c, l) \in RecordId
      BY Zenon, <1>7, <2>2, RecordIdType DEF RevertedRecordId, AppliedRecordId
    <2> QED
      BY Zenon, <2>1, <2>2, <2>3, LogRecordType
  <1>9. ASSUME NEW i \in 1..(n + m + 2)
        PROVE  R[i] \in Record
    <2>1. CASE i = 1
      BY Zenon, <2>1, <1>1, <1>3, <1>7, ControlRecordType DEF ControlOp
    <2>2. CASE i \in 2..(n + 1)
      BY Zenon, <2>2, <1>4, <1>8
    <2>3. CASE i \in (n + 2)..(n + m + 1)
      BY Zenon, <2>3, <1>5, <1>8
    <2>4. CASE i = n + m + 2
      BY Zenon, <2>4, <1>1, <1>6, <1>7, ControlRecordType DEF ControlOp
    <2> QED
      BY <1>1, <2>1, <2>2, <2>3, <2>4
  <1>10. R = [i \in 1..(n + m + 2) |-> R[i]]
    BY Zenon, <1>1 DEF CorrectionRecords
  <1>11. R \in [1..(n + m + 2) -> Record]
    BY Zenon, <1>9, <1>10
  <1>12. n + m + 2 \in Nat
    BY <1>1
  <1>13. R \in Seq(Record) /\ Len(R) = n + m + 2
    BY Zenon, <1>11, <1>12, FunctionIsSequence
  <1> QED
    BY Zenon, <1>1, <1>2, <1>3, <1>4, <1>5, <1>6, <1>13

(* The logs a correction touches have an entry of their own in it.         *)
LEMMA EntryOffsetExists ==
    ASSUME TypeOK, NEW c \in Correction, NEW olds \in OldLogs(c),
           NEW l \in {r.log : r \in RangeOf(olds)} \cup RangeOf(c.reorg.logs)
    PROVE  /\ EntryOffset(c, olds, l) \in 2..(Len(olds) + Len(c.reorg.logs) + 1)
           /\ CorrectionRecords(c, olds)[EntryOffset(c, olds, l)].log = l
           /\ l \in Log
  <1> DEFINE R == CorrectionRecords(c, olds)
             n == Len(olds)
             m == Len(c.reorg.logs)
  <1>1. n \in Nat /\ m \in Nat /\ DOMAIN olds = 1..n /\ DOMAIN c.reorg.logs = 1..m
    BY Zenon, OldLogsShape
  <1>2. /\ \A i \in 2..(n + 1) : olds[i - 1].log \in Log /\ R[i].log = olds[i - 1].log
        /\ \A i \in (n + 2)..(n + m + 1) :
              c.reorg.logs[i - n - 1] \in Log /\ R[i].log = c.reorg.logs[i - n - 1]
    <2>1. /\ \A i \in 2..(n + 1) :
                /\ olds[i - 1].log \in Log
                /\ R[i] = LogRecord("reverted", olds[i - 1].log,
                                    NextRevision(olds[i - 1].log),
                                    RevertedRecordId(c, olds[i - 1].log))
          /\ \A i \in (n + 2)..(n + m + 1) :
                /\ c.reorg.logs[i - n - 1] \in Log
                /\ R[i] = LogRecord("applied", c.reorg.logs[i - n - 1],
                                    NextRevision(c.reorg.logs[i - n - 1]),
                                    AppliedRecordId(c, c.reorg.logs[i - n - 1]))
      BY Zenon, RecordsShape
    <2> HIDE DEF R, n, m
    <2> QED
      BY <2>1, LogRecordFields
  <1>3. \E i \in 2..(n + m + 1) : R[i].log = l /\ l \in Log
    <2>1. CASE l \in {r.log : r \in RangeOf(olds)}
      <3>1. PICK k \in 1..n : olds[k].log = l
        BY Zenon, <1>1, <2>1 DEF RangeOf
      <3>2. k + 1 \in 2..(n + 1) /\ k + 1 \in 2..(n + m + 1) /\ (k + 1) - 1 = k
        BY <1>1
      <3> QED
        BY Zenon, <3>1, <3>2, <1>2
    <2>2. CASE l \in RangeOf(c.reorg.logs)
      <3>1. PICK k \in 1..m : c.reorg.logs[k] = l
        BY Zenon, <1>1, <2>2 DEF RangeOf
      <3>2. /\ k + n + 1 \in (n + 2)..(n + m + 1)
            /\ k + n + 1 \in 2..(n + m + 1)
            /\ (k + n + 1) - n - 1 = k
        BY <1>1
      <3> QED
        BY Zenon, <3>1, <3>2, <1>2
    <2> QED
      BY Zenon, <2>1, <2>2
  <1>4. EntryOffset(c, olds, l) = CHOOSE i \in 2..(n + m + 1) : R[i].log = l
    BY Zenon DEF EntryOffset
  <1> QED
    BY Zenon, <1>3, <1>4

(* The blocks of a branch form a finite set of blocks.                     *)
LEMMA BranchBlocks ==
    ASSUME NEW s \in Branch
    PROVE  RangeOf(s) \subseteq Block /\ IsFiniteSet(RangeOf(s))
  <1>1. PICK n \in 0..MaxDepth : s \in [1..n -> Block]
    BY Zenon DEF Branch
  <1>2. n \in Nat /\ IsFiniteSet(1..n)
    BY FS_Interval, BoundAssumption
  <1>3. s \in Surjection(1..n, RangeOf(s))
    BY Zenon, <1>1 DEF Surjection, RangeOf
  <1> QED
    BY Zenon, <1>1, <1>2, <1>3, FS_Surjection DEF RangeOf

(* Reading a concatenation by position.                                    *)
LEMMA Concatenation ==
    ASSUME NEW S, NEW s \in Seq(S), NEW t \in Seq(S)
    PROVE  /\ s \o t \in Seq(S)
           /\ Len(s \o t) = Len(s) + Len(t)
           /\ DOMAIN (s \o t) = 1..(Len(s) + Len(t))
           /\ \A i \in 1..Len(s) : (s \o t)[i] = s[i]
           /\ \A i \in 1..Len(t) : (s \o t)[Len(s) + i] = t[i]
  OBVIOUS

-----------------------------------------------------------------------------
(* Type correctness.                                                       *)

(* Journaling a header keeps every value well formed.                      *)
LEMMA AppendHeadType ==
    ASSUME TypeOK, NEW b \in Block, NEW context \in Context, NEW f \in BOOLEAN,
           AppendHead(b, context, f)
    PROVE  TypeOK'
  <1>1. Number[b] \in Height
    BY Zenon, BlockAssumption
  <1>2. Decimal(Number[b]) \in HeightField
    BY Zenon, <1>1 DEF Decimal, HeightField
  <1> QED
    BY <1>2 DEF TypeOK, AppendHead

(* Appending a log keeps every value well formed.                          *)
LEMMA AppendLogType ==
    ASSUME TypeOK, NEW l \in Log, AppendLog(l)
    PROVE  TypeOK'
  <1> DEFINE id == OriginRecordId(l)
             revision == NextRevision(l)
             entry == Len(stream) + 1
  <1>1. id \in RecordId /\ revision \in Nat /\ entry \in Nat /\ BlockOf[l] \in Block
    BY LogAssumption DEF TypeOK, LogState, OriginRecordId, RecordId, NextRevision
  <1>2. LogRecord("applied", l, revision, id) \in Record
    BY Zenon, <1>1, LogRecordType DEF LogOp
  <1>3. stream' \in Seq(Record)
    BY <1>2 DEF TypeOK, AppendLog
  <1>4. cursor' \in Cursor \cup {None}
    <2>1. Index[l] \in 0..MaxIndex
      BY LogAssumption
    <2>2. LogCursor(l) \in Cursor
      BY Zenon, <1>1, <2>1 DEF LogCursor, Cursor
    <2>3. cursor' = LogCursor(l) \/ cursor' = cursor
      BY Zenon DEF AppendLog, AdvanceCursor
    <2> QED
      BY Zenon, <2>2, <2>3 DEF TypeOK
  <1>5. log_state' \in [Log -> LogState]
    BY Zenon, <1>1 DEF TypeOK, AppendLog, LogState
  <1>6. block_logs' \in [Block -> SUBSET Reference]
    <2>1. [log |-> l, id |-> id, entry |-> entry] \in Reference
      BY Zenon, <1>1 DEF Reference
    <2> QED
      BY Zenon, <1>1, <2>1 DEF TypeOK, AppendLog
  <1>7. record_ids' \subseteq RecordId
    BY Zenon, <1>1 DEF TypeOK, AppendLog
  <1>8. journal_usage' \in [headers : Int, logReferences : Int]
    BY DEF TypeOK, AppendLog
  <1> QED
    BY Zenon, <1>3, <1>4, <1>5, <1>6, <1>7, <1>8 DEF TypeOK, AppendLog

(* What correction.lua has established when it writes, and what it writes  *)
(* to the stream, the id set and the log records.                          *)
LEMMA CorrectionWrites ==
    ASSUME NEW c, NEW olds, CommitCorrection(c, olds)
    PROVE  /\ CorrectionError(c, olds) = "none"
           /\ stream' = stream \o CorrectionRecords(c, olds)
           /\ record_ids' = record_ids \cup {CorrectionRecords(c, olds)[i].id :
                                              i \in DOMAIN CorrectionRecords(c, olds)}
           /\ log_state' = [l \in Log |-> IF l \in TouchedLogs(c, olds)
                                          THEN StoredState(c, olds, l) ELSE log_state[l]]
  BY Zenon DEF CommitCorrection

(* What it writes to the reference lists, the headers, the heights and the *)
(* heads.                                                                  *)
LEMMA CorrectionMoves ==
    ASSUME NEW c, NEW olds, CommitCorrection(c, olds)
    PROVE  /\ block_logs' = [b \in Block |->
                 RetainedReferences(c, b)
                 \cup {StoredReference(c, olds, l) :
                         l \in {k \in RangeOf(c.reorg.logs) : BlockOf[k] = b}}]
           /\ headers' = [b \in Block |-> IF b \in RangeOf(c.reorg.new)
                                           THEN c.reorg.context ELSE headers[b]]
           /\ canonical_height' = [f \in HeightField |->
                 IF \E b \in RangeOf(c.reorg.new) : f = Decimal(Number[b])
                 THEN CHOOSE b \in RangeOf(c.reorg.new) : f = Decimal(Number[b])
                 ELSE IF \E b \in RangeOf(c.reorg.old) : f = Decimal(Number[b])
                 THEN None ELSE canonical_height[f]]
           /\ canonical_head' = NewTip(c)
           /\ cursor' = RecoveryCursor(c)
           /\ finalized_head' = finalized_head
  BY Zenon DEF CommitCorrection

(* The record written for a log has its next revision, and is active when  *)
(* the log is one of the replacement branch.                               *)
LEMMA StoredStateFields ==
    ASSUME NEW c, NEW olds, NEW l
    PROVE  /\ StoredState(c, olds, l).active = (l \in RangeOf(c.reorg.logs))
           /\ StoredState(c, olds, l).revision = NextRevision(l)
  <1> DEFINE state == StoredState(c, olds, l)
             applied == l \in RangeOf(c.reorg.logs)
             id == CorrectionRecords(c, olds)[EntryOffset(c, olds, l)].id
             entry == Len(stream) + EntryOffset(c, olds, l)
  <1>1. state = [active |-> applied, revision |-> NextRevision(l), id |-> id, entry |-> entry]
    BY Zenon DEF StoredState
  <1> HIDE DEF state, applied, id, entry
  <1>2. state.active = applied /\ state.revision = NextRevision(l)
    BY Zenon, <1>1
  <1> QED
    BY Zenon, <1>2 DEF state, applied

(* The entries of a correction follow those already in the stream.         *)
LEMMA CorrectionExtendsStream ==
    ASSUME TypeOK, NEW c \in Correction, NEW olds \in OldLogs(c), CommitCorrection(c, olds)
    PROVE  LET N == Len(stream)
               R == CorrectionRecords(c, olds)
           IN  /\ N \in Nat /\ DOMAIN stream = 1..N
               /\ R \in Seq(Record) /\ Len(R) \in Nat /\ DOMAIN R = 1..Len(R)
               /\ stream' \in Seq(Record) /\ DOMAIN stream' = 1..(N + Len(R))
               /\ \A i \in 1..N : stream'[i] = stream[i]
               /\ \A i \in 1..Len(R) : stream'[N + i] = R[i]
  <1> DEFINE R == CorrectionRecords(c, olds)
  <1>1. R \in Seq(Record)
    BY Zenon, RecordsShape
  <1>2. stream \in Seq(Record)
    BY Zenon DEF TypeOK
  <1>3. stream' = stream \o R
    BY Zenon, CorrectionWrites
  <1> HIDE DEF R
  <1>4. /\ Len(stream) \in Nat /\ DOMAIN stream = 1..Len(stream)
        /\ Len(R) \in Nat /\ DOMAIN R = 1..Len(R)
        /\ stream' \in Seq(Record) /\ DOMAIN stream' = 1..(Len(stream) + Len(R))
        /\ \A i \in 1..Len(stream) : stream'[i] = stream[i]
        /\ \A i \in 1..Len(R) : stream'[Len(stream) + i] = R[i]
    BY <1>1, <1>2, <1>3, Concatenation
  <1> QED
    BY Zenon, <1>1, <1>4 DEF R

(* A correction keeps every value well formed.                             *)
LEMMA CorrectType ==
    ASSUME TypeOK, NEW c \in Correction, NEW olds \in OldLogs(c), CommitCorrection(c, olds)
    PROVE  TypeOK'
  <1> DEFINE R == CorrectionRecords(c, olds)
             n == Len(olds)
             m == Len(c.reorg.logs)
  <1>1. /\ n \in Nat /\ m \in Nat
        /\ R \in Seq(Record) /\ Len(R) = n + m + 2 /\ DOMAIN R = 1..(n + m + 2)
    BY Zenon, RecordsShape
  <1>2. \A i \in DOMAIN R : R[i] \in Record
    BY <1>1
  <1>3. c.reorg.ancestor \in Block /\ c.reorg.new \in Branch /\ c.reorg.old \in Branch
        /\ c.reorg.context \in Context
    BY Zenon, CorrectionShape DEF ReorgId
  <1>4. NewTip(c) \in Block
    BY Zenon, <1>3, TipIsBlock DEF NewTip
  <1>5. stream' \in Seq(Record)
    BY Zenon, CorrectionExtendsStream
  <1>6. record_ids' \subseteq RecordId
    BY <1>2, CorrectionWrites DEF TypeOK, Record
  <1>7. ASSUME NEW l \in TouchedLogs(c, olds)
        PROVE  /\ l \in Log
               /\ StoredState(c, olds, l) \in LogState
               /\ StoredReference(c, olds, l) \in Reference
    <2> DEFINE offset == EntryOffset(c, olds, l)
               id == R[offset].id
    <2>1. l \in Log /\ offset \in 2..(n + m + 1)
      BY Zenon, EntryOffsetExists DEF TouchedLogs
    <2>2. offset \in DOMAIN R /\ offset \in Nat
      BY <2>1, <1>1
    <2>3. id \in RecordId
      BY Zenon, <2>2, <1>2 DEF Record
    <2>4. Len(stream) + offset \in Nat /\ NextRevision(l) \in Nat
      BY <2>1, <2>2 DEF TypeOK, NextRevision, LogState
    <2>5. StoredState(c, olds, l) = [active |-> l \in RangeOf(c.reorg.logs),
              revision |-> NextRevision(l), id |-> id, entry |-> Len(stream) + offset]
      BY Zenon DEF StoredState
    <2> HIDE DEF offset, id, R
    <2>6. StoredState(c, olds, l) \in LogState
      BY <2>3, <2>4, <2>5 DEF LogState
    <2>7. StoredReference(c, olds, l) \in Reference
      BY <2>1, <2>3, <2>4, <2>5 DEF StoredReference, Reference
    <2> QED
      BY Zenon, <2>1, <2>6, <2>7
  <1>8. log_state' \in [Log -> LogState]
    BY <1>7, CorrectionWrites DEF TypeOK
  <1>9. block_logs' \in [Block -> SUBSET Reference]
    <2>1. \A b \in Block : RetainedReferences(c, b) \subseteq Reference
      BY Zenon DEF RetainedReferences, TypeOK
    <2>2. \A l \in RangeOf(c.reorg.logs) : StoredReference(c, olds, l) \in Reference
      BY Zenon, <1>7 DEF TouchedLogs
    <2> QED
      BY <2>1, <2>2, CorrectionMoves
  <1>10. headers' \in [Block -> Context \cup {None}]
    BY <1>3, CorrectionMoves DEF TypeOK
  <1>11. canonical_height' \in [HeightField -> Block \cup {None}]
    BY SMTT(30), <1>3, BranchBlocks, CorrectionMoves DEF TypeOK
  <1>12. journal_usage' \in [headers : Int, logReferences : Int]
    <2>1. Cardinality({b \in RangeOf(c.reorg.new) : headers[b] = None}) \in Nat
      BY Zenon, <1>3, BranchBlocks, FS_Subset, FS_CardinalityType
    <2> QED
      BY SMTT(30), <1>1, <2>1 DEF TypeOK, RemovedReferenceCount, CommitCorrection
  <1>13. cursor' \in Cursor \cup {None}
    BY <1>4, LogAssumption, CorrectionMoves DEF RecoveryCursor, Cursor
  <1> QED
    BY Zenon, <1>4, <1>5, <1>6, <1>8, <1>9, <1>10, <1>11, <1>12, <1>13, CorrectionMoves DEF TypeOK

(* Every value of the journal keeps the shape its readers parse.           *)
THEOREM TypeCorrect == Spec => []TypeOK
  <1>1. Init => TypeOK
    BY DEF Init, TypeOK, LogState
  <1>2. TypeOK /\ [Next]_vars => TypeOK'
    <2> SUFFICES ASSUME TypeOK, [Next]_vars PROVE TypeOK'
      BY Zenon
    <2>1. CASE \E b \in Block, context \in Context, f \in BOOLEAN : AppendHead(b, context, f)
      BY Zenon, <2>1, AppendHeadType
    <2>2. CASE \E l \in Log : AppendLog(l)
      BY Zenon, <2>2, AppendLogType
    <2>3. CASE \E c \in Correction : Correct(c)
      BY Zenon, <2>3, CorrectType DEF Correct
    <2>4. CASE UNCHANGED vars
      BY Zenon, <2>4 DEF vars, TypeOK
    <2> QED
      BY Zenon, <2>1, <2>2, <2>3, <2>4 DEF Next
  <1> QED
    BY <1>1, <1>2, PTL DEF Spec

-----------------------------------------------------------------------------
(* What an accepted correction says of the logs it touches.                *)

(* The checks correction.lua has passed when it starts to write.           *)
LEMMA AcceptedCorrection ==
    ASSUME NEW c, NEW olds, CorrectionError(c, olds) = "none"
    PROVE  /\ CommitRecordId(c) \notin record_ids
           /\ BeginRecordId(c) \notin record_ids
           /\ canonical_head = OldTip(c)
           /\ finalized_head = c.finalized
           /\ \A b \in RangeOf(c.reorg.old) : canonical_height[Decimal(Number[b])] = b
           /\ \A r \in RangeOf(olds) :
                 RevertedRecordId(c, r.log) \notin record_ids /\ StateMatches(r)
           /\ \A b \in RangeOf(c.reorg.new) : headers[b] \in {None, c.reorg.context}
           /\ \A l \in RangeOf(c.reorg.logs) :
                 AppliedRecordId(c, l) \notin record_ids /\ ~log_state[l].active
  BY Zenon DEF CorrectionError, FinalizedMatches

(* Replacement logs are pairwise different: their cursors increase.        *)
LEMMA ReplacementLogsDistinct ==
    ASSUME NEW c \in Correction,
           NEW i \in DOMAIN c.reorg.logs, NEW j \in DOMAIN c.reorg.logs,
           c.reorg.logs[i] = c.reorg.logs[j]
    PROVE  i = j
  <1>1. /\ DOMAIN c.reorg.logs = 1..Len(c.reorg.logs)
        /\ Len(c.reorg.logs) \in Nat
        /\ \A k \in 1..Len(c.reorg.logs) : c.reorg.logs[k] \in Log
    BY SMTT(30), CorrectionShape, BoundedSequence, BoundAssumption DEF ReplacementLogs, LogSeq
  <1>2. \A k, o \in DOMAIN c.reorg.logs :
           k < o => CursorBefore(LogCursor(c.reorg.logs[k]), LogCursor(c.reorg.logs[o]))
    BY Zenon, CorrectionShape DEF ReplacementLogs
  <1>3. ASSUME NEW l \in Log PROVE ~CursorBefore(LogCursor(l), LogCursor(l))
    <2>1. LogCursor(l).index = Index[l] /\ Index[l] \in Int
          /\ LogCursor(l).block = BlockOf[l] /\ Number[BlockOf[l]] \in Int
      BY LogAssumption, BlockAssumption, BoundAssumption DEF LogCursor, Height
    <2> QED
      BY <2>1 DEF CursorBefore
  <1> QED
    BY <1>1, <1>2, <1>3

(* Reverted references are of pairwise different logs: each is the current *)
(* reference of an active log.                                             *)
LEMMA RevertedLogsDistinct ==
    ASSUME TypeOK, NEW c \in Correction, NEW olds \in OldLogs(c),
           CorrectionError(c, olds) = "none",
           NEW i \in DOMAIN olds, NEW j \in DOMAIN olds, olds[i].log = olds[j].log
    PROVE  i = j
  <1>1. /\ DOMAIN olds = 1..Len(olds) /\ Len(olds) \in Nat
        /\ \A k \in 1..Len(olds) : olds[k] \in Reference
        /\ \A k, o \in 1..Len(olds) : k < o => RevertedBefore(olds[k], olds[o])
    BY Zenon, OldLogsShape
  <1>2. olds[i].entry = olds[j].entry /\ olds[i].entry \in Int
    BY <1>1, AcceptedCorrection DEF RangeOf, StateMatches, Reference
  <1>3. BlockOf[olds[i].log] \in Block /\ Number[BlockOf[olds[i].log]] \in Int
    BY <1>1, LogAssumption, BlockAssumption, BoundAssumption DEF Reference, Height
  <1>4. ~RevertedBefore(olds[i], olds[j]) /\ ~RevertedBefore(olds[j], olds[i])
    BY <1>2, <1>3 DEF RevertedBefore
  <1> QED
    BY <1>1, <1>4

(* Each touched log has exactly one entry in the correction, with the next *)
(* revision and an operation that changes its membership.                  *)
LEMMA EntryOfLog ==
    ASSUME TypeOK, NEW c \in Correction, NEW olds \in OldLogs(c),
           CorrectionError(c, olds) = "none", NEW l \in TouchedLogs(c, olds)
    PROVE  LET R == CorrectionRecords(c, olds)
               offset == EntryOffset(c, olds, l)
               op == IF l \in RangeOf(c.reorg.logs) THEN "applied" ELSE "reverted"
           IN  /\ l \in Log
               /\ offset \in 2..(Len(R) - 1)
               /\ R[offset] = LogRecord(op, l, NextRevision(l),
                                        LifecycleRecordId(l, op, c.reorg))
               /\ \A j \in DOMAIN R : R[j].log = l => j = offset
               /\ log_state[l].active <=> op = "reverted"
  <1> DEFINE R == CorrectionRecords(c, olds)
             n == Len(olds)
             m == Len(c.reorg.logs)
             offset == EntryOffset(c, olds, l)
             applied == RangeOf(c.reorg.logs)
             reverted == {r.log : r \in RangeOf(olds)}
  <1>1. n \in Nat /\ m \in Nat /\ Len(R) = n + m + 2 /\ DOMAIN R = 1..(n + m + 2)
        /\ DOMAIN olds = 1..n /\ DOMAIN c.reorg.logs = 1..m
    BY Zenon, RecordsShape, OldLogsShape
  <1>2. l \in Log /\ offset \in 2..(n + m + 1) /\ R[offset].log = l
    BY Zenon, EntryOffsetExists DEF TouchedLogs
  <1>3. /\ R[1].log = None
        /\ R[n + m + 2].log = None
        /\ \A i \in 2..(n + 1) :
              R[i] = LogRecord("reverted", olds[i - 1].log, NextRevision(olds[i - 1].log),
                               RevertedRecordId(c, olds[i - 1].log))
        /\ \A i \in (n + 2)..(n + m + 1) :
              R[i] = LogRecord("applied", c.reorg.logs[i - n - 1],
                               NextRevision(c.reorg.logs[i - n - 1]),
                               AppliedRecordId(c, c.reorg.logs[i - n - 1]))
    <2>1. /\ R[1] = ControlRecord("correction_begin", c.reorg, n, m)
          /\ R[n + m + 2] = ControlRecord("correction_commit", c.reorg, n, m)
      BY SMTT(30), RecordsShape
    <2>2. R[1].log = None /\ R[n + m + 2].log = None
      BY <2>1, ControlRecordFields
    <2> QED
      BY Zenon, <2>2, RecordsShape
  <1>4. l # None
    BY Zenon, <1>2, BlockAssumption
  <1>5. \A k \in applied : ~log_state[k].active
    BY Zenon, AcceptedCorrection
  <1>6. \A k \in reverted : log_state[k].active
    BY AcceptedCorrection DEF StateMatches
  <1> HIDE DEF R, n, m, offset
  <1>7. ASSUME NEW j \in 2..(n + 1), R[j].log = l
        PROVE  j - 1 \in 1..n /\ olds[j - 1].log = l /\ l \in reverted
    <2>1. j - 1 \in 1..n
      BY <1>1
    <2>2. olds[j - 1].log = l
      BY <1>3, <1>7, LogRecordFields
    <2> QED
      BY SMTT(30), <1>1, <2>1, <2>2 DEF RangeOf
  <1>8. ASSUME NEW j \in (n + 2)..(n + m + 1), R[j].log = l
        PROVE  j - n - 1 \in 1..m /\ c.reorg.logs[j - n - 1] = l /\ l \in applied
    <2>1. j - n - 1 \in 1..m
      BY <1>1
    <2>2. c.reorg.logs[j - n - 1] = l
      BY <1>3, <1>8, LogRecordFields
    <2> QED
      BY Zenon, <1>1, <2>1, <2>2 DEF RangeOf
  <1>9. ASSUME NEW j \in DOMAIN R, R[j].log = l
        PROVE  j = offset
    <2>1. j \in 2..(n + 1) \/ j \in (n + 2)..(n + m + 1)
      BY SMTT(30), <1>1, <1>3, <1>4, <1>9
    <2>2. offset \in 2..(n + 1) \/ offset \in (n + 2)..(n + m + 1)
      BY <1>1, <1>2
    <2>3. CASE j \in 2..(n + 1) /\ offset \in 2..(n + 1)
      <3>1. j - 1 = offset - 1
        BY Zenon, <2>3, <1>1, <1>2, <1>7, <1>9, RevertedLogsDistinct
      <3> QED
        BY <3>1, <2>3, <1>1
    <2>4. CASE j \in (n + 2)..(n + m + 1) /\ offset \in (n + 2)..(n + m + 1)
      <3>1. j - n - 1 = offset - n - 1
        BY Zenon, <2>4, <1>1, <1>2, <1>8, <1>9, ReplacementLogsDistinct
      <3> QED
        BY <3>1, <2>4, <1>1
    <2> QED
      BY Zenon, <2>1, <2>2, <2>3, <2>4, <1>2, <1>5, <1>6, <1>7, <1>8, <1>9
  <1>10. CASE offset \in 2..(n + 1)
    <2>1. olds[offset - 1].log = l /\ l \in reverted
      BY SMTT(30), <1>2, <1>7, <1>10
    <2>2. l \notin applied
      BY Zenon, <2>1, <1>5, <1>6
    <2>3. R[offset] = LogRecord("reverted", l, NextRevision(l), RevertedRecordId(c, l))
      BY Zenon, <1>3, <1>10, <2>1
    <2> QED
      BY SMTT(30), <1>1, <1>2, <1>6, <1>9, <2>1, <2>2, <2>3 DEF RevertedRecordId, R, n, m, offset
  <1>11. CASE offset \in (n + 2)..(n + m + 1)
    <2>1. c.reorg.logs[offset - n - 1] = l /\ l \in applied
      BY Zenon, <1>2, <1>8, <1>11
    <2>2. R[offset] = LogRecord("applied", l, NextRevision(l), AppliedRecordId(c, l))
      BY Zenon, <1>3, <1>11, <2>1
    <2> QED
      BY SMTT(30), <1>1, <1>2, <1>5, <1>9, <2>1, <2>2 DEF AppliedRecordId, R, n, m, offset
  <1> QED
    BY <1>1, <1>2, <1>10, <1>11

(* Entries of a correction are either control entries or those of a        *)
(* touched log.                                                            *)
LEMMA EntriesAreTouched ==
    ASSUME TypeOK, NEW c \in Correction, NEW olds \in OldLogs(c),
           NEW j \in DOMAIN CorrectionRecords(c, olds)
    PROVE  \/ CorrectionRecords(c, olds)[j].log = None
           \/ CorrectionRecords(c, olds)[j].log \in TouchedLogs(c, olds)
  <1> DEFINE R == CorrectionRecords(c, olds)
             n == Len(olds)
             m == Len(c.reorg.logs)
  <1>1. n \in Nat /\ m \in Nat /\ DOMAIN R = 1..(n + m + 2)
        /\ DOMAIN olds = 1..n /\ DOMAIN c.reorg.logs = 1..m
    BY SMTT(30), RecordsShape, OldLogsShape
  <1>2. CASE j = 1 \/ j = n + m + 2
    BY <1>2, RecordsShape, ControlRecordFields
  <1>3. CASE j \in 2..(n + 1)
    <2>1. R[j] = LogRecord("reverted", olds[j - 1].log, NextRevision(olds[j - 1].log),
                           RevertedRecordId(c, olds[j - 1].log))
      BY SMTT(30), <1>3, RecordsShape
    <2>2. R[j].log = olds[j - 1].log /\ j - 1 \in DOMAIN olds
      BY <1>1, <1>3, <2>1, LogRecordFields
    <2> HIDE DEF R
    <2> QED
      BY Zenon, <2>2 DEF TouchedLogs, RangeOf, R
  <1>4. CASE j \in (n + 2)..(n + m + 1)
    <2>1. R[j] = LogRecord("applied", c.reorg.logs[j - n - 1],
                           NextRevision(c.reorg.logs[j - n - 1]),
                           AppliedRecordId(c, c.reorg.logs[j - n - 1]))
      BY SMTT(30), <1>4, RecordsShape
    <2>2. R[j].log = c.reorg.logs[j - n - 1] /\ j - n - 1 \in DOMAIN c.reorg.logs
      BY SMTT(30), <1>1, <1>4, <2>1, LogRecordFields
    <2> HIDE DEF R
    <2> QED
      BY Zenon, <2>2 DEF TouchedLogs, RangeOf, R
  <1>5. j = 1 \/ j = n + m + 2 \/ j \in 2..(n + 1) \/ j \in (n + 2)..(n + m + 1)
    <2>1. j \in 1..(n + m + 2)
      BY Zenon, <1>1
    <2> HIDE DEF n, m
    <2> QED
      BY <1>1, <2>1
  <1> QED
    BY Zenon, <1>2, <1>3, <1>4, <1>5

-----------------------------------------------------------------------------
(* The lifecycle state of a log is that of its last stream entry.          *)

(* One ordinary append.                                                    *)
LEMMA AppendLogFollows ==
    ASSUME TypeOK, LogStateFollowsStream, NEW l \in Log, AppendLog(l)
    PROVE  LogStateFollowsStream'
  <1> DEFINE N == Len(stream)
             rec == LogRecord("applied", l, NextRevision(l), OriginRecordId(l))
  <1>1. /\ N \in Nat /\ DOMAIN stream = 1..N /\ DOMAIN stream' = 1..(N + 1)
        /\ stream'[N + 1] = rec
        /\ \A i \in 1..N : stream'[i] = stream[i]
    BY DEF TypeOK, AppendLog
  <1>2. rec.log = l
    BY LogRecordFields
  <1>3. /\ log_state'[l] = [active |-> TRUE, revision |-> NextRevision(l),
                            id |-> OriginRecordId(l), entry |-> N + 1]
        /\ \A k \in Log \ {l} : log_state'[k] = log_state[k]
    BY Zenon DEF TypeOK, AppendLog
  <1>4. NextRevision(l) \in Nat \ {0}
    BY DEF NextRevision, TypeOK, LogState
  <1> HIDE DEF rec, N
  <1> SUFFICES ASSUME NEW k \in Log
               PROVE  IF log_state'[k].revision = 0
                      THEN ~log_state'[k].active /\ \A i \in DOMAIN stream' : stream'[i].log # k
                      ELSE /\ log_state'[k].entry \in DOMAIN stream'
                           /\ stream'[log_state'[k].entry] =
                                LogRecord(IF log_state'[k].active THEN "applied" ELSE "reverted",
                                          k, log_state'[k].revision, log_state'[k].id)
                           /\ \A i \in DOMAIN stream' :
                                i > log_state'[k].entry => stream'[i].log # k
    BY Zenon DEF LogStateFollowsStream
  <1>5. CASE k = l
    BY <1>1, <1>3, <1>4, <1>5 DEF rec
  <1>6. CASE k # l
    <2>1. log_state'[k] = log_state[k]
      BY Zenon, <1>3, <1>6
    <2>2. \A i \in DOMAIN stream' : \/ i \in DOMAIN stream /\ stream'[i] = stream[i]
                                    \/ i = N + 1 /\ stream'[i].log # k
      <3>1. \A i \in 1..(N + 1) : i \in 1..N \/ i = N + 1
        BY <1>1
      <3>2. stream'[N + 1].log # k
        BY Zenon, <1>1, <1>2, <1>6
      <3> QED
        BY Zenon, <1>1, <3>1, <3>2
    <2> QED
      BY <2>1, <2>2, <1>1 DEF LogStateFollowsStream
  <1> QED
    BY Zenon, <1>5, <1>6

(* One correction.                                                         *)
LEMMA CorrectFollows ==
    ASSUME TypeOK, LogStateFollowsStream, NEW c \in Correction, NEW olds \in OldLogs(c),
           CommitCorrection(c, olds)
    PROVE  LogStateFollowsStream'
  <1> DEFINE N == Len(stream)
             R == CorrectionRecords(c, olds)
  <1>1. /\ N \in Nat /\ DOMAIN stream = 1..N
        /\ R \in Seq(Record) /\ Len(R) \in Nat /\ DOMAIN R = 1..Len(R)
        /\ DOMAIN stream' = 1..(N + Len(R))
        /\ \A i \in 1..N : stream'[i] = stream[i]
        /\ \A i \in 1..Len(R) : stream'[N + i] = R[i]
    BY Zenon, CorrectionExtendsStream
  <1>2. \A k \in Log : log_state'[k] = IF k \in TouchedLogs(c, olds)
                                      THEN StoredState(c, olds, k) ELSE log_state[k]
    BY CorrectionWrites
  <1>3. CorrectionError(c, olds) = "none"
    BY Zenon, CorrectionWrites
  <1>4. \A i \in DOMAIN stream' :
           \/ i \in DOMAIN stream /\ stream'[i] = stream[i]
           \/ i - N \in DOMAIN R /\ i = N + (i - N) /\ stream'[i] = R[i - N] /\ i > N
    <2> SUFFICES ASSUME NEW i \in 1..(N + Len(R)), ~(i \in 1..N)
                 PROVE  i - N \in 1..Len(R) /\ i = N + (i - N) /\ i > N
      BY Zenon, <1>1
    <2> QED
      BY <1>1
  <1> HIDE DEF N, R
  <1> SUFFICES ASSUME NEW k \in Log
               PROVE  IF log_state'[k].revision = 0
                      THEN ~log_state'[k].active /\ \A i \in DOMAIN stream' : stream'[i].log # k
                      ELSE /\ log_state'[k].entry \in DOMAIN stream'
                           /\ stream'[log_state'[k].entry] =
                                LogRecord(IF log_state'[k].active THEN "applied" ELSE "reverted",
                                          k, log_state'[k].revision, log_state'[k].id)
                           /\ \A i \in DOMAIN stream' :
                                i > log_state'[k].entry => stream'[i].log # k
    BY Zenon DEF LogStateFollowsStream
  <1>5. CASE k \in TouchedLogs(c, olds)
    <2> DEFINE offset == EntryOffset(c, olds, k)
               op == IF k \in RangeOf(c.reorg.logs) THEN "applied" ELSE "reverted"
    <2>1. /\ offset \in 2..(Len(R) - 1)
          /\ R[offset] = LogRecord(op, k, NextRevision(k), LifecycleRecordId(k, op, c.reorg))
          /\ \A j \in DOMAIN R : R[j].log = k => j = offset
      BY Zenon, <1>3, <1>5, EntryOfLog DEF R
    <2>2. log_state'[k] = [active |-> k \in RangeOf(c.reorg.logs), revision |-> NextRevision(k),
                           id |-> R[offset].id, entry |-> N + offset]
      BY Zenon, <1>2, <1>5 DEF StoredState, R, N
    <2>3. NextRevision(k) \in Nat \ {0}
      BY DEF NextRevision, TypeOK, LogState
    <2>4. R[offset].id = LifecycleRecordId(k, op, c.reorg)
      BY <2>1, LogRecordFields
    <2> HIDE DEF offset
    <2>5. offset \in 1..Len(R) /\ N + offset \in 1..(N + Len(R))
      BY <2>1, <1>1
    <2>6. log_state'[k].revision # 0 /\ log_state'[k].entry \in DOMAIN stream'
      BY <2>2, <2>3, <2>5, <1>1
    <2>7. stream'[N + offset] = LogRecord(op, k, NextRevision(k), R[offset].id)
      BY Zenon, <2>1, <2>4, <2>5, <1>1
    <2>8. stream'[log_state'[k].entry] =
             LogRecord(IF log_state'[k].active THEN "applied" ELSE "reverted",
                       k, log_state'[k].revision, log_state'[k].id)
      <3>1. /\ log_state'[k].entry = N + offset
            /\ log_state'[k].revision = NextRevision(k)
            /\ log_state'[k].id = R[offset].id
        BY <2>2
      <3>2. log_state'[k].active = (k \in RangeOf(c.reorg.logs))
        <4> DEFINE state == log_state'[k]
                   applied == RangeOf(c.reorg.logs)
                   id == R[offset].id
                   entry == N + offset
        <4>1. state = [active |-> k \in applied, revision |-> NextRevision(k),
                       id |-> id, entry |-> entry]
          BY Zenon, <2>2
        <4> HIDE DEF state, applied, id, entry
        <4>2. state.active = (k \in applied)
          BY Zenon, <4>1
        <4> QED
          BY Zenon, <4>2 DEF state, applied
      <3>3. (IF log_state'[k].active THEN "applied" ELSE "reverted") = op
        BY Zenon, <3>2
      <3> HIDE DEF op
      <3> QED
        BY Zenon, <2>7, <3>1, <3>3
    <2>9. ASSUME NEW i \in DOMAIN stream', i > N + offset
          PROVE  stream'[i].log # k
      BY SMTT(30), <2>1, <2>5, <2>9, <1>1, <1>4
    <2> QED
      BY <2>2, <2>6, <2>8, <2>9
  <1>6. CASE k \notin TouchedLogs(c, olds)
    <2>1. log_state'[k] = log_state[k]
      BY Zenon, <1>2, <1>6
    <2>2. \A j \in DOMAIN R : R[j].log # k
      BY <1>6, EntriesAreTouched, BlockAssumption DEF R
    <2>3. \A i \in DOMAIN stream' : \/ i \in DOMAIN stream /\ stream'[i] = stream[i]
                                    \/ stream'[i].log # k
      BY Zenon, <1>4, <2>2
    <2>4. \A i \in DOMAIN stream : i \in DOMAIN stream' /\ stream'[i] = stream[i]
      BY <1>1
    <2> QED
      BY <2>1, <2>3, <2>4 DEF LogStateFollowsStream
  <1> QED
    BY Zenon, <1>5, <1>6

-----------------------------------------------------------------------------
(* The reference lists hold the active logs.                               *)

(* RPUSH adds exactly the reference of the log that became active.         *)
LEMMA AppendLogReferences ==
    ASSUME TypeOK, ReferencesAreActiveLogs, NEW l \in Log, AppendLog(l)
    PROVE  ReferencesAreActiveLogs'
  <1> DEFINE Ref(k) == [log |-> k, id |-> log_state[k].id, entry |-> log_state[k].entry]
             RefP(k) == [log |-> k, id |-> log_state'[k].id, entry |-> log_state'[k].entry]
  <1>1. /\ ~log_state[l].active /\ log_state'[l].active
        /\ \A k \in Log \ {l} : log_state'[k] = log_state[k]
        /\ RefP(l) = [log |-> l, id |-> OriginRecordId(l), entry |-> Len(stream) + 1]
    BY Zenon DEF TypeOK, AppendLog, LogError
  <1>2. \A b \in Block : block_logs'[b] = IF b = BlockOf[l] THEN block_logs[b] \cup {RefP(l)}
                                                          ELSE block_logs[b]
    BY Zenon, <1>1 DEF TypeOK, AppendLog
  <1>3. \A b \in Block :
          block_logs[b] = {Ref(k) : k \in {o \in Log : BlockOf[o] = b /\ log_state[o].active}}
    BY Zenon DEF ReferencesAreActiveLogs
  <1>4. \A k \in Log \ {l} : RefP(k) = Ref(k)
    BY Zenon, <1>1
  <1> SUFFICES ASSUME NEW b \in Block
               PROVE  block_logs'[b] = {RefP(k) : k \in {o \in Log : BlockOf[o] = b
                                                               /\ log_state'[o].active}}
    BY Zenon DEF ReferencesAreActiveLogs
  <1> HIDE DEF Ref, RefP
  <1>5. ASSUME NEW r \in block_logs'[b]
        PROVE  \E k \in Log : BlockOf[k] = b /\ log_state'[k].active /\ r = RefP(k)
    <2>1. CASE r \in block_logs[b]
      <3>1. PICK k \in Log : BlockOf[k] = b /\ log_state[k].active /\ r = Ref(k)
        BY Zenon, <2>1, <1>3
      <3> QED
        BY Zenon, <3>1, <1>1, <1>4
    <2>2. CASE b = BlockOf[l] /\ r = RefP(l)
      BY Zenon, <2>2, <1>1
    <2> QED
      BY Zenon, <2>1, <2>2, <1>2, <1>5
  <1>6. ASSUME NEW k \in Log, BlockOf[k] = b, log_state'[k].active
        PROVE  RefP(k) \in block_logs'[b]
    <2>1. CASE k = l
      BY Zenon, <2>1, <1>2, <1>6
    <2>2. CASE k # l
      <3>1. Ref(k) \in block_logs[b]
        BY Zenon, <2>2, <1>1, <1>3, <1>6
      <3> QED
        BY Zenon, <2>2, <3>1, <1>2, <1>4
    <2> QED
      BY Zenon, <2>1, <2>2
  <1> QED
    BY Zenon, <1>5, <1>6

(* A correction deletes the references it reverts and adds those it        *)
(* applies, so the lists are again the active logs.                        *)
LEMMA CorrectReferences ==
    ASSUME TypeOK, ReferencesAreActiveLogs, NEW c \in Correction, NEW olds \in OldLogs(c),
           CommitCorrection(c, olds)
    PROVE  ReferencesAreActiveLogs'
  <1> DEFINE Ref(k) == [log |-> k, id |-> log_state[k].id, entry |-> log_state[k].entry]
             RefP(k) == [log |-> k, id |-> log_state'[k].id, entry |-> log_state'[k].entry]
             applied == RangeOf(c.reorg.logs)
             reverted == {r.log : r \in RangeOf(olds)}
             oldBlocks == RangeOf(c.reorg.old)
             touched == TouchedLogs(c, olds)
  <1>1. \A k \in Log : log_state'[k] = IF k \in touched THEN StoredState(c, olds, k)
                                                       ELSE log_state[k]
    BY CorrectionWrites
  <1>2. \A k \in touched : k \in Log
    BY Zenon, EntryOfLog, CorrectionWrites
  <1>3. touched = reverted \cup applied
    BY Zenon DEF TouchedLogs
  <1>4. \A k \in touched : log_state'[k].active <=> k \in applied
    <2> SUFFICES ASSUME NEW k \in touched PROVE log_state'[k].active = (k \in applied)
      BY Zenon
    <2> DEFINE state == log_state'[k]
               id == CorrectionRecords(c, olds)[EntryOffset(c, olds, k)].id
               entry == Len(stream) + EntryOffset(c, olds, k)
    <2>1. state = [active |-> k \in applied, revision |-> NextRevision(k),
                   id |-> id, entry |-> entry]
      BY Zenon, <1>1, <1>2 DEF StoredState
    <2> HIDE DEF state, applied, id, entry
    <2>2. state.active = (k \in applied)
      BY Zenon, <2>1
    <2> QED
      BY Zenon, <2>2 DEF state
  <1>5. \A k \in touched : RefP(k) = StoredReference(c, olds, k)
    BY Zenon, <1>1, <1>2 DEF StoredReference
  <1>6. \A k \in Log \ touched : RefP(k) = Ref(k) /\ log_state'[k].active = log_state[k].active
    BY Zenon, <1>1
  <1>7. \A b \in Block :
          block_logs[b] = {Ref(k) : k \in {o \in Log : BlockOf[o] = b /\ log_state[o].active}}
    BY Zenon DEF ReferencesAreActiveLogs
  <1>8. \A k : Ref(k).log = k
    BY Zenon
  <1>9. oldBlocks \subseteq Block
    BY Zenon, CorrectionShape, BranchBlocks DEF ReorgId
  <1>10. RangeOf(olds) = UNION {block_logs[b] : b \in oldBlocks}
    BY Zenon, OldLogsShape DEF OldReferences
  <1>11. \A k \in applied : ~log_state[k].active
    BY Zenon, AcceptedCorrection, CorrectionWrites
  <1>12. \A b \in Block : block_logs'[b] =
           (IF b \in oldBlocks THEN {} ELSE block_logs[b])
           \cup {StoredReference(c, olds, k) : k \in {o \in applied : BlockOf[o] = b}}
    BY CorrectionMoves DEF RetainedReferences
  <1> HIDE DEF Ref, RefP, applied, reverted, oldBlocks, touched
  <1>13. \A k \in reverted : BlockOf[k] \in oldBlocks
    BY <1>7, <1>8, <1>9, <1>10 DEF reverted
  <1>14. \A k \in Log : BlockOf[k] \in oldBlocks /\ log_state[k].active => k \in reverted
    <2> SUFFICES ASSUME NEW k \in Log, BlockOf[k] \in oldBlocks, log_state[k].active
                 PROVE  k \in reverted
      BY Zenon
    <2>1. Ref(k) \in block_logs[BlockOf[k]]
      BY <1>7, <1>9
    <2>2. Ref(k) \in RangeOf(olds)
      BY Zenon, <1>10, <2>1
    <2> QED
      BY Zenon, <1>8, <2>2 DEF reverted
  <1> SUFFICES ASSUME NEW b \in Block
               PROVE  block_logs'[b] = {RefP(k) : k \in {o \in Log : BlockOf[o] = b
                                                               /\ log_state'[o].active}}
    BY Zenon DEF ReferencesAreActiveLogs, RefP
  <1>15. ASSUME NEW k \in Log, BlockOf[k] = b, log_state'[k].active
         PROVE  RefP(k) \in block_logs'[b]
    <2>1. CASE k \in touched
      BY <2>1, <1>4, <1>5, <1>12, <1>15
    <2>2. CASE k \notin touched
      <3>1. b \notin oldBlocks
        BY Zenon, <2>2, <1>3, <1>6, <1>14, <1>15
      <3> QED
        BY <2>2, <3>1, <1>6, <1>7, <1>12, <1>15
    <2> QED
      BY Zenon, <2>1, <2>2
  <1>16. ASSUME NEW r \in block_logs'[b]
         PROVE  \E k \in Log : BlockOf[k] = b /\ log_state'[k].active /\ r = RefP(k)
    <2>1. CASE b \notin oldBlocks /\ r \in block_logs[b]
      <3>1. PICK k \in Log : BlockOf[k] = b /\ log_state[k].active /\ r = Ref(k)
        BY <2>1, <1>7
      <3>2. k \notin touched
        BY Zenon, <2>1, <3>1, <1>3, <1>11, <1>13
      <3> QED
        BY Zenon, <3>1, <3>2, <1>6
    <2>2. CASE \E k \in applied : BlockOf[k] = b /\ r = StoredReference(c, olds, k)
      BY Zenon, <2>2, <1>2, <1>3, <1>4, <1>5
    <2> QED
      BY <2>1, <2>2, <1>12
  <1> QED
    BY Zenon, <1>15, <1>16

-----------------------------------------------------------------------------
(* Record identities.                                                      *)

(* Every transition of a correction in the journal has its commit there.   *)
ReorgsCommitted ==
    \A id \in record_ids :
        id.reorg # None => ControlRecordId("correction_commit", id.reorg) \in record_ids

(* The ids of an accepted correction are new and pairwise different.       *)
LEMMA EntryIds ==
    ASSUME TypeOK, NEW c \in Correction, NEW olds \in OldLogs(c),
           CorrectionError(c, olds) = "none"
    PROVE  LET R == CorrectionRecords(c, olds)
           IN  /\ \A j \in DOMAIN R : R[j].id \notin record_ids /\ R[j].id.reorg = c.reorg
               /\ \A i, j \in DOMAIN R : R[i].id = R[j].id => i = j
               /\ Len(R) \in DOMAIN R /\ R[Len(R)].id = CommitRecordId(c)
  <1> DEFINE R == CorrectionRecords(c, olds)
             n == Len(olds)
             m == Len(c.reorg.logs)
             Op(l) == IF l \in RangeOf(c.reorg.logs) THEN "applied" ELSE "reverted"
  <1>1. n \in Nat /\ m \in Nat /\ Len(R) = n + m + 2 /\ DOMAIN R = 1..(n + m + 2)
    BY Zenon, RecordsShape
  <1>2. /\ R[1].id = BeginRecordId(c) /\ R[1].log = None
        /\ R[n + m + 2].id = CommitRecordId(c) /\ R[n + m + 2].log = None
    BY RecordsShape, ControlRecordFields DEF BeginRecordId, CommitRecordId
  <1>3. ASSUME NEW j \in DOMAIN R, R[j].log # None
        PROVE  /\ R[j].log \in TouchedLogs(c, olds)
               /\ j = EntryOffset(c, olds, R[j].log)
               /\ R[j].id = LifecycleRecordId(R[j].log, Op(R[j].log), c.reorg)
    <2> DEFINE l == R[j].log
    <2>1. l \in TouchedLogs(c, olds)
      BY Zenon, <1>3, EntriesAreTouched
    <2>2. j = EntryOffset(c, olds, l)
      BY Zenon, <2>1, EntryOfLog
    <2>3. R[EntryOffset(c, olds, l)] = LogRecord(Op(l), l, NextRevision(l),
                                                 LifecycleRecordId(l, Op(l), c.reorg))
      BY Zenon, <2>1, EntryOfLog
    <2> QED
      BY <2>1, <2>2, <2>3, LogRecordFields
  <1>4. ASSUME NEW j \in DOMAIN R, j # 1, j # n + m + 2
        PROVE  R[j].log # None
    <2>1. j \in 2..(n + 1) \/ j \in (n + 2)..(n + m + 1)
      BY SMTT(30), <1>1, <1>4
    <2>2. CASE j \in 2..(n + 1)
      BY SMTT(30), <2>2, RecordsShape, LogRecordFields, BlockAssumption
    <2>3. CASE j \in (n + 2)..(n + m + 1)
      <3>1. /\ c.reorg.logs[j - n - 1] \in Log
            /\ R[j] = LogRecord("applied", c.reorg.logs[j - n - 1],
                                NextRevision(c.reorg.logs[j - n - 1]),
                                AppliedRecordId(c, c.reorg.logs[j - n - 1]))
        BY SMTT(30), <2>3, RecordsShape
      <3> HIDE DEF R
      <3> QED
        BY <3>1, LogRecordFields, BlockAssumption
    <2> QED
      BY Zenon, <2>1, <2>2, <2>3
  <1>5. /\ BeginRecordId(c).kind = "correction_begin" /\ BeginRecordId(c).reorg = c.reorg
        /\ CommitRecordId(c).kind = "correction_commit" /\ CommitRecordId(c).reorg = c.reorg
        /\ BeginRecordId(c).log = None /\ CommitRecordId(c).log = None
    BY Zenon DEF BeginRecordId, CommitRecordId, ControlRecordId
  <1>6. \A l, op : LifecycleRecordId(l, op, c.reorg).log = l
                  /\ LifecycleRecordId(l, op, c.reorg).reorg = c.reorg
    BY Zenon DEF LifecycleRecordId
  <1>7. \A l \in TouchedLogs(c, olds) :
           LifecycleRecordId(l, Op(l), c.reorg) \notin record_ids
    BY Zenon, AcceptedCorrection DEF TouchedLogs, RevertedRecordId, AppliedRecordId
  <1>8. BeginRecordId(c) \notin record_ids /\ CommitRecordId(c) \notin record_ids
    BY Zenon, AcceptedCorrection
  <1> HIDE DEF R, n, m, Op
  <1>9. \A j \in DOMAIN R : R[j].id \notin record_ids /\ R[j].id.reorg = c.reorg
    BY <1>1, <1>2, <1>3, <1>4, <1>5, <1>6, <1>7, <1>8
  <1>10. ASSUME NEW i \in DOMAIN R, NEW j \in DOMAIN R, R[i].id = R[j].id
         PROVE  i = j
    <2>1. CASE R[i].log = None \/ R[j].log = None
      BY <2>1, <1>1, <1>2, <1>3, <1>4, <1>5, <1>6, <1>10
    <2>2. CASE R[i].log # None /\ R[j].log # None
      <3>1. R[i].log = R[j].log
        BY <2>2, <1>3, <1>6, <1>10
      <3> QED
        BY Zenon, <2>2, <3>1, <1>3
    <2> QED
      BY Zenon, <2>1, <2>2
  <1>11. Len(R) \in DOMAIN R /\ R[Len(R)].id = CommitRecordId(c)
    BY <1>1, <1>2
  <1> QED
    BY Zenon, <1>9, <1>10, <1>11 DEF R

(* An origin id is new when the log command appends.                       *)
LEMMA AppendLogIds ==
    ASSUME TypeOK, RecordIdsUnique, ReorgsCommitted, NEW l \in Log, AppendLog(l)
    PROVE  RecordIdsUnique' /\ ReorgsCommitted'
  <1> DEFINE N == Len(stream)
             id == OriginRecordId(l)
  <1>1. /\ N \in Nat /\ DOMAIN stream = 1..N /\ DOMAIN stream' = 1..(N + 1)
        /\ stream'[N + 1] = LogRecord("applied", l, NextRevision(l), id)
        /\ \A i \in 1..N : stream'[i] = stream[i]
    BY DEF TypeOK, AppendLog
  <1>2. stream'[N + 1].id = id
    BY <1>1, LogRecordFields
  <1>3. id \notin record_ids /\ record_ids' = record_ids \cup {id}
    BY Zenon DEF AppendLog, LogError
  <1>4. id.reorg = None
    BY Zenon DEF OriginRecordId
  <1>5. \A i \in DOMAIN stream' : \/ i \in DOMAIN stream /\ stream'[i] = stream[i]
                                  \/ i = N + 1
    BY <1>1
  <1> HIDE DEF N, id
  <1>6. \A i \in DOMAIN stream : stream[i].id \in record_ids
    BY Zenon DEF RecordIdsUnique
  <1>7. record_ids' = {stream'[i].id : i \in DOMAIN stream'}
    <2>1. \A i \in DOMAIN stream' : stream'[i].id \in record_ids'
      BY Zenon, <1>2, <1>3, <1>5, <1>6
    <2>2. \A r \in record_ids' : \E i \in DOMAIN stream' : r = stream'[i].id
      BY <1>1, <1>2, <1>3 DEF RecordIdsUnique
    <2> QED
      BY Zenon, <2>1, <2>2
  <1>8. \A i, j \in DOMAIN stream' : stream'[i].id = stream'[j].id => i = j
    BY Zenon, <1>2, <1>3, <1>5, <1>6 DEF RecordIdsUnique
  <1>9. ReorgsCommitted'
    BY Zenon, <1>3, <1>4 DEF ReorgsCommitted
  <1> QED
    BY Zenon, <1>7, <1>8, <1>9 DEF RecordIdsUnique

(* The ids of a correction are new and its commit id is among them.        *)
LEMMA CorrectIds ==
    ASSUME TypeOK, RecordIdsUnique, ReorgsCommitted,
           NEW c \in Correction, NEW olds \in OldLogs(c), CommitCorrection(c, olds)
    PROVE  RecordIdsUnique' /\ ReorgsCommitted'
  <1> DEFINE N == Len(stream)
             R == CorrectionRecords(c, olds)
  <1>1. /\ N \in Nat /\ DOMAIN stream = 1..N
        /\ R \in Seq(Record) /\ Len(R) \in Nat /\ DOMAIN R = 1..Len(R)
        /\ DOMAIN stream' = 1..(N + Len(R))
        /\ \A i \in 1..N : stream'[i] = stream[i]
        /\ \A i \in 1..Len(R) : stream'[N + i] = R[i]
    BY Zenon, CorrectionExtendsStream
  <1>2. record_ids' = record_ids \cup {R[i].id : i \in DOMAIN R}
    BY CorrectionWrites
  <1>3. /\ \A j \in DOMAIN R : R[j].id \notin record_ids /\ R[j].id.reorg = c.reorg
        /\ \A i, j \in DOMAIN R : R[i].id = R[j].id => i = j
        /\ Len(R) \in DOMAIN R
        /\ R[Len(R)].id = ControlRecordId("correction_commit", c.reorg)
    BY EntryIds, CorrectionWrites DEF CommitRecordId
  <1>4. ASSUME NEW i \in DOMAIN stream'
        PROVE  \/ i \in DOMAIN stream /\ stream'[i] = stream[i]
               \/ i - N \in DOMAIN R /\ stream'[i] = R[i - N]
    <2>1. CASE i \in 1..N
      BY Zenon, <1>1, <2>1
    <2>2. CASE i \notin 1..N
      <3>1. i - N \in 1..Len(R) /\ N + (i - N) = i
        BY <1>1, <2>2
      <3> QED
        BY Zenon, <1>1, <3>1
    <2> QED
      BY Zenon, <2>1, <2>2
  <1>5. \A i \in DOMAIN stream : stream[i].id \in record_ids
    BY Zenon DEF RecordIdsUnique
  <1>6. \A i \in DOMAIN R : N + i \in DOMAIN stream'
    BY <1>1
  <1>7. \A i, j \in DOMAIN stream' : i - N = j - N => i = j
    BY <1>1
  <1> HIDE DEF N, R
  <1>8. record_ids' = {stream'[i].id : i \in DOMAIN stream'}
    <2>1. \A i \in DOMAIN stream' : stream'[i].id \in record_ids'
      BY Zenon, <1>2, <1>4, <1>5
    <2>2. ASSUME NEW r \in record_ids' PROVE \E i \in DOMAIN stream' : r = stream'[i].id
      <3>1. CASE r \in record_ids
        <4>1. PICK i \in DOMAIN stream : r = stream[i].id
          BY Zenon, <3>1 DEF RecordIdsUnique
        <4>2. i \in DOMAIN stream' /\ stream'[i] = stream[i]
          BY <1>1
        <4> QED
          BY Zenon, <4>1, <4>2
      <3>2. CASE \E i \in DOMAIN R : r = R[i].id
        <4>1. PICK i \in DOMAIN R : r = R[i].id
          BY Zenon, <3>2
        <4> QED
          BY Zenon, <4>1, <1>1, <1>6
      <3> QED
        BY Zenon, <3>1, <3>2, <1>2
    <2> QED
      BY Zenon, <2>1, <2>2
  <1>9. \A i, j \in DOMAIN stream' : stream'[i].id = stream'[j].id => i = j
    BY <1>3, <1>4, <1>5, <1>7 DEF RecordIdsUnique
  <1>10. ReorgsCommitted'
    BY Zenon, <1>2, <1>3 DEF ReorgsCommitted
  <1> QED
    BY Zenon, <1>8, <1>9, <1>10 DEF RecordIdsUnique

=============================================================================
