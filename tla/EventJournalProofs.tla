------------------------- MODULE EventJournalProofs -------------------------
(***************************************************************************)
(* Finality, the absence of fatal replies, lifecycle revisions and the     *)
(* framing of corrections; the inductive invariant of the event journal    *)
(* and the theorems that follow from it, for every set of blocks, logs and *)
(* bounds; and that the journal implements EventDelivery: first that what  *)
(* a consumer folds from the stream is what log_state holds, then that     *)
(* each command maps to a step of EventDelivery or to none.                *)
(***************************************************************************)
EXTENDS JournalShapes, JournalDelivery

-----------------------------------------------------------------------------
(* Finality.                                                               *)

(* A head is refused where it would replace a mapped block, so journaling  *)
(* one, final or not, keeps the finality boundary mapped.                  *)
LEMMA AppendHeadFinality ==
    ASSUME TypeOK, FinalizedStaysCanonical,
           NEW b \in Block, NEW context \in Context, NEW f \in BOOLEAN,
           AppendHead(b, context, f)
    PROVE  FinalizedStaysCanonical'
  <1>1. /\ Decimal(Number[b]) \in HeightField
        /\ \A a \in Block : Number[a] \in Int /\ Decimal(Number[a]) \in HeightField
        /\ \A i, j : Decimal(i) = Decimal(j) => i = j
    BY BlockAssumption, BoundAssumption DEF Height, HeightField, Decimal
  <1>2. /\ headers' = [headers EXCEPT ![b] = context]
        /\ canonical_height' = [canonical_height EXCEPT ![Decimal(Number[b])] = b]
        /\ canonical_head' = IF Promotes(canonical_head, b) THEN b ELSE canonical_head
        /\ finalized_head' = IF f /\ Promotes(finalized_head, b) THEN b ELSE finalized_head
    BY Zenon DEF AppendHead
  <1>3. canonical_height[Decimal(Number[b])] \in {None, b}
    BY Zenon DEF AppendHead, HeadError
  <1>4. context # None /\ b # None /\ None \notin Block
    BY Zenon, BlockAssumption
  <1>5. /\ \A a \in Block : headers'[a] # None <=> headers[a] # None \/ a = b
        /\ canonical_height'[Decimal(Number[b])] = b
        /\ \A g \in HeightField : g # Decimal(Number[b]) =>
              canonical_height'[g] = canonical_height[g]
    BY Zenon, <1>1, <1>2, <1>4 DEF TypeOK
  <1>6. /\ canonical_head' \in Block
        /\ Number[b] <= Number[canonical_head']
        /\ canonical_head # None => Number[canonical_head] <= Number[canonical_head']
        /\ canonical_head' = b \/ canonical_head' = canonical_head
    BY <1>1, <1>2 DEF Promotes, TypeOK
  <1>7. finalized_head' = b \/ finalized_head' = finalized_head
    BY Zenon, <1>2
  <1>8. finalized_head' # None =>
          /\ canonical_head' # None
          /\ canonical_height'[Decimal(Number[finalized_head'])] = finalized_head'
          /\ Number[finalized_head'] <= Number[canonical_head']
    <2>1. CASE finalized_head' = b
      BY Zenon, <2>1, <1>4, <1>5, <1>6
    <2>2. CASE finalized_head' # b /\ finalized_head' # None
      <3>1. /\ finalized_head' = finalized_head /\ finalized_head \in Block
            /\ canonical_head # None /\ canonical_head \in Block
            /\ canonical_height[Decimal(Number[finalized_head])] = finalized_head
            /\ Number[finalized_head] <= Number[canonical_head]
        BY Zenon, <2>2, <1>7 DEF FinalizedStaysCanonical, TypeOK
      <3>2. Decimal(Number[finalized_head]) # Decimal(Number[b])
        BY Zenon, <2>2, <3>1, <1>3
      <3>3. Number[finalized_head] <= Number[canonical_head']
        BY <3>1, <1>1, <1>6
      <3> QED
        BY Zenon, <3>1, <3>2, <3>3, <1>1, <1>4, <1>5, <1>6
    <2> QED
      BY Zenon, <2>1, <2>2
  <1>9. canonical_head' # None => headers'[canonical_head'] # None
    BY Zenon, <1>5, <1>6 DEF FinalizedStaysCanonical, TypeOK
  <1>10. \A g \in HeightField : canonical_height'[g] # None =>
            /\ g = Decimal(Number[canonical_height'[g]])
            /\ headers'[canonical_height'[g]] # None
    BY Zenon, <1>5 DEF FinalizedStaysCanonical, TypeOK
  <1> QED
    BY Zenon, <1>8, <1>9, <1>10 DEF FinalizedStaysCanonical

(* The blocks of both branches lie above the ancestor, the new tip not     *)
(* below it.                                                               *)
LEMMA BranchHeights ==
    ASSUME NEW c \in Correction
    PROVE  LET a == c.reorg.ancestor
           IN  /\ a \in Block /\ Number[a] \in Int
               /\ RangeOf(c.reorg.old) \subseteq Block /\ RangeOf(c.reorg.new) \subseteq Block
               /\ \A b \in RangeOf(c.reorg.old) \cup RangeOf(c.reorg.new) :
                     Number[b] \in Int /\ Number[b] > Number[a]
               /\ NewTip(c) \in RangeOf(c.reorg.new) \cup {a}
  <1> DEFINE a == c.reorg.ancestor
  <1>1. a \in Block /\ c.reorg.old \in BranchesFrom(a) /\ c.reorg.new \in BranchesFrom(a)
    BY Zenon, CorrectionShape DEF ReorgId
  <1>2. Number[a] \in Int
    BY <1>1, BlockAssumption, BoundAssumption DEF Height
  <1>3. ASSUME NEW s \in BranchesFrom(a)
        PROVE  /\ RangeOf(s) \subseteq Block
               /\ \A b \in RangeOf(s) : Number[b] \in Int /\ Number[b] > Number[a]
               /\ TipOf(a, s) \in RangeOf(s) \cup {a}
    <2>1. s \in Branch /\ \A i \in DOMAIN s : Number[s[i]] = Number[a] + i
      BY Zenon DEF BranchesFrom
    <2>2. s \in Seq(Block) /\ Len(s) \in Nat /\ DOMAIN s = 1..Len(s)
      BY <2>1, BoundedSequence, BoundAssumption DEF Branch
    <2>3. \A b \in RangeOf(s) : Number[b] \in Int /\ Number[b] > Number[a]
      BY <1>2, <2>1, <2>2 DEF RangeOf
    <2>4. s # <<>> => Len(s) \in DOMAIN s
      BY <2>2
    <2> QED
      BY Zenon, <2>1, <2>3, <2>4, BranchBlocks DEF TipOf, RangeOf
  <1> QED
    BY Zenon, <1>1, <1>2, <1>3 DEF NewTip

(* A correction starts at or above finality and unmaps only blocks above   *)
(* its ancestor.                                                           *)
LEMMA CorrectFinality ==
    ASSUME TypeOK, FinalizedStaysCanonical, NEW c \in Correction, Correct(c)
    PROVE  FinalizedStaysCanonical'
  <1> DEFINE a == c.reorg.ancestor
             oldBlocks == RangeOf(c.reorg.old)
             newBlocks == RangeOf(c.reorg.new)
  <1>1. PICK olds \in OldLogs(c) : CommitCorrection(c, olds)
    BY Zenon DEF Correct
  <1>2. finalized_head = c.finalized /\ finalized_head' = finalized_head
        /\ finalized_head \in Block
    BY Zenon, <1>1, AcceptedCorrection, CorrectionShape, CorrectionWrites, CorrectionMoves
  <1>3. /\ a \in Block /\ Number[a] \in Int
        /\ oldBlocks \subseteq Block /\ newBlocks \subseteq Block
        /\ \A b \in oldBlocks \cup newBlocks : Number[b] \in Int /\ Number[b] > Number[a]
        /\ NewTip(c) \in newBlocks \cup {a}
    BY Zenon, BranchHeights
  <1>4. Number[finalized_head] \in Int /\ Number[finalized_head] <= Number[a]
    BY <1>2, <1>3, CorrectionShape, BlockAssumption, BoundAssumption DEF Height
  <1>5. \A i, j : Decimal(i) = Decimal(j) => i = j
    BY Zenon DEF Decimal
  <1>6. headers' = [b \in Block |-> IF b \in newBlocks THEN c.reorg.context ELSE headers[b]]
        /\ canonical_head' = NewTip(c)
    BY Zenon, <1>1, CorrectionMoves
  <1>7. canonical_height' = [f \in HeightField |->
              IF \E b \in newBlocks : f = Decimal(Number[b])
              THEN CHOOSE b \in newBlocks : f = Decimal(Number[b])
              ELSE IF \E b \in oldBlocks : f = Decimal(Number[b])
              THEN None ELSE canonical_height[f]]
    BY Zenon, <1>1, CorrectionMoves
  <1>8. c.reorg.context # None /\ None \notin Block
    BY Zenon, CorrectionShape, BlockAssumption DEF ReorgId
  <1>9. \A b \in Block : (headers[b] # None \/ b \in newBlocks) => headers'[b] # None
    BY Zenon, <1>6, <1>8
  <1>10. headers[a] # None
    BY Zenon DEF Correct
  <1> HIDE DEF a, oldBlocks, newBlocks
  <1>11. canonical_head' # None /\ headers'[canonical_head'] # None
    BY Zenon, <1>3, <1>6, <1>8, <1>9, <1>10
  <1>12. canonical_height'[Decimal(Number[finalized_head])] = finalized_head
    <2>1. canonical_height[Decimal(Number[finalized_head])] = finalized_head
      BY Zenon, <1>2, <1>8 DEF FinalizedStaysCanonical
    <2>2. \A b \in oldBlocks \cup newBlocks : Number[b] # Number[finalized_head]
      BY <1>3, <1>4
    <2>3. \A b \in oldBlocks \cup newBlocks :
             Decimal(Number[finalized_head]) # Decimal(Number[b])
      BY Zenon, <2>2, <1>5
    <2>4. Decimal(Number[finalized_head]) \in HeightField
      BY Zenon, <1>2, BlockAssumption DEF Decimal, HeightField
    <2> QED
      BY Zenon, <1>7, <2>1, <2>3, <2>4
  <1>13. Number[finalized_head] <= Number[canonical_head']
    BY <1>3, <1>4, <1>6
  <1>14. ASSUME NEW g \in HeightField, canonical_height'[g] # None
         PROVE  /\ g = Decimal(Number[canonical_height'[g]])
                /\ headers'[canonical_height'[g]] # None
    <2>1. CASE \E b \in newBlocks : g = Decimal(Number[b])
      <3>1. canonical_height'[g] \in newBlocks /\ g = Decimal(Number[canonical_height'[g]])
        BY Zenon, <2>1, <1>7
      <3> QED
        BY Zenon, <3>1, <1>3, <1>9
    <2>2. CASE ~ \E b \in newBlocks : g = Decimal(Number[b])
      <3>1. canonical_height'[g] = canonical_height[g]
        BY Zenon, <2>2, <1>7, <1>14
      <3>2. canonical_height[g] \in Block
        BY Zenon, <3>1, <1>14 DEF TypeOK
      <3> QED
        BY Zenon, <3>1, <3>2, <1>9, <1>14 DEF FinalizedStaysCanonical
    <2> QED
      BY Zenon, <2>1, <2>2
  <1> QED
    BY Zenon, <1>2, <1>11, <1>12, <1>13, <1>14 DEF FinalizedStaysCanonical

(* Only logs above the finality boundary are reverted.                     *)
LEMMA CorrectRevertsAboveFinality ==
    ASSUME TypeOK, ReferencesAreActiveLogs, NEW c \in Correction,
           NEW olds \in OldLogs(c), CommitCorrection(c, olds),
           NEW l \in Log, log_state[l].active, ~log_state'[l].active
    PROVE  finalized_head # None /\ Number[BlockOf[l]] > Number[finalized_head]
  <1>1. finalized_head = c.finalized /\ c.finalized \in Block
    BY Zenon, AcceptedCorrection, CorrectionShape, CorrectionWrites
  <1>2. l \in TouchedLogs(c, olds)
    BY CorrectionWrites
  <1>3. l \notin RangeOf(c.reorg.logs)
    BY Zenon, <1>2, AcceptedCorrection, CorrectionWrites
  <1>4. PICK r \in RangeOf(olds) : r.log = l
    BY Zenon, <1>2, <1>3 DEF TouchedLogs
  <1>5. PICK b \in RangeOf(c.reorg.old) : r \in block_logs[b]
    BY <1>4, OldLogsShape DEF OldReferences
  <1>6. b \in Block /\ Number[b] \in Int /\ Number[b] > Number[c.reorg.ancestor]
        /\ Number[c.reorg.ancestor] \in Int
    BY Zenon, <1>5, BranchHeights
  <1>7. BlockOf[l] = b
    BY <1>4, <1>5, <1>6 DEF ReferencesAreActiveLogs
  <1>8. Number[c.finalized] \in Int /\ Number[c.finalized] <= Number[c.reorg.ancestor]
    BY <1>1, <1>6, CorrectionShape, BlockAssumption, BoundAssumption DEF Height
  <1> QED
    BY <1>1, <1>6, <1>7, <1>8, BlockAssumption

-----------------------------------------------------------------------------
(* Corrections that start at the durable head are not refused for good.    *)

(* Both checks of the script hold of every stored reference.               *)
LEMMA ConsistentReferences ==
    ASSUME TypeOK, LogStateFollowsStream, ReferencesAreActiveLogs,
           NEW b \in Block, NEW r \in block_logs[b]
    PROVE  SourceMatches(r) /\ StateMatches(r)
  <1>1. PICK l \in Log : /\ log_state[l].active
                         /\ r = [log |-> l, id |-> log_state[l].id, entry |-> log_state[l].entry]
    BY DEF ReferencesAreActiveLogs
  <1>2. r.log = l /\ r.id = log_state[l].id /\ r.entry = log_state[l].entry
    BY Zenon, <1>1
  <1>3. log_state[l].revision # 0
    BY Zenon, <1>1 DEF LogStateFollowsStream
  <1>4. /\ log_state[l].entry \in DOMAIN stream
        /\ stream[log_state[l].entry] =
              LogRecord("applied", l, log_state[l].revision, log_state[l].id)
    BY Zenon, <1>1, <1>3 DEF LogStateFollowsStream
  <1>5. /\ stream[log_state[l].entry].op = "applied"
        /\ stream[log_state[l].entry].log = l
        /\ stream[log_state[l].entry].id = log_state[l].id
    BY <1>4, LogRecordFields
  <1> QED
    BY Zenon, <1>1, <1>2, <1>4, <1>5 DEF SourceMatches, StateMatches

(* The invariant rules out every reply that stops the worker.              *)
LEMMA InvariantImpliesNoFatal ==
    ASSUME TypeOK, LogStateFollowsStream, ReferencesAreActiveLogs, ReorgsCommitted
    PROVE  NoFatalCorrection
  <1> SUFFICES ASSUME NEW c \in Correction, NEW olds \in OldLogs(c)
               PROVE  CorrectionError(c, olds) \notin FatalReply
    BY Zenon DEF NoFatalCorrection
  <1>1. c.reorg # None
    BY Zenon, CorrectionShape, ReorgAssumption
  <1>2. /\ BeginRecordId(c).reorg = c.reorg
        /\ \A l : RevertedRecordId(c, l).reorg = c.reorg /\ AppliedRecordId(c, l).reorg = c.reorg
    BY Zenon DEF BeginRecordId, RevertedRecordId, AppliedRecordId, ControlRecordId, LifecycleRecordId
  <1>3. CommitRecordId(c) \notin record_ids =>
          /\ BeginRecordId(c) \notin record_ids
          /\ \A l : RevertedRecordId(c, l) \notin record_ids
                    /\ AppliedRecordId(c, l) \notin record_ids
    BY Zenon, <1>1, <1>2 DEF ReorgsCommitted, CommitRecordId
  <1>4. \A r \in RangeOf(olds) : SourceMatches(r) /\ StateMatches(r)
    BY OldLogsShape, ConsistentReferences, BranchHeights DEF OldReferences
  <1> QED
    BY Zenon, <1>3, <1>4 DEF CorrectionError, FatalReply

-----------------------------------------------------------------------------
(* Lifecycle revisions.                                                    *)

(* The strengthening: activity is the parity of the stored revision, and   *)
(* no entry of a log has a later revision than the stored one.             *)
RevisionsFollow ==
    /\ \A l \in Log : log_state[l].active <=> log_state[l].revision % 2 = 1
    /\ \A i \in DOMAIN stream :
          stream[i].log # None => stream[i].revision <= log_state[stream[i].log].revision

(* One more transition changes the parity of a revision.                   *)
LEMMA Parity ==
    ASSUME NEW n \in Nat
    PROVE  /\ (n + 1) % 2 = 1 <=> ~(n % 2 = 1)
           /\ n + 1 \in Nat
  OBVIOUS

(* A step that appends entries to the stream, each with the next revision  *)
(* of its log and the operation that toggles it, and stores what it wrote. *)
LEMMA ToggleKeepsRevisions ==
    ASSUME TypeOK, TypeOK', RevisionsFollow, RevisionsAlternate,
           NEW Touched \in SUBSET Log, NEW N, N = Len(stream),
           DOMAIN stream \subseteq DOMAIN stream',
           \A i \in DOMAIN stream : stream'[i] = stream[i],
           \A i \in DOMAIN stream' : i \notin DOMAIN stream => i > N,
           \A i \in DOMAIN stream' \ DOMAIN stream :
              stream'[i].log # None =>
                /\ stream'[i].log \in Touched
                /\ stream'[i].revision = NextRevision(stream'[i].log)
                /\ stream'[i].op = "applied" <=> ~log_state[stream'[i].log].active,
           \A i, j \in DOMAIN stream' \ DOMAIN stream :
              stream'[i].log # None /\ stream'[i].log = stream'[j].log => i = j,
           \A l \in Touched :
              /\ \E i \in DOMAIN stream' \ DOMAIN stream : stream'[i].log = l
              /\ log_state'[l].revision = NextRevision(l)
              /\ log_state'[l].active <=> ~log_state[l].active,
           \A l \in Log \ Touched : log_state'[l] = log_state[l]
    PROVE  RevisionsFollow' /\ RevisionsAlternate'
  <1>1. /\ N \in Nat /\ DOMAIN stream = 1..N
        /\ \A i \in DOMAIN stream : stream[i] \in Record
        /\ \A i \in DOMAIN stream' : stream'[i] \in Record /\ i \in Nat
    BY DEF TypeOK
  <1>2. \A i \in DOMAIN stream' : stream'[i].log \in Log \cup {None}
                                   /\ stream'[i].revision \in Nat
    BY Zenon, <1>1 DEF Record
  <1>3. \A l \in Log : /\ log_state[l].revision \in Nat
                       /\ NextRevision(l) = log_state[l].revision + 1
                       /\ (NextRevision(l) % 2 = 1 <=> ~(log_state[l].revision % 2 = 1))
    BY Zenon, Parity DEF TypeOK, LogState, NextRevision
  <1>4. \A l \in Log : log_state'[l].revision \in Nat
                       /\ log_state'[l].revision >= log_state[l].revision
    BY <1>3
  <1>5. \A l \in Log : log_state'[l].active <=> log_state'[l].revision % 2 = 1
    BY <1>3 DEF RevisionsFollow
  <1>6. ASSUME NEW i \in DOMAIN stream', stream'[i].log # None
        PROVE  /\ stream'[i].revision <= log_state'[stream'[i].log].revision
               /\ stream'[i].op = "applied" <=> stream'[i].revision % 2 = 1
    <2>1. CASE i \in DOMAIN stream
      <3>1. stream'[i] = stream[i] /\ stream[i].log \in Log
        BY Zenon, <2>1, <1>2, <1>6
      <3>2. stream[i].revision <= log_state[stream[i].log].revision
        BY Zenon, <2>1, <3>1, <1>6 DEF RevisionsFollow
      <3>3. stream[i].op = "applied" <=> stream[i].revision % 2 = 1
        BY <2>1, <3>1, <1>6 DEF RevisionsAlternate
      <3>4. stream[i].revision <= log_state'[stream[i].log].revision
        <4>1. /\ stream[i].revision \in Nat
              /\ log_state[stream[i].log].revision \in Nat
              /\ log_state'[stream[i].log].revision \in Nat
              /\ log_state'[stream[i].log].revision >= log_state[stream[i].log].revision
          BY Zenon, <3>1, <1>2, <1>3, <1>4
        <4>2. \A a, b, c \in Nat : a <= b /\ c >= b => a <= c
          OBVIOUS
        <4> QED BY <3>2, <4>1, <4>2
      <3> QED
        BY Zenon, <3>1, <3>3, <3>4
    <2>2. CASE i \notin DOMAIN stream
      <3>1. /\ stream'[i].log \in Touched
            /\ stream'[i].revision = NextRevision(stream'[i].log)
            /\ stream'[i].op = "applied" <=> ~log_state[stream'[i].log].active
        BY Zenon, <2>2, <1>6
      <3>2. log_state'[stream'[i].log].revision = NextRevision(stream'[i].log)
        BY Zenon, <3>1
      <3> QED
        BY <3>1, <3>2, <1>3 DEF RevisionsFollow
    <2> QED
      BY Zenon, <2>1, <2>2
  <1>7. ASSUME NEW i \in DOMAIN stream', NEW j \in DOMAIN stream', i < j,
               stream'[i].log # None, stream'[i].log = stream'[j].log
        PROVE  stream'[i].revision < stream'[j].revision
    <2>1. CASE j \in DOMAIN stream
      <3>1. i \in DOMAIN stream
        BY <2>1, <1>1, <1>7
      <3> QED
        BY <2>1, <3>1, <1>7 DEF RevisionsAlternate
    <2>2. CASE j \notin DOMAIN stream /\ i \in DOMAIN stream
      <3>1. stream'[i] = stream[i] /\ stream[i].log \in Log
        BY Zenon, <2>2, <1>2, <1>7
      <3>2. stream[i].revision <= log_state[stream[i].log].revision
        BY Zenon, <2>2, <3>1, <1>7 DEF RevisionsFollow
      <3>3. stream'[j].revision = NextRevision(stream[i].log)
        BY <2>2, <3>1, <1>7
      <3> QED
        BY SMTT(30), <3>1, <3>2, <3>3, <1>2, <1>3
    <2>3. CASE j \notin DOMAIN stream /\ i \notin DOMAIN stream
      <3>1. i = j
        BY Zenon, <2>3, <1>7
      <3> QED
        BY <3>1, <1>1, <1>7
    <2> QED
      BY Zenon, <2>1, <2>2, <2>3
  <1>8. ASSUME NEW l \in Log, NEW n \in 1..log_state'[l].revision
        PROVE  \E i \in DOMAIN stream' : stream'[i].log = l /\ stream'[i].revision = n
    <2>1. CASE n \in 1..log_state[l].revision
      <3>1. PICK i \in DOMAIN stream : stream[i].log = l /\ stream[i].revision = n
        BY <2>1 DEF RevisionsAlternate
      <3> QED
        BY Zenon, <3>1
    <2>2. CASE n \notin 1..log_state[l].revision
      <3>1. l \in Touched
        BY Zenon, <2>2
      <3>2. n = NextRevision(l)
        BY SMTT(30), <2>2, <3>1, <1>3
      <3>3. PICK i \in DOMAIN stream' \ DOMAIN stream : stream'[i].log = l
        BY Zenon, <3>1
      <3>4. l # None
        BY BlockAssumption
      <3> QED
        BY Zenon, <3>2, <3>3, <3>4
    <2> QED
      BY Zenon, <2>1, <2>2
  <1> QED
    BY Zenon, <1>5, <1>6, <1>7, <1>8 DEF RevisionsFollow, RevisionsAlternate

(* The origin transition applies an inactive log with its next revision.   *)
LEMMA AppendLogRevisions ==
    ASSUME TypeOK, TypeOK', RevisionsFollow, RevisionsAlternate, NEW l \in Log, AppendLog(l)
    PROVE  RevisionsFollow' /\ RevisionsAlternate'
  <1> DEFINE N == Len(stream)
  <1>1. /\ N \in Nat /\ DOMAIN stream = 1..N /\ DOMAIN stream' = 1..(N + 1)
        /\ stream'[N + 1] = LogRecord("applied", l, NextRevision(l), OriginRecordId(l))
        /\ \A i \in 1..N : stream'[i] = stream[i]
    BY DEF TypeOK, AppendLog
  <1>2. stream'[N + 1].log = l /\ stream'[N + 1].op = "applied"
        /\ stream'[N + 1].revision = NextRevision(l)
    BY <1>1, LogRecordFields
  <1>3. ~log_state[l].active /\ log_state'[l].active
        /\ log_state'[l].revision = NextRevision(l)
        /\ \A k \in Log \ {l} : log_state'[k] = log_state[k]
    BY Zenon DEF TypeOK, AppendLog, LogError
  <1>4. \A i \in DOMAIN stream' \ DOMAIN stream : i = N + 1
    BY <1>1
  <1>5. N + 1 \in DOMAIN stream' \ DOMAIN stream /\ DOMAIN stream \subseteq DOMAIN stream'
        /\ \A i \in DOMAIN stream' : i \notin DOMAIN stream => i > N
    BY <1>1
  <1>6. {l} \in SUBSET Log
    BY Zenon
  <1> HIDE DEF N
  <1>7. \A i \in DOMAIN stream' \ DOMAIN stream :
              stream'[i].log # None =>
                /\ stream'[i].log \in {l}
                /\ stream'[i].revision = NextRevision(stream'[i].log)
                /\ stream'[i].op = "applied" <=> ~log_state[stream'[i].log].active
    BY Zenon, <1>2, <1>3, <1>4
  <1>8. \A i, j \in DOMAIN stream' \ DOMAIN stream :
              stream'[i].log # None /\ stream'[i].log = stream'[j].log => i = j
    BY Zenon, <1>4
  <1>9. \A k \in {l} :
              /\ \E i \in DOMAIN stream' \ DOMAIN stream : stream'[i].log = k
              /\ log_state'[k].revision = NextRevision(k)
              /\ log_state'[k].active <=> ~log_state[k].active
    BY Zenon, <1>2, <1>3, <1>5
  <1> QED
    BY ZenonT(30), <1>1, <1>3, <1>5, <1>6, <1>7, <1>8, <1>9, ToggleKeepsRevisions DEF N

(* A correction toggles each log it touches once.                          *)
LEMMA CorrectRevisions ==
    ASSUME TypeOK, TypeOK', RevisionsFollow, RevisionsAlternate,
           NEW c \in Correction, NEW olds \in OldLogs(c), CommitCorrection(c, olds)
    PROVE  RevisionsFollow' /\ RevisionsAlternate'
  <1> DEFINE R == CorrectionRecords(c, olds)
             N == Len(stream)
             T == TouchedLogs(c, olds)
             Op(l) == IF l \in RangeOf(c.reorg.logs) THEN "applied" ELSE "reverted"
  <1>0. CorrectionError(c, olds) = "none"
    BY Zenon, CorrectionWrites
  <1>1. /\ Len(R) \in Nat /\ DOMAIN R = 1..Len(R) /\ R \in Seq(Record)
    BY Zenon, CorrectionExtendsStream
  <1>2. /\ N \in Nat /\ DOMAIN stream = 1..N
        /\ DOMAIN stream' = 1..(N + Len(R))
        /\ \A i \in 1..N : stream'[i] = stream[i]
        /\ \A j \in 1..Len(R) : stream'[N + j] = R[j]
    BY Zenon, CorrectionExtendsStream
  <1>3. ASSUME NEW l \in T
        PROVE  /\ l \in Log /\ EntryOffset(c, olds, l) \in 1..Len(R)
               /\ R[EntryOffset(c, olds, l)] = LogRecord(Op(l), l, NextRevision(l),
                                                   LifecycleRecordId(l, Op(l), c.reorg))
               /\ \A j \in DOMAIN R : R[j].log = l => j = EntryOffset(c, olds, l)
               /\ log_state[l].active <=> Op(l) = "reverted"
    <2>1. EntryOffset(c, olds, l) \in 2..(Len(R) - 1)
      BY Zenon, <1>0, <1>3, EntryOfLog
    <2>2. EntryOffset(c, olds, l) \in 1..Len(R)
      BY <2>1, <1>1
    <2> QED
      BY SMTT(30), <2>2, <1>0, <1>3, EntryOfLog
  <1>4. \A j \in DOMAIN R : R[j].log # None => R[j].log \in T
    BY Zenon, <1>0, EntriesAreTouched
  <1>5. \A l \in T : /\ log_state'[l].revision = NextRevision(l)
                     /\ log_state'[l].active <=> l \in RangeOf(c.reorg.logs)
    <2>1. \A l \in T : log_state'[l] = StoredState(c, olds, l)
      BY SMTT(30), <1>3, CorrectionWrites
    <2> QED
      BY ZenonT(30), <2>1, StoredStateFields
  <1>6. \A l \in Log \ T : log_state'[l] = log_state[l]
    BY CorrectionWrites
  <1>7. \A l \in T : Op(l) = "applied" <=> ~log_state[l].active
    BY SMTT(30), <1>3
  <1>8. \A l \in T : log_state'[l].active <=> ~log_state[l].active
    BY Zenon, <1>5, <1>7
  <1> HIDE DEF R, T, N, Op
  <1>9. \A i \in DOMAIN stream' \ DOMAIN stream :
           i - N \in DOMAIN R /\ stream'[i] = R[i - N] /\ i > N /\ i \in Nat
    <2> TAKE i \in DOMAIN stream' \ DOMAIN stream
    <2>1. i \in Nat /\ i > N /\ i - N \in 1..Len(R) /\ i = N + (i - N)
      BY <1>1, <1>2
    <2> QED
      BY Zenon, <2>1, <1>1, <1>2
  <1>10. \A i \in DOMAIN stream' \ DOMAIN stream :
              stream'[i].log # None =>
                /\ stream'[i].log \in T
                /\ stream'[i].revision = NextRevision(stream'[i].log)
                /\ stream'[i].op = "applied" <=> ~log_state[stream'[i].log].active
    <2> TAKE i \in DOMAIN stream' \ DOMAIN stream
    <2> HAVE stream'[i].log # None
    <2> DEFINE l == R[i - N].log
    <2>1. i - N \in DOMAIN R /\ stream'[i] = R[i - N] /\ l # None
      BY Zenon, <1>9
    <2>2. l \in T
      BY Zenon, <2>1, <1>4
    <2>3. R[i - N] = LogRecord(Op(l), l, NextRevision(l), LifecycleRecordId(l, Op(l), c.reorg))
      BY Zenon, <2>1, <2>2, <1>3
    <2>4. R[i - N].revision = NextRevision(l) /\ R[i - N].op = Op(l)
      BY <2>3, LogRecordFields
    <2>5. Op(l) = "applied" <=> ~log_state[l].active
      BY Zenon, <2>2, <1>7
    <2> QED
      BY Zenon, <2>1, <2>2, <2>4, <2>5
  <1>11. \A i, j \in DOMAIN stream' \ DOMAIN stream :
              stream'[i].log # None /\ stream'[i].log = stream'[j].log => i = j
    <2> SUFFICES ASSUME NEW i \in DOMAIN stream' \ DOMAIN stream,
                        NEW j \in DOMAIN stream' \ DOMAIN stream,
                        stream'[i].log # None, stream'[i].log = stream'[j].log
                 PROVE  i = j
      BY Zenon
    <2> DEFINE l == R[i - N].log
    <2>1. i - N \in DOMAIN R /\ j - N \in DOMAIN R /\ l \in T /\ R[j - N].log = l
      BY Zenon, <1>9, <1>4
    <2>2. i - N = EntryOffset(c, olds, l) /\ j - N = EntryOffset(c, olds, l)
      BY Zenon, <2>1, <1>3
    <2> QED
      BY <2>2, <1>9, <1>2
  <1>12. \A l \in T :
              /\ \E i \in DOMAIN stream' \ DOMAIN stream : stream'[i].log = l
              /\ log_state'[l].revision = NextRevision(l)
              /\ log_state'[l].active <=> ~log_state[l].active
    <2> SUFFICES ASSUME NEW l \in T
                 PROVE  \E i \in DOMAIN stream' \ DOMAIN stream : stream'[i].log = l
      BY Zenon, <1>5, <1>8
    <2> DEFINE k == EntryOffset(c, olds, l)
    <2>1. k \in 1..Len(R) /\ R[k].log = l
      BY <1>3, LogRecordFields
    <2> HIDE DEF k
    <2>2. N + k \in DOMAIN stream' \ DOMAIN stream /\ stream'[N + k] = R[k]
      BY <2>1, <1>1, <1>2
    <2> QED
      BY Zenon, <2>1, <2>2
  <1>13. T \in SUBSET Log
    BY Zenon, <1>3
  <1>14. /\ DOMAIN stream \subseteq DOMAIN stream'
         /\ \A i \in DOMAIN stream : stream'[i] = stream[i]
         /\ \A i \in DOMAIN stream' : i \notin DOMAIN stream => i > N
    BY SMTT(30), <1>1, <1>2
  <1> QED
    BY Zenon, <1>6, <1>10, <1>11, <1>12, <1>13, <1>14, ToggleKeepsRevisions DEF N

-----------------------------------------------------------------------------
(* The retained-entity counters.                                           *)

(* What the counters count: journaled headers, and the active logs, each   *)
(* of which has one reference.                                             *)
JournaledBlocks == {b \in Block : headers[b] # None}
ActiveLogs == {l \in Log : log_state[l].active}

UsageInv ==
    /\ IsFiniteSet(JournaledBlocks) /\ journal_usage.headers = Cardinality(JournaledBlocks)
    /\ IsFiniteSet(ActiveLogs) /\ journal_usage.logReferences = Cardinality(ActiveLogs)

(* A sequence without repetitions has as many elements as positions.       *)
LEMMA DistinctElements ==
    ASSUME NEW S, NEW n \in Nat, NEW f \in [1..n -> S],
           \A i, j \in 1..n : f[i] = f[j] => i = j,
           \A y \in S : \E i \in 1..n : f[i] = y
    PROVE  IsFiniteSet(S) /\ Cardinality(S) = n
  <1>1. IsFiniteSet(1..n) /\ Cardinality(1..n) = n
    BY FS_Interval
  <1>2. f \in Bijection(1..n, S)
    BY Zenon DEF Bijection, Injection, Surjection, IsInjective
  <1> QED
    BY Zenon, <1>1, <1>2, FS_Bijection DEF ExistsBijection

(* Disjoint sets add up, and a part taken away is subtracted.              *)
LEMMA CountExchanged ==
    ASSUME NEW S, IsFiniteSet(S), NEW R, R \subseteq S,
           NEW T, IsFiniteSet(T), S \cap T = {}
    PROVE  /\ IsFiniteSet((S \ R) \cup T)
           /\ Cardinality((S \ R) \cup T) = Cardinality(S) - Cardinality(R) + Cardinality(T)
  <1>1. IsFiniteSet(S \ R) /\ Cardinality(S \ R) = Cardinality(S) - Cardinality(S \cap R)
    BY Zenon, FS_Difference
  <1>2. S \cap R = R /\ (S \ R) \cap T = {} /\ Cardinality({}) = 0
    BY Zenon, FS_EmptySet
  <1>3. /\ IsFiniteSet((S \ R) \cup T)
        /\ Cardinality((S \ R) \cup T) = Cardinality(S \ R) + Cardinality(T) - Cardinality((S \ R) \cap T)
    BY Zenon, <1>1, FS_Union
  <1>4. IsFiniteSet(R)
    BY Zenon, FS_Subset
  <1>5. Cardinality(S) \in Nat /\ Cardinality(R) \in Nat /\ Cardinality(T) \in Nat
    BY Zenon, <1>4, FS_CardinalityType
  <1>6. Cardinality(S \cap R) = Cardinality(R) /\ Cardinality((S \ R) \cap T) = 0
    BY Zenon, <1>2
  <1> QED
    BY <1>1, <1>3, <1>5, <1>6

(* A header is counted when it is new.                                     *)
LEMMA AppendHeadUsage ==
    ASSUME TypeOK, UsageInv, NEW b \in Block, NEW context \in Context, NEW f \in BOOLEAN,
           AppendHead(b, context, f)
    PROVE  UsageInv'
  <1>1. /\ JournaledBlocks' = JournaledBlocks \cup {b}
        /\ b \in JournaledBlocks <=> headers[b] # None
    BY BlockAssumption DEF AppendHead, TypeOK, JournaledBlocks
  <1>2. /\ IsFiniteSet(JournaledBlocks \cup {b})
        /\ Cardinality(JournaledBlocks \cup {b}) =
              IF b \in JournaledBlocks THEN Cardinality(JournaledBlocks)
                                       ELSE Cardinality(JournaledBlocks) + 1
    BY Zenon, FS_AddElement DEF UsageInv
  <1>3. /\ journal_usage'.headers = IF headers[b] = None THEN journal_usage.headers + 1
                                                        ELSE journal_usage.headers
        /\ journal_usage'.logReferences = journal_usage.logReferences
        /\ ActiveLogs' = ActiveLogs
    BY Zenon DEF AppendHead, TypeOK, ActiveLogs
  <1> QED
    BY Zenon, <1>1, <1>2, <1>3 DEF UsageInv

(* An appended log becomes active and adds one reference.                  *)
LEMMA AppendLogUsage ==
    ASSUME TypeOK, UsageInv, NEW l \in Log, AppendLog(l)
    PROVE  UsageInv'
  <1>1. ActiveLogs' = ActiveLogs \cup {l} /\ l \notin ActiveLogs
    BY Zenon DEF AppendLog, LogError, TypeOK, ActiveLogs
  <1>2. /\ IsFiniteSet(ActiveLogs \cup {l})
        /\ Cardinality(ActiveLogs \cup {l}) =
              IF l \in ActiveLogs THEN Cardinality(ActiveLogs) ELSE Cardinality(ActiveLogs) + 1
    BY Zenon, FS_AddElement DEF UsageInv
  <1>3. /\ journal_usage'.headers = journal_usage.headers
        /\ journal_usage'.logReferences = journal_usage.logReferences + 1
        /\ JournaledBlocks' = JournaledBlocks
    BY Zenon DEF AppendLog, TypeOK, JournaledBlocks
  <1> QED
    BY Zenon, <1>1, <1>2, <1>3 DEF UsageInv

(* What a correction adds to and takes from the counters.                  *)
LEMMA CorrectionCounts ==
    ASSUME NEW c, NEW olds, CommitCorrection(c, olds)
    PROVE  journal_usage' =
              [headers |-> journal_usage.headers
                           + Cardinality({b \in RangeOf(c.reorg.new) : headers[b] = None}),
               logReferences |-> journal_usage.logReferences - Len(olds) + Len(c.reorg.logs)]
  BY Zenon DEF CommitCorrection, RemovedReferenceCount

(* A correction counts the new headers and exchanges the reverted logs for *)
(* the applied ones.                                                       *)
LEMMA CorrectUsage ==
    ASSUME TypeOK, UsageInv, NEW c \in Correction, NEW olds \in OldLogs(c),
           CommitCorrection(c, olds)
    PROVE  UsageInv'
  <1> DEFINE n == Len(olds)
             m == Len(c.reorg.logs)
             added == {b \in RangeOf(c.reorg.new) : headers[b] = None}
             reverted == {r.log : r \in RangeOf(olds)}
             applied == RangeOf(c.reorg.logs)
  <1>0. CorrectionError(c, olds) = "none"
    BY Zenon, CorrectionWrites
  <1>1. /\ n \in Nat /\ DOMAIN olds = 1..n /\ m \in Nat /\ DOMAIN c.reorg.logs = 1..m
        /\ \A i \in 1..n : olds[i] \in Reference
        /\ \A i \in 1..m : c.reorg.logs[i] \in Log
        /\ c.reorg.logs \in Seq(Log)
    BY Zenon, OldLogsShape
  <1>2. /\ journal_usage'.headers = journal_usage.headers + Cardinality(added)
        /\ journal_usage'.logReferences = journal_usage.logReferences - n + m
    BY CorrectionCounts
  <1>3. c.reorg.new \in Branch /\ c.reorg.context \in Context
    BY Zenon, CorrectionShape DEF ReorgId
  <1>4. RangeOf(c.reorg.new) \subseteq Block /\ IsFiniteSet(RangeOf(c.reorg.new))
    BY Zenon, <1>3, BranchBlocks
  <1>5. IsFiniteSet(added)
    <2>1. added \in SUBSET RangeOf(c.reorg.new)
      BY Zenon
    <2> QED
      BY Zenon, <1>4, <2>1, FS_Subset
  <1>6. JournaledBlocks' = (JournaledBlocks \ {}) \cup added /\ JournaledBlocks \cap added = {}
    <2>1. c.reorg.context # None
      BY Zenon, <1>3, BlockAssumption
    <2>2. \A b \in Block : headers'[b] = IF b \in RangeOf(c.reorg.new) THEN c.reorg.context ELSE headers[b]
      <3>1. headers' = [b \in Block |-> IF b \in RangeOf(c.reorg.new) THEN c.reorg.context ELSE headers[b]]
        BY Zenon, CorrectionMoves
      <3> QED
        BY Zenon, <3>1
    <2> QED
      BY Zenon, <1>4, <2>1, <2>2 DEF JournaledBlocks
  <1>7. /\ IsFiniteSet(applied) /\ Cardinality(applied) = m
        /\ applied \subseteq Log
    <2>1. c.reorg.logs \in [1..m -> applied]
      BY <1>1 DEF RangeOf
    <2>2. \A i, j \in 1..m : c.reorg.logs[i] = c.reorg.logs[j] => i = j
      BY Zenon, <1>1, ReplacementLogsDistinct
    <2>3. \A y \in applied : \E i \in 1..m : c.reorg.logs[i] = y
      BY Zenon, <1>1 DEF RangeOf
    <2>4. applied \subseteq Log
      BY Zenon, <1>1 DEF RangeOf
    <2> HIDE DEF applied, m
    <2> QED
      BY ZenonT(30), <1>1, <2>1, <2>2, <2>3, <2>4, DistinctElements
  <1>8. /\ IsFiniteSet(reverted) /\ Cardinality(reverted) = n
        /\ reverted \subseteq Log
    <2> DEFINE f == [i \in 1..n |-> olds[i].log]
    <2>1. f \in [1..n -> reverted] /\ \A i \in 1..n : f[i] = olds[i].log
      BY Zenon, <1>1 DEF RangeOf
    <2>2. \A i, j \in 1..n : olds[i].log = olds[j].log => i = j
      BY Zenon, <1>0, <1>1, RevertedLogsDistinct
    <2>3. \A y \in reverted : \E i \in 1..n : olds[i].log = y
      BY Zenon, <1>1 DEF RangeOf
    <2>4. reverted \subseteq Log
      BY Zenon, <1>1 DEF RangeOf, Reference
    <2> HIDE DEF reverted, n, f
    <2>5. /\ \A i, j \in 1..n : f[i] = f[j] => i = j
          /\ \A y \in reverted : \E i \in 1..n : f[i] = y
      BY <2>1, <2>2, <2>3
    <2>6. n \in Nat /\ f \in [1..n -> reverted]
      BY Zenon, <1>1, <2>1
    <2>7. IsFiniteSet(reverted) /\ Cardinality(reverted) = n
      BY Zenon, <2>5, <2>6, DistinctElements
    <2> QED
      BY Zenon, <2>4, <2>7
  <1>9. /\ reverted \subseteq ActiveLogs /\ ActiveLogs \cap applied = {}
        /\ ActiveLogs' = (ActiveLogs \ reverted) \cup applied
    <2>1. /\ \A r \in RangeOf(olds) : log_state[r.log].active
          /\ \A l \in applied : ~log_state[l].active
      BY SMTT(30), <1>0, AcceptedCorrection DEF StateMatches
    <2>2. reverted \subseteq ActiveLogs /\ ActiveLogs \cap applied = {}
      BY Zenon, <1>8, <2>1 DEF ActiveLogs
    <2>3. \A l \in Log : log_state'[l].active <=>
             IF l \in reverted \cup applied THEN l \in applied ELSE log_state[l].active
      <3>1. \A l \in Log : log_state'[l] = IF l \in TouchedLogs(c, olds)
                                            THEN StoredState(c, olds, l) ELSE log_state[l]
        BY CorrectionWrites
      <3>2. \A l : StoredState(c, olds, l).active <=> l \in applied
        BY Zenon, StoredStateFields
      <3>3. TouchedLogs(c, olds) = reverted \cup applied
        BY Zenon DEF TouchedLogs
      <3> HIDE DEF reverted, applied
      <3> QED
        BY Zenon, <3>1, <3>2, <3>3
    <2>4. ActiveLogs' = {l \in Log : log_state'[l].active}
      BY Zenon DEF ActiveLogs
    <2> HIDE DEF reverted, applied
    <2> QED
      BY SMTT(30), <1>7, <1>8, <2>2, <2>3, <2>4 DEF ActiveLogs
  <1> HIDE DEF n, m, added, reverted, applied
  <1>10. /\ IsFiniteSet((JournaledBlocks \ {}) \cup added)
         /\ Cardinality((JournaledBlocks \ {}) \cup added) =
               Cardinality(JournaledBlocks) - Cardinality({}) + Cardinality(added)
    BY SMTT(30), <1>5, <1>6, CountExchanged DEF UsageInv
  <1>11. /\ IsFiniteSet((ActiveLogs \ reverted) \cup applied)
         /\ Cardinality((ActiveLogs \ reverted) \cup applied) =
               Cardinality(ActiveLogs) - Cardinality(reverted) + Cardinality(applied)
    BY <1>7, <1>9, CountExchanged DEF UsageInv
  <1>12. Cardinality({}) = 0 /\ Cardinality(added) \in Nat /\ Cardinality(JournaledBlocks) \in Nat
    BY Zenon, <1>5, FS_EmptySet, FS_CardinalityType DEF UsageInv
  <1> QED
    BY <1>2, <1>6, <1>7, <1>8, <1>9, <1>10, <1>11, <1>12 DEF UsageInv

(* One reference for each active log: the counters count what is retained. *)
LEMMA UsageCounts ==
    ASSUME TypeOK, ReferencesAreActiveLogs, UsageInv
    PROVE  UsageExact
  <1> DEFINE Ref(l) == [log |-> l, id |-> log_state[l].id, entry |-> log_state[l].entry]
             retained == UNION {block_logs[b] : b \in Block}
             f == [l \in ActiveLogs |-> Ref(l)]
  <1>1. \A r : r \in retained <=> \E l \in ActiveLogs : r = Ref(l)
    <2>1. \A b \in Block : block_logs[b] = {Ref(l) : l \in {k \in Log : BlockOf[k] = b /\ log_state[k].active}}
      BY Zenon DEF ReferencesAreActiveLogs
    <2>2. \A l \in Log : BlockOf[l] \in Block
      BY Zenon, LogAssumption
    <2> HIDE DEF Ref
    <2> QED
      BY <2>1, <2>2 DEF ActiveLogs
  <1>2. \A k, l : Ref(k) = Ref(l) => k = l
    BY Zenon
  <1> HIDE DEF Ref, retained
  <1>3. f \in Bijection(ActiveLogs, retained)
    BY Zenon, <1>1, <1>2 DEF Bijection, Injection, Surjection, IsInjective
  <1>4. Cardinality(retained) = Cardinality(ActiveLogs)
    <2> HIDE DEF f
    <2> QED
      BY Zenon, <1>3, FS_Bijection DEF UsageInv, ExistsBijection
  <1> QED
    BY Zenon, <1>4 DEF UsageInv, UsageExact, JournaledBlocks, retained
-----------------------------------------------------------------------------
(* Framing of corrections.                                                 *)

(* A correction in the stream stays one when entries are added behind it.  *)
LEMMA FramingPersists ==
    ASSUME TypeOK, NEW i \in DOMAIN stream, IsCorrectionAt(i),
           DOMAIN stream \subseteq DOMAIN stream',
           \A k \in DOMAIN stream : stream'[k] = stream[k]
    PROVE  IsCorrectionAt(i)'
  <1> DEFINE n == stream[i].reverted
             m == stream[i].applied
             N == Len(stream)
  <1>1. N \in Nat /\ DOMAIN stream = 1..N /\ stream[i] \in Record
    BY DEF TypeOK
  <1>2. n \in Nat /\ m \in Nat /\ stream'[i] = stream[i]
    BY Zenon, <1>1 DEF Record
  <1>3. i + n + m + 1 \in DOMAIN stream
    BY Zenon DEF IsCorrectionAt
  <1> HIDE DEF n, m, N
  <1>4. \A k \in (i + 1)..(i + n) : k \in DOMAIN stream
    BY <1>1, <1>2, <1>3
  <1>5. \A k \in (i + n + 1)..(i + n + m) : k \in DOMAIN stream
    BY <1>1, <1>2, <1>3
  <1> QED
    BY Zenon, <1>2, <1>3, <1>4, <1>5 DEF IsCorrectionAt, n, m

(* Every entry framed before is framed after, when entries are only added. *)
LEMMA OldEntriesStayFramed ==
    ASSUME TypeOK, CorrectionFraming, NEW j \in DOMAIN stream,
           DOMAIN stream \subseteq DOMAIN stream',
           \A k \in DOMAIN stream : stream'[k] = stream[k]
    PROVE  \/ stream'[j].op = "applied" /\ stream'[j].id = OriginRecordId(stream'[j].log)
           \/ \E i \in 1..j :
                /\ stream'[i].op = "correction_begin"
                /\ stream'[i].id = ControlRecordId("correction_begin", stream'[j].id.reorg)
                /\ j <= i + stream'[i].reverted + stream'[i].applied + 1
                /\ IsCorrectionAt(i)'
  <1>1. CASE stream[j].op = "applied" /\ stream[j].id = OriginRecordId(stream[j].log)
    BY Zenon, <1>1
  <1>2. CASE \E i \in 1..j :
                /\ stream[i].op = "correction_begin"
                /\ stream[i].id = ControlRecordId("correction_begin", stream[j].id.reorg)
                /\ j <= i + stream[i].reverted + stream[i].applied + 1
                /\ IsCorrectionAt(i)
    <2>1. PICK i \in 1..j :
                /\ stream[i].op = "correction_begin"
                /\ stream[i].id = ControlRecordId("correction_begin", stream[j].id.reorg)
                /\ j <= i + stream[i].reverted + stream[i].applied + 1
                /\ IsCorrectionAt(i)
      BY Zenon, <1>2
    <2>2. i \in DOMAIN stream
      BY DEF TypeOK
    <2>3. IsCorrectionAt(i)'
      BY Zenon, <2>1, <2>2, FramingPersists
    <2>4. stream'[i] = stream[i] /\ stream'[j] = stream[j]
      BY Zenon, <2>2
    <2> QED
      BY Zenon, <2>1, <2>3, <2>4
  <1> QED
    BY Zenon, <1>1, <1>2 DEF CorrectionFraming

(* An ordinary entry never lands inside a correction.                      *)
LEMMA AppendLogFraming ==
    ASSUME TypeOK, CorrectionFraming, NEW l \in Log, AppendLog(l)
    PROVE  CorrectionFraming'
  <1> DEFINE N == Len(stream)
  <1>1. /\ N \in Nat /\ DOMAIN stream = 1..N /\ DOMAIN stream' = 1..(N + 1)
        /\ stream'[N + 1] = LogRecord("applied", l, NextRevision(l), OriginRecordId(l))
        /\ \A i \in 1..N : stream'[i] = stream[i]
    BY DEF TypeOK, AppendLog
  <1>2. stream'[N + 1].op = "applied"
        /\ stream'[N + 1].id = OriginRecordId(stream'[N + 1].log)
    BY <1>1, LogRecordFields
  <1>3. \A j \in DOMAIN stream' : j \in DOMAIN stream \/ j = N + 1
    BY <1>1
  <1>4. DOMAIN stream \subseteq DOMAIN stream'
    BY <1>1
  <1> HIDE DEF N
  <1>5. SUFFICES ASSUME NEW j \in DOMAIN stream'
                 PROVE  \/ stream'[j].op = "applied" /\ stream'[j].id = OriginRecordId(stream'[j].log)
                        \/ \E i \in 1..j :
                             /\ stream'[i].op = "correction_begin"
                             /\ stream'[i].id = ControlRecordId("correction_begin", stream'[j].id.reorg)
                             /\ j <= i + stream'[i].reverted + stream'[i].applied + 1
                             /\ IsCorrectionAt(i)'
    BY Zenon DEF CorrectionFraming
  <1>6. CASE j \in DOMAIN stream
    BY Zenon, <1>1, <1>4, <1>6, OldEntriesStayFramed
  <1>7. CASE j = N + 1
    BY Zenon, <1>2, <1>7
  <1> QED
    BY Zenon, <1>3, <1>6, <1>7

(* The entries of a correction are one frame behind the stream.            *)
LEMMA CorrectFraming ==
    ASSUME TypeOK, CorrectionFraming, NEW c \in Correction, NEW olds \in OldLogs(c),
           CommitCorrection(c, olds)
    PROVE  CorrectionFraming'
  <1> DEFINE R == CorrectionRecords(c, olds)
             N == Len(stream)
             n == Len(olds)
             m == Len(c.reorg.logs)
  <1>0. CorrectionError(c, olds) = "none"
    BY Zenon, CorrectionWrites
  <1>1. /\ n \in Nat /\ m \in Nat /\ Len(R) = n + m + 2
        /\ DOMAIN R = 1..(n + m + 2) /\ R \in Seq(Record)
    BY Zenon, RecordsShape
  <1>2. /\ N \in Nat /\ DOMAIN stream = 1..N
        /\ DOMAIN stream' = 1..(N + n + m + 2)
        /\ \A i \in 1..N : stream'[i] = stream[i]
        /\ \A j \in 1..(n + m + 2) : stream'[N + j] = R[j]
    <2>1. /\ N \in Nat /\ DOMAIN stream = 1..N /\ DOMAIN stream' = 1..(N + Len(R))
          /\ \A i \in 1..N : stream'[i] = stream[i]
          /\ \A j \in 1..Len(R) : stream'[N + j] = R[j]
      BY Zenon, CorrectionExtendsStream
    <2> HIDE DEF R, n, m
    <2>2. N + Len(R) = N + n + m + 2
      BY <2>1, <1>1
    <2> QED
      BY Zenon, <2>1, <2>2, <1>1
  <1>3. R[1] = ControlRecord("correction_begin", c.reorg, n, m)
        /\ R[n + m + 2] = ControlRecord("correction_commit", c.reorg, n, m)
    BY Zenon, RecordsShape
  <1>4. \A j \in 2..(n + 1) :
           R[j].op = "reverted" /\ R[j].id = LifecycleRecordId(R[j].log, "reverted", c.reorg)
    BY RecordsShape, LogRecordFields DEF RevertedRecordId
  <1>5. \A j \in (n + 2)..(n + m + 1) :
           R[j].op = "applied" /\ R[j].id = LifecycleRecordId(R[j].log, "applied", c.reorg)
    BY RecordsShape, LogRecordFields DEF AppliedRecordId
  <1>6. n + m + 2 <= MaxEvents
    <2>1. n + m + 2 <= MaxEvents
      BY Zenon, OldLogsShape
    <2> QED
      BY Zenon, <2>1
  <1>7. \A j \in DOMAIN R : R[j].id.reorg = c.reorg
    BY Zenon, <1>0, EntryIds
  <1> HIDE DEF R, n, m
  <1> PICK begin \in Nat : begin = N + 1
    BY <1>2
  <1>8. /\ stream'[begin].op = "correction_begin"
        /\ stream'[begin].id = ControlRecordId("correction_begin", c.reorg)
        /\ stream'[begin].reverted = n /\ stream'[begin].applied = m
        /\ stream'[begin].id.reorg = c.reorg
    <2>1. stream'[begin] = R[1] /\ 1 \in DOMAIN R
      BY SMTT(30), <1>1, <1>2
    <2> QED
      BY <2>1, <1>3, <1>7, ControlRecordFields
  <1>9. IsCorrectionAt(begin)'
    <2>1. begin + n + m + 1 \in DOMAIN stream'
      BY SMTT(30), <1>1, <1>2
    <2>2. stream'[begin + n + m + 1] = ControlRecord("correction_commit", c.reorg, n, m)
      <3>1. begin + n + m + 1 = N + (n + m + 2) /\ n + m + 2 \in 1..(n + m + 2)
        BY <1>1, <1>2
      <3> QED
        BY Zenon, <3>1, <1>2, <1>3
    <2>3. ASSUME NEW k \in (begin + 1)..(begin + n)
          PROVE  /\ stream'[k].op = "reverted"
                 /\ stream'[k].id = LifecycleRecordId(stream'[k].log, "reverted", c.reorg)
      <3>1. k - N \in 2..(n + 1) /\ k - N \in 1..(n + m + 2) /\ k = N + (k - N)
        BY <1>1, <1>2
      <3> QED
        BY <3>1, <1>2, <1>4
    <2>4. ASSUME NEW k \in (begin + n + 1)..(begin + n + m)
          PROVE  /\ stream'[k].op = "applied"
                 /\ stream'[k].id = LifecycleRecordId(stream'[k].log, "applied", c.reorg)
      <3>1. k - N \in (n + 2)..(n + m + 1) /\ k - N \in 1..(n + m + 2) /\ k = N + (k - N)
        BY <1>1, <1>2
      <3> QED
        BY <3>1, <1>2, <1>5
    <2> QED
      BY <2>1, <2>2, <2>3, <2>4, <1>6, <1>8 DEF IsCorrectionAt
  <1>10. SUFFICES ASSUME NEW j \in DOMAIN stream'
                 PROVE  \/ stream'[j].op = "applied" /\ stream'[j].id = OriginRecordId(stream'[j].log)
                        \/ \E i \in 1..j :
                             /\ stream'[i].op = "correction_begin"
                             /\ stream'[i].id = ControlRecordId("correction_begin", stream'[j].id.reorg)
                             /\ j <= i + stream'[i].reverted + stream'[i].applied + 1
                             /\ IsCorrectionAt(i)'
    BY Zenon DEF CorrectionFraming
  <1>11. CASE j \in DOMAIN stream
    <2>1. DOMAIN stream \subseteq DOMAIN stream'
      BY <1>1, <1>2
    <2> QED
      BY Zenon, <1>2, <1>11, <2>1, OldEntriesStayFramed
  <1>12. CASE j \notin DOMAIN stream
    <2>1. /\ j - N \in 1..(n + m + 2) /\ j = N + (j - N) /\ begin \in 1..j
          /\ j <= begin + n + m + 1
      BY SMTT(30), <1>1, <1>2, <1>12
    <2>2. stream'[j].id.reorg = c.reorg
      BY <2>1, <1>1, <1>2, <1>7
    <2> QED
      BY Zenon, <2>1, <2>2, <1>8, <1>9
  <1> QED
    BY Zenon, <1>11, <1>12

-----------------------------------------------------------------------------
(* The inductive invariant of the journal.                                 *)

(* FinalizedStaysCanonical and TypeOK are inductive alone; the others need *)
(* each other: a correction reverts the right logs because the references  *)
(* are the active logs, and stores the right state because ids are unique. *)
JournalInv ==
    /\ TypeOK
    /\ LogStateFollowsStream
    /\ ReferencesAreActiveLogs
    /\ RecordIdsUnique
    /\ ReorgsCommitted
    /\ RevisionsFollow
    /\ RevisionsAlternate
    /\ CorrectionFraming
    /\ FinalizedStaysCanonical
    /\ UsageInv

(* An empty journal satisfies the invariant.                               *)
LEMMA JournalInit == Init => JournalInv
  <1> SUFFICES ASSUME Init PROVE JournalInv
    BY Zenon
  <1>1. TypeOK
    BY DEF Init, TypeOK, LogState
  <1>2. DOMAIN stream = {} /\ record_ids = {} /\ canonical_head = None /\ finalized_head = None
    BY DEF Init
  <1>3. \A l \in Log : log_state[l].active = FALSE /\ log_state[l].revision = 0
    BY Zenon DEF Init
  <1>4. LogStateFollowsStream /\ CorrectionFraming /\ RecordIdsUnique /\ ReorgsCommitted
    BY Zenon, <1>2, <1>3 DEF LogStateFollowsStream, CorrectionFraming, RecordIdsUnique, ReorgsCommitted
  <1>5. ReferencesAreActiveLogs
    <2>1. \A b \in Block : block_logs[b] = {}
      BY Zenon DEF Init
    <2> QED
      BY Zenon, <2>1, <1>3 DEF ReferencesAreActiveLogs
  <1>6. RevisionsFollow /\ RevisionsAlternate
    BY <1>2, <1>3 DEF RevisionsFollow, RevisionsAlternate
  <1>7. FinalizedStaysCanonical
    BY Zenon, <1>2 DEF Init, FinalizedStaysCanonical
  <1>8. UsageInv
    <2>1. JournaledBlocks = {} /\ ActiveLogs = {}
      BY Zenon, <1>3 DEF Init, JournaledBlocks, ActiveLogs
    <2>2. journal_usage.headers = 0 /\ journal_usage.logReferences = 0
      BY Zenon DEF Init
    <2> QED
      BY Zenon, <2>1, <2>2, FS_EmptySet DEF UsageInv
  <1> QED
    BY Zenon, <1>1, <1>4, <1>5, <1>6, <1>7, <1>8 DEF JournalInv

(* AppendHead writes headers, heights and heads only.                      *)
LEMMA AppendHeadKeepsInvariant ==
    ASSUME JournalInv, NEW b \in Block, NEW context \in Context, NEW f \in BOOLEAN,
           AppendHead(b, context, f)
    PROVE  JournalInv'
  <1>1. TypeOK'
    BY Zenon, AppendHeadType DEF JournalInv
  <1>2. FinalizedStaysCanonical'
    BY Zenon, AppendHeadFinality DEF JournalInv
  <1>3. UNCHANGED <<record_ids, log_state, block_logs, stream>>
    BY Zenon DEF AppendHead
  <1>4. (LogStateFollowsStream /\ ReferencesAreActiveLogs /\ RecordIdsUnique)'
    BY <1>3 DEF JournalInv, LogStateFollowsStream, ReferencesAreActiveLogs, RecordIdsUnique
  <1>5. (ReorgsCommitted /\ RevisionsFollow /\ RevisionsAlternate)'
    BY <1>3 DEF JournalInv, ReorgsCommitted, RevisionsFollow, RevisionsAlternate
  <1>6. CorrectionFraming'
    BY <1>3 DEF JournalInv, CorrectionFraming, IsCorrectionAt
  <1>7. UsageInv'
    BY Zenon, AppendHeadUsage DEF JournalInv
  <1> QED
    BY Zenon, <1>1, <1>2, <1>4, <1>5, <1>6, <1>7 DEF JournalInv

(* AppendLog writes neither headers nor heights nor heads.                 *)
LEMMA AppendLogKeepsInvariant ==
    ASSUME JournalInv, NEW l \in Log, AppendLog(l)
    PROVE  JournalInv'
  <1>1. TypeOK'
    BY Zenon, AppendLogType DEF JournalInv
  <1>2. FinalizedStaysCanonical'
    BY Zenon DEF JournalInv, AppendLog, FinalizedStaysCanonical
  <1>3. LogStateFollowsStream' /\ ReferencesAreActiveLogs'
    BY Zenon, AppendLogFollows, AppendLogReferences DEF JournalInv
  <1>4. RecordIdsUnique' /\ ReorgsCommitted'
    BY Zenon, AppendLogIds DEF JournalInv
  <1>5. RevisionsFollow' /\ RevisionsAlternate'
    BY Zenon, <1>1, AppendLogRevisions DEF JournalInv
  <1>6. CorrectionFraming'
    BY Zenon, AppendLogFraming DEF JournalInv
  <1>7. UsageInv'
    BY Zenon, AppendLogUsage DEF JournalInv
  <1> QED
    BY Zenon, <1>1, <1>2, <1>3, <1>4, <1>5, <1>6, <1>7 DEF JournalInv

(* A correction writes every part of the journal except finalized_head.    *)
LEMMA CorrectKeepsInvariant ==
    ASSUME JournalInv, NEW c \in Correction, Correct(c)
    PROVE  JournalInv'
  <1> PICK olds \in OldLogs(c) : CommitCorrection(c, olds)
    BY Zenon DEF Correct
  <1>1. TypeOK'
    BY Zenon, CorrectType DEF JournalInv
  <1>2. FinalizedStaysCanonical'
    BY Zenon, CorrectFinality DEF JournalInv
  <1>3. LogStateFollowsStream' /\ ReferencesAreActiveLogs'
    BY Zenon, CorrectFollows, CorrectReferences DEF JournalInv
  <1>4. RecordIdsUnique' /\ ReorgsCommitted'
    BY Zenon, CorrectIds DEF JournalInv
  <1>5. RevisionsFollow' /\ RevisionsAlternate'
    BY Zenon, <1>1, CorrectRevisions DEF JournalInv
  <1>6. CorrectionFraming'
    BY Zenon, CorrectFraming DEF JournalInv
  <1>7. UsageInv'
    BY Zenon, CorrectUsage DEF JournalInv
  <1> QED
    BY Zenon, <1>1, <1>2, <1>3, <1>4, <1>5, <1>6, <1>7 DEF JournalInv

(* No sequence of commands leaves the inductive invariant.                 *)
THEOREM JournalInvariant == Spec => []JournalInv
  <1>1. JournalInv /\ [Next]_vars => JournalInv'
    <2> SUFFICES ASSUME JournalInv, [Next]_vars PROVE JournalInv'
      BY Zenon
    <2>1. CASE \E b \in Block, context \in Context, f \in BOOLEAN : AppendHead(b, context, f)
      BY Zenon, <2>1, AppendHeadKeepsInvariant
    <2>2. CASE \E l \in Log : AppendLog(l)
      BY Zenon, <2>2, AppendLogKeepsInvariant
    <2>3. CASE \E c \in Correction : Correct(c)
      BY Zenon, <2>3, CorrectKeepsInvariant
    <2>4. CASE UNCHANGED vars
      <3>1. (TypeOK /\ FinalizedStaysCanonical)'
        BY Zenon, <2>4 DEF vars, JournalInv, TypeOK, FinalizedStaysCanonical
      <3>2. (LogStateFollowsStream /\ ReferencesAreActiveLogs /\ RecordIdsUnique)'
        BY <2>4 DEF vars, JournalInv, LogStateFollowsStream, ReferencesAreActiveLogs, RecordIdsUnique
      <3>3. (ReorgsCommitted /\ RevisionsFollow /\ RevisionsAlternate)'
        BY SMTT(30), <2>4 DEF vars, JournalInv, ReorgsCommitted, RevisionsFollow, RevisionsAlternate
      <3>4. CorrectionFraming'
        BY <2>4 DEF vars, JournalInv, CorrectionFraming, IsCorrectionAt
      <3>5. UsageInv'
        BY SMTT(30), <2>4 DEF vars, JournalInv, UsageInv, JournaledBlocks, ActiveLogs
      <3> QED
        BY Zenon, <3>1, <3>2, <3>3, <3>4, <3>5 DEF JournalInv
    <2> QED
      BY Zenon, <2>1, <2>2, <2>3, <2>4 DEF Next
  <1> QED
    BY <1>1, JournalInit, PTL DEF Spec

(* A consumer that folds the stream holds the membership log_state holds.  *)
THEOREM StreamDeterminesMembership == Spec => []LogStateFollowsStream
  <1>1. JournalInv => LogStateFollowsStream
    BY Zenon DEF JournalInv
  <1> QED
    BY <1>1, JournalInvariant, PTL

(* Revisions of a log are dense and strictly increasing, and alternate     *)
(* between applied and reverted, whatever appends and corrections happen.  *)
THEOREM LifecyclesAlternate == Spec => []RevisionsAlternate
  <1>1. JournalInv => RevisionsAlternate
    BY Zenon DEF JournalInv
  <1> QED
    BY <1>1, JournalInvariant, PTL

(* The reference lists a later correction reads are the active logs.       *)
THEOREM ReferencesExact == Spec => []ReferencesAreActiveLogs
  <1>1. JournalInv => ReferencesAreActiveLogs
    BY Zenon DEF JournalInv
  <1> QED
    BY <1>1, JournalInvariant, PTL

(* One recordId, one stream entry.                                         *)
THEOREM DeliveryDeduplicated == Spec => []RecordIdsUnique
  <1>1. JournalInv => RecordIdsUnique
    BY Zenon DEF JournalInv
  <1> QED
    BY <1>1, JournalInvariant, PTL

(* The entries of a correction are contiguous, complete and in order.      *)
THEOREM CorrectionsFramed == Spec => []CorrectionFraming
  <1>1. JournalInv => CorrectionFraming
    BY Zenon DEF JournalInv
  <1> QED
    BY <1>1, JournalInvariant, PTL

(* A correction of the durable head never meets an inconsistent journal.   *)
THEOREM CorrectionsNeverFatal == Spec => []NoFatalCorrection
  <1>1. JournalInv => NoFatalCorrection
    BY Zenon, InvariantImpliesNoFatal DEF JournalInv
  <1> QED
    BY <1>1, JournalInvariant, PTL

(* The finality boundary is never unmapped, replaced or overtaken.         *)
THEOREM FinalityDurable == Spec => []FinalizedStaysCanonical
  <1>1. JournalInv => FinalizedStaysCanonical
    BY Zenon DEF JournalInv
  <1> QED
    BY <1>1, JournalInvariant, PTL

(* No command reverts a log at or below the durable finality boundary.     *)
THEOREM FinalizedLogsNeverReverted == Spec => FinalizedLogsStayActive
  <1> DEFINE Step == \A l \in Log : log_state[l].active /\ ~log_state'[l].active =>
                 finalized_head # None /\ Number[BlockOf[l]] > Number[finalized_head]
  <1>1. JournalInv /\ [Next]_vars => [Step]_vars
    <2> SUFFICES ASSUME JournalInv, Next PROVE Step
      BY Zenon
    <2>1. CASE \E b \in Block, context \in Context, f \in BOOLEAN : AppendHead(b, context, f)
      BY Zenon, <2>1 DEF AppendHead
    <2>2. CASE \E l \in Log : AppendLog(l)
      BY <2>2 DEF AppendLog, JournalInv, TypeOK
    <2>3. CASE \E c \in Correction : Correct(c)
      BY Zenon, <2>3, CorrectRevertsAboveFinality DEF Correct, JournalInv
    <2> QED
      BY Zenon, <2>1, <2>2, <2>3 DEF Next
  <1> QED
    BY <1>1, JournalInvariant, PTL DEF Spec, FinalizedLogsStayActive

(* The counters of headers and log references equal what is retained,      *)
(* after any sequence of appends and corrections (journal_usage).          *)
THEOREM CountersExact == Spec => []UsageExact
  <1>1. JournalInv => UsageExact
    BY Zenon, UsageCounts DEF JournalInv
  <1> QED
    BY <1>1, JournalInvariant, PTL

(* Only a command that ends the stream with correction_commit moves the    *)
(* recovery cursor back (cursor writes of both scripts).                   *)
THEOREM CursorAdvances == Spec => CursorRegressesOnlyByCorrection
  <1> DEFINE Allowed == \/ cursor' = cursor
                        \/ cursor = None
                        \/ CursorBefore(cursor, cursor')
                        \/ stream'[Len(stream')].op = "correction_commit" /\ stream' # stream
  <1>1. JournalInv /\ [Next]_vars => Allowed
    <2> SUFFICES ASSUME JournalInv, [Next]_vars PROVE Allowed
      BY Zenon
    <2>1. CASE \E b \in Block, context \in Context, f \in BOOLEAN : AppendHead(b, context, f)
      BY Zenon, <2>1 DEF AppendHead
    <2>2. CASE \E l \in Log : AppendLog(l)
      BY Zenon, <2>2 DEF AppendLog, AdvanceCursor
    <2>3. ASSUME NEW c \in Correction, NEW olds \in OldLogs(c), CommitCorrection(c, olds)
          PROVE  Allowed
      <3> DEFINE N == Len(stream)
                 R == CorrectionRecords(c, olds)
      <3>1. TypeOK
        BY Zenon DEF JournalInv
      <3>2. /\ N \in Nat /\ DOMAIN stream = 1..N
            /\ stream' \in Seq(Record) /\ DOMAIN stream' = 1..(N + Len(R))
            /\ \A i \in 1..Len(R) : stream'[N + i] = R[i]
        BY Zenon, <2>3, <3>1, CorrectionExtendsStream
      <3>3. /\ Len(R) \in Nat \ {0} /\ R[Len(R)].op = "correction_commit"
        BY SMTT(30), <3>1, RecordsShape, ControlRecordFields
      <3> HIDE DEF N, R
      <3>4. Len(stream') = N + Len(R)
        BY <3>2, <3>3
      <3>5. Len(R) \in 1..Len(R) /\ stream' # stream
        BY <3>2, <3>3
      <3>6. stream'[N + Len(R)].op = "correction_commit"
        BY Zenon, <3>2, <3>3, <3>5
      <3> QED
        BY Zenon, <3>4, <3>5, <3>6
    <2>4. CASE UNCHANGED vars
      BY Zenon, <2>4 DEF vars
    <2> QED
      BY Zenon, <2>1, <2>2, <2>3, <2>4 DEF Next, Correct
  <1> QED
    BY <1>1, JournalInvariant, PTL DEF Spec, CursorRegressesOnlyByCorrection

-----------------------------------------------------------------------------
(* What consumers are promised.                                            *)

(* Membership and revisions as log_state holds them.                       *)
Revisions == [l \in Log |-> log_state[l].revision]
ViewIsState == ConsumerActive = ActiveLogs /\ ConsumerRevision = Revisions

(* The last stream entry of a log is the one log_state points to.          *)
LEMMA LastEntry ==
    ASSUME TypeOK, LogStateFollowsStream, NEW l \in Log, log_state[l].revision # 0
    PROVE  LET e == log_state[l].entry
           IN  /\ e \in DOMAIN stream
               /\ IsLastEntry(e, l)
               /\ \A i \in DOMAIN stream : IsLastEntry(i, l) => i = e
               /\ stream[e].op = IF log_state[l].active THEN "applied" ELSE "reverted"
               /\ stream[e].revision = log_state[l].revision
  <1> DEFINE e == log_state[l].entry
             op == IF log_state[l].active THEN "applied" ELSE "reverted"
  <1>1. /\ e \in DOMAIN stream
        /\ stream[e] = LogRecord(op, l, log_state[l].revision, log_state[l].id)
        /\ \A i \in DOMAIN stream : i > e => stream[i].log # l
    BY Zenon DEF LogStateFollowsStream
  <1>2. stream[e].op = op /\ stream[e].log = l /\ stream[e].revision = log_state[l].revision
    BY <1>1, LogRecordFields
  <1>3. DOMAIN stream = 1..Len(stream) /\ Len(stream) \in Nat
    BY DEF TypeOK
  <1>4. IsLastEntry(e, l)
    BY Zenon, <1>1, <1>2 DEF IsLastEntry
  <1>5. ASSUME NEW i \in DOMAIN stream, IsLastEntry(i, l) PROVE i = e
    <2>1. ~(e > i) /\ ~(i > e)
      BY Zenon, <1>1, <1>2, <1>5 DEF IsLastEntry
    <2> QED
      BY <1>1, <1>3, <2>1
  <1> QED
    BY SMTT(30), <1>1, <1>2, <1>4, <1>5

(* A consumer that folds the stream holds what log_state holds.            *)
LEMMA ConsumerView == TypeOK /\ LogStateFollowsStream => ViewIsState
  <1> SUFFICES ASSUME TypeOK, LogStateFollowsStream PROVE ViewIsState
    BY Zenon
  <1>1. ASSUME NEW l \in Log
        PROVE  /\ l \in ConsumerActive <=> l \in ActiveLogs
               /\ ConsumerRevision[l] = Revisions[l]
    <2>1. CASE log_state[l].revision = 0
      <3>1. ~log_state[l].active /\ \A i \in DOMAIN stream : stream[i].log # l
        BY Zenon, <2>1 DEF LogStateFollowsStream
      <3> QED
        BY Zenon, <2>1, <3>1 DEF ConsumerActive, ConsumerRevision, ActiveLogs, Revisions, IsLastEntry
    <2>2. CASE log_state[l].revision # 0
      <3> DEFINE e == log_state[l].entry
      <3>1. /\ e \in DOMAIN stream /\ IsLastEntry(e, l)
            /\ \A i \in DOMAIN stream : IsLastEntry(i, l) => i = e
            /\ stream[e].op = IF log_state[l].active THEN "applied" ELSE "reverted"
            /\ stream[e].revision = log_state[l].revision
        BY Zenon, <2>2, LastEntry
      <3> HIDE DEF e
      <3>2. l \in ConsumerActive <=> log_state[l].active
        BY Zenon, <3>1 DEF ConsumerActive
      <3>3. (CHOOSE i \in DOMAIN stream : IsLastEntry(i, l)) = e
        BY Zenon, <3>1
      <3>4. stream[e].log = l
        BY Zenon, <3>1 DEF IsLastEntry
      <3>5. ConsumerRevision[l] = stream[e].revision
        BY Zenon, <3>1, <3>3, <3>4 DEF ConsumerRevision
      <3> QED
        BY Zenon, <3>1, <3>2, <3>5 DEF ActiveLogs, Revisions
    <2> QED
      BY Zenon, <2>1, <2>2
  <1>2. ConsumerActive = ActiveLogs
    BY Zenon, <1>1 DEF ConsumerActive, ActiveLogs
  <1>3. ConsumerRevision = Revisions
    BY Zenon, <1>1 DEF ConsumerRevision, Revisions
  <1> QED
    BY Zenon, <1>2, <1>3 DEF ViewIsState

(* A journaled head changes no membership and never lowers finality.       *)
LEMMA HeadDelivers ==
    ASSUME TypeOK, NEW b \in Block, NEW context \in Context, NEW f \in BOOLEAN,
           AppendHead(b, context, f)
    PROVE  /\ log_state' = log_state
           /\ FinalLogs \subseteq FinalLogs' /\ FinalLogs' \subseteq Log
  <1>1. log_state' = log_state
    BY Zenon DEF AppendHead
  <1>2. \/ finalized_head' = finalized_head
        \/ finalized_head' = b /\ Promotes(finalized_head, b)
    BY Zenon DEF AppendHead
  <1>3. \A l \in Log : Number[BlockOf[l]] \in Int
    BY LogAssumption, BlockAssumption, BoundAssumption DEF Height
  <1>4. b # None /\ \A x \in Block : Number[x] \in Int
    BY BlockAssumption, BoundAssumption DEF Height
  <1>5. FinalLogs \subseteq FinalLogs'
    BY <1>2, <1>3, <1>4 DEF FinalLogs, Promotes, TypeOK
  <1> QED
    BY Zenon, <1>1, <1>5 DEF FinalLogs

(* An appended log was not active and gets its next revision.              *)
LEMMA LogDelivers ==
    ASSUME TypeOK, NEW l \in Log, AppendLog(l)
    PROVE  /\ l \notin ActiveLogs
           /\ ActiveLogs' = ActiveLogs \cup {l}
           /\ Revisions' = [m \in Log |-> IF m \in {l} THEN Revisions[m] + 1 ELSE Revisions[m]]
           /\ FinalLogs' = FinalLogs
  <1>1. ~log_state[l].active
    BY Zenon DEF AppendLog, LogError
  <1>2. log_state' = [log_state EXCEPT ![l] =
            [active |-> TRUE, revision |-> NextRevision(l), id |-> OriginRecordId(l),
             entry |-> Len(stream) + 1]]
    BY Zenon DEF AppendLog
  <1>3. log_state \in [Log -> LogState]
    BY Zenon DEF TypeOK
  <1>4. /\ log_state'[l].active /\ log_state'[l].revision = log_state[l].revision + 1
        /\ \A m \in Log : m # l => log_state'[m] = log_state[m]
    BY Zenon, <1>2, <1>3 DEF NextRevision
  <1>5. ActiveLogs' = ActiveLogs \cup {l}
    BY Zenon, <1>4 DEF ActiveLogs
  <1>6. Revisions' = [m \in Log |-> IF m \in {l} THEN Revisions[m] + 1 ELSE Revisions[m]]
    BY Zenon, <1>4 DEF Revisions
  <1>7. FinalLogs' = FinalLogs
    BY Zenon DEF FinalLogs, AppendLog
  <1> QED
    BY Zenon, <1>1, <1>5, <1>6, <1>7 DEF ActiveLogs

(* A correction reverts active logs above finality and applies inactive    *)
(* ones above finality, each once.                                         *)
LEMMA CorrectionDelivers ==
    ASSUME TypeOK, ReferencesAreActiveLogs, NEW c \in Correction,
           NEW olds \in OldLogs(c), CommitCorrection(c, olds)
    PROVE  LET reverted == {r.log : r \in RangeOf(olds)}
               applied == RangeOf(c.reorg.logs)
           IN  /\ reverted \subseteq Log /\ applied \subseteq Log
               /\ reverted \subseteq ActiveLogs /\ applied \cap ActiveLogs = {}
               /\ (reverted \cup applied) \cap FinalLogs = {}
               /\ ActiveLogs' = (ActiveLogs \ reverted) \cup applied
               /\ Revisions' = [l \in Log |-> IF l \in reverted \cup applied
                                              THEN Revisions[l] + 1 ELSE Revisions[l]]
               /\ FinalLogs' = FinalLogs
  <1> DEFINE reverted == {r.log : r \in RangeOf(olds)}
             applied == RangeOf(c.reorg.logs)
  <1>0. CorrectionError(c, olds) = "none"
    BY Zenon, CorrectionWrites
  <1>1. /\ \A r \in RangeOf(olds) : r \in Reference /\ r \in OldReferences(c)
        /\ applied \subseteq Log
    BY SMTT(30), OldLogsShape DEF RangeOf
  <1>2. reverted \subseteq Log
    BY Zenon, <1>1 DEF Reference
  <1>3. \A r \in RangeOf(olds) : log_state[r.log].active
    BY Zenon, <1>0, AcceptedCorrection DEF StateMatches
  <1>4. \A l \in applied : ~log_state[l].active
    BY SMTT(30), <1>0, AcceptedCorrection
  <1>5. TouchedLogs(c, olds) = reverted \cup applied
    BY SMTT(30) DEF TouchedLogs
  <1>6. ASSUME NEW l \in Log
        PROVE  IF l \in reverted \cup applied
               THEN /\ log_state'[l].active = (l \in applied)
                    /\ log_state'[l].revision = log_state[l].revision + 1
               ELSE log_state'[l] = log_state[l]
    <2>1. log_state'[l] = IF l \in TouchedLogs(c, olds) THEN StoredState(c, olds, l)
                          ELSE log_state[l]
      BY CorrectionWrites
    <2> QED
      BY <1>5, <2>1, StoredStateFields DEF NextRevision
  <1>7. reverted \subseteq ActiveLogs /\ applied \cap ActiveLogs = {}
    BY Zenon, <1>2, <1>3, <1>4 DEF ActiveLogs
  <1>8. ActiveLogs' = (ActiveLogs \ reverted) \cup applied
    BY Zenon, <1>1, <1>2, <1>6, <1>7 DEF ActiveLogs
  <1>9. Revisions' = [l \in Log |-> IF l \in reverted \cup applied
                                    THEN Revisions[l] + 1 ELSE Revisions[l]]
    BY Zenon, <1>6 DEF Revisions
  <1>10. ASSUME NEW l \in reverted \cup applied PROVE l \notin FinalLogs
    <2>1. BlockOf[l] \in RangeOf(c.reorg.old) \cup RangeOf(c.reorg.new)
      <3>1. CASE l \in applied
        BY SMTT(30), <3>1, CorrectionShape DEF ReplacementLogs, RangeOf
      <3>2. CASE l \in reverted
        <4>1. PICK r \in RangeOf(olds) : r.log = l
          BY Zenon, <3>2
        <4>2. PICK b \in RangeOf(c.reorg.old) : r \in block_logs[b]
          BY Zenon, <4>1, <1>1 DEF OldReferences
        <4>3. b \in Block
          BY Zenon, <4>2, BranchHeights
        <4> QED
          BY <4>1, <4>2, <4>3 DEF ReferencesAreActiveLogs
      <3> QED
        BY Zenon, <3>1, <3>2
    <2>2. /\ Number[BlockOf[l]] \in Int /\ Number[c.reorg.ancestor] \in Int
          /\ Number[BlockOf[l]] > Number[c.reorg.ancestor]
      BY Zenon, <2>1, BranchHeights
    <2>3. finalized_head = c.finalized /\ c.finalized \in Block
          /\ (c.finalized = c.reorg.ancestor \/ Number[c.finalized] < Number[c.reorg.ancestor])
      BY SMTT(30), <1>0, AcceptedCorrection, CorrectionShape
    <2>4. Number[c.finalized] \in Int
      BY <2>3, BlockAssumption, BoundAssumption DEF Height
    <2> QED
      BY <2>2, <2>3, <2>4 DEF FinalLogs
  <1>11. FinalLogs' = FinalLogs
    BY SMTT(30), CorrectionMoves DEF FinalLogs
  <1> HIDE DEF reverted, applied
  <1>12. (reverted \cup applied) \cap FinalLogs = {}
    BY Zenon, <1>10
  <1> QED
    BY Zenon, <1>1, <1>2, <1>7, <1>8, <1>9, <1>11, <1>12 DEF reverted, applied

(* Every command of the journal is a step of EventDelivery or none: what   *)
(* a consumer of the stream sees is what the delivery contract promises.   *)
THEOREM JournalDelivers == Spec => ImplementsDelivery
  <1>1. Init => Delivery!Init
    <2> SUFFICES ASSUME Init PROVE Delivery!Init
      BY Zenon
    <2>1. DOMAIN stream = {}
      BY DEF Init
    <2>2. ConsumerActive = {} /\ FinalLogs = {}
      BY Zenon, <2>1 DEF Init, ConsumerActive, FinalLogs
    <2>3. ConsumerRevision = [l \in Log |-> 0]
      BY Zenon, <2>1 DEF ConsumerRevision
    <2> QED
      BY Zenon, <2>2, <2>3 DEF Delivery!Init
  <1>2. JournalInv => ViewIsState
    BY Zenon, ConsumerView DEF JournalInv
  <1>3. ViewIsState /\ ViewIsState' /\ JournalInv /\ [Next]_vars
          => [Delivery!Next]_Delivery!vars
    <2> SUFFICES ASSUME ViewIsState, ViewIsState', JournalInv, [Next]_vars
                 PROVE  Delivery!Next \/ UNCHANGED Delivery!vars
      BY Zenon
    <2>0. /\ ConsumerActive = ActiveLogs /\ ConsumerRevision = Revisions
          /\ ConsumerActive' = ActiveLogs' /\ ConsumerRevision' = Revisions'
      BY Zenon DEF ViewIsState
    <2>1. TypeOK /\ ReferencesAreActiveLogs
      BY Zenon DEF JournalInv
    <2>2. CASE \E b \in Block, context \in Context, f \in BOOLEAN : AppendHead(b, context, f)
      <3>1. log_state' = log_state /\ FinalLogs \subseteq FinalLogs' /\ FinalLogs' \subseteq Log
        BY Zenon, <2>1, <2>2, HeadDelivers
      <3>2. ActiveLogs' = ActiveLogs /\ Revisions' = Revisions
        BY Zenon, <3>1 DEF ActiveLogs, Revisions
      <3>3. FinalLogs' = FinalLogs \cup FinalLogs' /\ FinalLogs' \in SUBSET Log
        BY Zenon, <3>1
      <3>4. Delivery!Finalize
        BY Zenon, <2>0, <3>2, <3>3 DEF Delivery!Finalize
      <3> QED
        BY Zenon, <3>4 DEF Delivery!Next
    <2>3. CASE \E l \in Log : AppendLog(l)
      <3>1. PICK l \in Log : AppendLog(l)
        BY Zenon, <2>3
      <3>2. Delivery!Deliver(l)
        BY Zenon, <2>0, <2>1, <3>1, LogDelivers DEF Delivery!Deliver, Delivery!Advance
      <3> QED
        BY Zenon, <3>2 DEF Delivery!Next
    <2>4. CASE \E c \in Correction : Correct(c)
      <3>1. PICK c \in Correction : \E olds \in OldLogs(c) : CommitCorrection(c, olds)
        BY Zenon, <2>4 DEF Correct
      <3>2. PICK olds \in OldLogs(c) : CommitCorrection(c, olds)
        BY Zenon, <3>1
      <3> DEFINE reverted == {r.log : r \in RangeOf(olds)}
                 applied == RangeOf(c.reorg.logs)
      <3>3. /\ reverted \in SUBSET Log /\ applied \in SUBSET Log
            /\ reverted \subseteq ActiveLogs /\ applied \cap ActiveLogs = {}
            /\ (reverted \cup applied) \cap FinalLogs = {}
            /\ ActiveLogs' = (ActiveLogs \ reverted) \cup applied
            /\ Revisions' = [l \in Log |-> IF l \in reverted \cup applied
                                           THEN Revisions[l] + 1 ELSE Revisions[l]]
            /\ FinalLogs' = FinalLogs
        BY SMTT(30), <2>1, <3>2, CorrectionDelivers
      <3> HIDE DEF reverted, applied
      <3>4. Delivery!Replace(reverted, applied)
        BY Zenon, <2>0, <3>3 DEF Delivery!Replace, Delivery!Advance
      <3> QED
        BY Zenon, <3>3, <3>4 DEF Delivery!Next
    <2>5. CASE UNCHANGED vars
      <3>1. ActiveLogs' = ActiveLogs /\ Revisions' = Revisions /\ FinalLogs' = FinalLogs
        BY Zenon, <2>5 DEF vars, ActiveLogs, Revisions, FinalLogs
      <3> QED
        BY Zenon, <2>0, <3>1 DEF Delivery!vars
    <2> QED
      BY Zenon, <2>2, <2>3, <2>4, <2>5 DEF Next
  <1> QED
    BY <1>1, <1>2, <1>3, JournalInvariant, PTL DEF Spec, ImplementsDelivery, Delivery!Spec

=============================================================================
