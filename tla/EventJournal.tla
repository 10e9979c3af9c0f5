---------------------------- MODULE EventJournal ----------------------------
(***************************************************************************)
(* The durable event journal of lunarbase-event-worker: the Redis keys of  *)
(* one deployment and the three Lua commands that write them, JOURNAL_LUA  *)
(* with kind 'head', JOURNAL_LUA with kind 'log', and correction.lua.      *)
(*                                                                         *)
(* Redis runs a script without interruption, so each command is one        *)
(* action.  A refused or deduplicated command writes nothing and is a      *)
(* stuttering step here; its reply is the operator HeadError, LogError or  *)
(* CorrectionError, which a caller of the journal evaluates.               *)
(*                                                                         *)
(* Abstractions.  A block stands for its hash, its number and parent hash  *)
(* are constant functions of it; a log stands for its logicalLogId and its *)
(* payload.  Record ids, digests in the code, are the tuples that are      *)
(* digested.  A stream id is the position of its entry.  The list          *)
(* block_logs:<hash> is the set of its references: RPUSH and XADD run in   *)
(* the same command, so list order is the order of the stream positions.   *)
(***************************************************************************)
EXTENDS Integers, Sequences, FiniteSets

CONSTANTS
    Block,      \* block hashes
    Parent,     \* parent hash of each block, None below the first one
    Number,     \* canonical number of each block
    MaxNumber,  \* largest block number
    Context,    \* header contents a source may report for one hash
    Log,        \* logical log identities
    BlockOf,    \* block of each log
    Index,      \* position of each log inside its block
    MaxIndex,   \* u32::MAX, the index of a block-end cursor
    MaxDepth,   \* fork_max_depth: blocks of one branch of a correction
    MaxEvents,  \* correction_event_bound: records of one correction
    MaxStream,  \* stream entries Redis has memory for (noeviction)
    None        \* an absent Redis value

Height == 0..MaxNumber

ASSUME BlockAssumption ==
    /\ None \notin Block \cup Log \cup Context
    /\ Number \in [Block -> Height]
    /\ Parent \in [Block -> Block \cup {None}]
    /\ \A b \in Block : Parent[b] # None => Number[b] = Number[Parent[b]] + 1

ASSUME LogAssumption ==
    /\ BlockOf \in [Log -> Block]
    /\ MaxIndex \in Nat
    /\ Index \in [Log -> 0..(MaxIndex - 1)]
    /\ \A l, m \in Log : BlockOf[l] = BlockOf[m] /\ Index[l] = Index[m] => l = m

ASSUME BoundAssumption ==
    MaxNumber \in Nat /\ MaxDepth \in Nat /\ MaxEvents \in Nat /\ MaxStream \in Nat

(* What reorg_id digests: ancestor, both branches and the replacement logs. *)
Branch == UNION {[1..n -> Block] : n \in 0..MaxDepth}
LogSeq == UNION {[1..n -> Log] : n \in 0..MaxEvents}
ReorgId == [ancestor : Block, old : Branch, new : Branch,
            context : Context, logs : LogSeq]

ASSUME ReorgAssumption == None \notin ReorgId

VARIABLES
    headers,           \* hash -> header JSON
    canonical_height,  \* decimal field -> hash
    canonical_head,    \* hash of the durable tip
    finalized_head,    \* hash of the durable finality boundary
    record_ids,        \* record id -> stream id
    log_state,         \* logical log id -> active, revision, record, stream id
    block_logs,        \* hash -> references of its active logs
    stream,            \* the public Redis stream
    cursor,            \* recovery cursor
    journal_usage      \* retained-entity counters

vars == <<headers, canonical_height, canonical_head, finalized_head, record_ids,
          log_state, block_logs, stream, cursor, journal_usage>>

-----------------------------------------------------------------------------
(* Identities and stored values.                                           *)

(* origin_record_id, lifecycle_record_id and control_record_id.            *)
OriginRecordId(l) == [kind |-> "origin", log |-> l, reorg |-> None]
LifecycleRecordId(l, op, reorg) == [kind |-> op, log |-> l, reorg |-> reorg]
ControlRecordId(op, reorg) == [kind |-> op, log |-> None, reorg |-> reorg]

LogOp == {"applied", "reverted"}
ControlOp == {"correction_begin", "correction_commit"}

RecordId == [kind : {"origin"} \cup LogOp \cup ControlOp,
             log : Log \cup {None}, reorg : ReorgId \cup {None}]

(* One stream entry. A control entry has no log and revision 0.            *)
Record == [op : LogOp \cup ControlOp, log : Log \cup {None}, revision : Nat,
           id : RecordId, reverted : Nat, applied : Nat]

LogRecord(op, l, revision, id) ==
    [op |-> op, log |-> l, revision |-> revision, id |-> id,
     reverted |-> 0, applied |-> 0]

ControlRecord(op, reorg, reverted, applied) ==
    [op |-> op, log |-> None, revision |-> 0, id |-> ControlRecordId(op, reorg),
     reverted |-> reverted, applied |-> applied]

Reference == [log : Log, id : RecordId, entry : Nat]
LogState == [active : BOOLEAN, revision : Nat, id : RecordId \cup {None}, entry : Nat]
Cursor == [block : Block, index : 0..MaxIndex]

(* Numbers become hash fields through two different formats: tostring(n)   *)
(* for heads and corrections, the 20-digit prefix of cursor_order for logs. *)
Decimal(n) == <<"decimal", n>>
Padded(n) == <<"padded", n>>
HeightField == {"decimal", "padded"} \X Height

(* Lexicographic order of the cursor_order strings.                        *)
CursorBefore(c, d) ==
    \/ Number[c.block] < Number[d.block]
    \/ Number[c.block] = Number[d.block] /\ c.index < d.index

LogCursor(l) == [block |-> BlockOf[l], index |-> Index[l]]

Init ==
    /\ headers = [b \in Block |-> None]
    /\ canonical_height = [f \in HeightField |-> None]
    /\ canonical_head = None
    /\ finalized_head = None
    /\ record_ids = {}
    /\ log_state = [l \in Log |-> [active |-> FALSE, revision |-> 0,
                                   id |-> None, entry |-> 0]]
    /\ block_logs = [b \in Block |-> {}]
    /\ stream = <<>>
    /\ cursor = None
    /\ journal_usage = [headers |-> 0, logReferences |-> 0]

(* Mutant: a re-applied log starts over.                                   *)
NextRevisionRestarts(l) == 1

(* The lifecycle revision of the next transition of a log.                 *)
NextRevision(l) == log_state[l].revision + 1

-----------------------------------------------------------------------------
(* JOURNAL_LUA, kind 'head': persist::head journals one header.            *)

(* The numbered height below b, None when nothing is mapped there.         *)
MappedParent(b) ==
    IF Number[b] > 0 THEN canonical_height[Decimal(Number[b] - 1)] ELSE None

Extends(b) == Number[b] = Number[canonical_head] + 1 /\ Parent[b] = canonical_head

(* The error reply to a head, "none" when it is journaled.                 *)
HeadError(b, context, finalized) ==
    IF headers[b] \notin {None, context} THEN "HEADER_IDENTITY_MISMATCH"
    ELSE IF canonical_height[Decimal(Number[b])] \notin {None, b}
         THEN "FORK_REQUIRES_CORRECTION"
    ELSE IF MappedParent(b) \notin {None, Parent[b]} THEN "PARENT_LINK_MISMATCH"
    ELSE IF canonical_head \in {None, b} THEN "none"
    ELSE IF headers[canonical_head] = None THEN "CANONICAL_HEAD_MISSING"
    ELSE IF Number[b] > Number[canonical_head] /\ ~finalized /\ ~Extends(b)
         THEN "HEAD_DISCONTINUITY"
    ELSE IF Number[b] = Number[canonical_head] THEN "FORK_REQUIRES_CORRECTION"
    ELSE "none"

Promotes(head, b) == head \in {None, b} \/ Number[b] > Number[head]

AppendHead(b, context, finalized) ==
    /\ HeadError(b, context, finalized) = "none"
    /\ headers' = [headers EXCEPT ![b] = context]
    /\ journal_usage' = IF headers[b] = None
                        THEN [journal_usage EXCEPT !.headers = @ + 1]
                        ELSE journal_usage
    /\ canonical_height' = [canonical_height EXCEPT ![Decimal(Number[b])] = b]
    /\ canonical_head' = IF Promotes(canonical_head, b) THEN b ELSE canonical_head
    /\ finalized_head' = IF finalized /\ Promotes(finalized_head, b)
                         THEN b ELSE finalized_head
    /\ UNCHANGED <<record_ids, log_state, block_logs, stream, cursor>>

-----------------------------------------------------------------------------
(* JOURNAL_LUA, kind 'log': persist::log appends one event.                *)

(* The block the membership check compares the log's block with.           *)
CanonicalAt(l) == canonical_height[Padded(Number[BlockOf[l]])]

(* The reply to a log: a known record is acknowledged, not appended again. *)
LogError(l) ==
    IF OriginRecordId(l) \in record_ids THEN "duplicate"
    ELSE IF CanonicalAt(l) \notin {None, BlockOf[l]} THEN "LOG_ON_NONCANONICAL_BLOCK"
    ELSE IF log_state[l].active THEN "LOG_ALREADY_ACTIVE"
    ELSE IF Len(stream) + 1 > MaxStream THEN "OOM"
    ELSE "none"

(* Mutant: the cursor follows every log.                                   *)
AdvanceCursorAlways(c) == c

AdvanceCursor(c) ==
    IF cursor = None \/ CursorBefore(cursor, c) THEN c ELSE cursor

AppendLog(l) ==
    LET id == OriginRecordId(l)
        revision == NextRevision(l)
        entry == Len(stream) + 1
    IN  /\ LogError(l) = "none"
        /\ stream' = Append(stream, LogRecord("applied", l, revision, id))
        /\ record_ids' = record_ids \cup {id}
        /\ log_state' = [log_state EXCEPT ![l] = [active |-> TRUE, revision |-> revision,
                                                  id |-> id, entry |-> entry]]
        /\ block_logs' = [block_logs EXCEPT ![BlockOf[l]] =
                              @ \cup {[log |-> l, id |-> id, entry |-> entry]}]
        /\ journal_usage' = [journal_usage EXCEPT !.logReferences = @ + 1]
        /\ cursor' = AdvanceCursor(LogCursor(l))
        /\ UNCHANGED <<headers, canonical_height, canonical_head, finalized_head>>

-----------------------------------------------------------------------------
(* correction.rs and correction.lua: ForkRuntime replaces one branch.      *)

RangeOf(s) == {s[i] : i \in DOMAIN s}

(* Numbered and parent-linked branches above the ancestor a.               *)
BranchesFrom(a) ==
    {s \in Branch : \A i \in DOMAIN s :
        /\ Number[s[i]] = Number[a] + i
        /\ Parent[s[i]] = IF i = 1 THEN a ELSE s[i - 1]}

(* The last block of a branch, its ancestor when the branch is empty.      *)
TipOf(a, s) == IF s = <<>> THEN a ELSE s[Len(s)]

(* Replacement logs: on the new branch and in strict event order.          *)
ReplacementLogs(new) ==
    {s \in LogSeq :
        /\ \A i \in DOMAIN s : BlockOf[s[i]] \in RangeOf(new)
        /\ \A i, j \in DOMAIN s : i < j => CursorBefore(LogCursor(s[i]), LogCursor(s[j]))}

(* What ForkResolver, validate_finality and ReorgCorrection::new let        *)
(* through: the tips differ and the ancestor is not below finality.        *)
CorrectionsAbove(a) ==
    UNION {{[reorg |-> [ancestor |-> a, old |-> old, new |-> new,
                        context |-> context, logs |-> logs],
             finalized |-> finalized] :
              old \in {s \in BranchesFrom(a) : TipOf(a, s) # TipOf(a, new)},
              context \in Context,
              logs \in ReplacementLogs(new),
              finalized \in {f \in Block : f = a \/ Number[f] < Number[a]}} :
            new \in BranchesFrom(a)}

Correction == UNION {CorrectionsAbove(a) : a \in Block}

OldTip(c) == TipOf(c.reorg.ancestor, c.reorg.old)
NewTip(c) == TipOf(c.reorg.ancestor, c.reorg.new)
RevertedRecordId(c, l) == LifecycleRecordId(l, "reverted", c.reorg)
AppliedRecordId(c, l) == LifecycleRecordId(l, "applied", c.reorg)
BeginRecordId(c) == ControlRecordId("correction_begin", c.reorg)
CommitRecordId(c) == ControlRecordId("correction_commit", c.reorg)

(* load_references and materialize_old_logs: the references of the old     *)
(* branch, newest block and newest reference first, when begin, commit and *)
(* all transitions fit the event budget. Empty when they do not fit.       *)
OldReferences(c) == UNION {block_logs[b] : b \in RangeOf(c.reorg.old)}

RevertedBefore(r, q) ==
    \/ Number[BlockOf[r.log]] > Number[BlockOf[q.log]]
    \/ Number[BlockOf[r.log]] = Number[BlockOf[q.log]] /\ r.entry > q.entry

OldEventBudget(c) == MaxEvents - 2 - Len(c.reorg.logs)

OldLogs(c) ==
    {s \in UNION {[1..n -> OldReferences(c)] : n \in 0..OldEventBudget(c)} :
        /\ RangeOf(s) = OldReferences(c)
        /\ \A i, j \in DOMAIN s : i < j => RevertedBefore(s[i], s[j])}

(* The checks the script makes on one old reference.                       *)
SourceMatches(r) ==
    /\ r.entry \in DOMAIN stream
    /\ stream[r.entry].id = r.id
    /\ stream[r.entry].log = r.log
    /\ stream[r.entry].op = "applied"

StateMatches(r) ==
    log_state[r.log].active /\ log_state[r.log].id = r.id /\ log_state[r.log].entry = r.entry

(* Mutant: finality is not compared.                                       *)
FinalizedUnchecked(c) == TRUE

FinalizedMatches(c) == finalized_head = c.finalized

(* The reply to correction c with old references olds.                     *)
CorrectionError(c, olds) ==
    IF CommitRecordId(c) \in record_ids THEN "duplicate"
    ELSE IF canonical_head # OldTip(c) THEN "REORG_STALE_HEAD"
    ELSE IF ~FinalizedMatches(c) THEN "REORG_FINALIZED_MISMATCH"
    ELSE IF BeginRecordId(c) \in record_ids THEN "PARTIAL_REORG_STATE"
    ELSE IF \E b \in RangeOf(c.reorg.old) : canonical_height[Decimal(Number[b])] # b
         THEN "REORG_OLD_BRANCH_MISMATCH"
    ELSE IF \E r \in RangeOf(olds) : RevertedRecordId(c, r.log) \in record_ids
         THEN "REORG_RECORD_EXISTS"
    ELSE IF \E r \in RangeOf(olds) : ~SourceMatches(r) THEN "REORG_SOURCE_EVENT_MISMATCH"
    ELSE IF \E r \in RangeOf(olds) : ~StateMatches(r) THEN "REORG_LOG_STATE_MISMATCH"
    ELSE IF \E b \in RangeOf(c.reorg.new) : headers[b] \notin {None, c.reorg.context}
         THEN "HEADER_IDENTITY_MISMATCH"
    ELSE IF \E l \in RangeOf(c.reorg.logs) : AppliedRecordId(c, l) \in record_ids
         THEN "REORG_RECORD_EXISTS"
    ELSE IF \E l \in RangeOf(c.reorg.logs) : log_state[l].active THEN "LOG_ALREADY_ACTIVE"
    ELSE IF Len(stream) + Len(olds) + Len(c.reorg.logs) + 2 > MaxStream THEN "OOM"
    ELSE "none"

(* The entries one correction adds: begin, reverts, applies, commit.       *)
CorrectionRecords(c, olds) ==
    LET logs == c.reorg.logs
        n == Len(olds)
        m == Len(logs)
    IN  [i \in 1..(n + m + 2) |->
            IF i = 1 THEN ControlRecord("correction_begin", c.reorg, n, m)
            ELSE IF i <= n + 1
                 THEN LogRecord("reverted", olds[i - 1].log,
                                NextRevision(olds[i - 1].log),
                                RevertedRecordId(c, olds[i - 1].log))
            ELSE IF i <= n + m + 1
                 THEN LogRecord("applied", logs[i - n - 1],
                                NextRevision(logs[i - n - 1]),
                                AppliedRecordId(c, logs[i - n - 1]))
            ELSE ControlRecord("correction_commit", c.reorg, n, m)]

(* The offset of the entry for log l among those of the correction.        *)
EntryOffset(c, olds, l) ==
    CHOOSE i \in 2..(Len(olds) + Len(c.reorg.logs) + 1) :
        CorrectionRecords(c, olds)[i].log = l

(* Mutant: the reference lists of the old branch are not deleted.          *)
ReferencesKept(c, b) == block_logs[b]

(* HDEL and DEL: the reference list of b once the old branch is removed.   *)
RetainedReferences(c, b) == IF b \in RangeOf(c.reorg.old) THEN {} ELSE block_logs[b]

(* Mutant: removed references stay counted.                                *)
ReferenceCountKept(olds) == 0

RemovedReferenceCount(olds) == Len(olds)

RecoveryCursor(c) == [block |-> NewTip(c), index |-> MaxIndex]

(* log_state and the reference of a log the correction touches.            *)
StoredState(c, olds, l) ==
    LET offset == EntryOffset(c, olds, l)
    IN  [active |-> l \in RangeOf(c.reorg.logs), revision |-> NextRevision(l),
         id |-> CorrectionRecords(c, olds)[offset].id, entry |-> Len(stream) + offset]

StoredReference(c, olds, l) ==
    [log |-> l, id |-> StoredState(c, olds, l).id, entry |-> StoredState(c, olds, l).entry]

(* The logs the correction reverts or applies.                             *)
TouchedLogs(c, olds) == {r.log : r \in RangeOf(olds)} \cup RangeOf(c.reorg.logs)

(* The writes of correction.lua.                                           *)
CommitCorrection(c, olds) ==
    LET records == CorrectionRecords(c, olds)
        oldBlocks == RangeOf(c.reorg.old)
        newBlocks == RangeOf(c.reorg.new)
    IN  /\ CorrectionError(c, olds) = "none"
        /\ stream' = stream \o records
        /\ record_ids' = record_ids \cup {records[i].id : i \in DOMAIN records}
        /\ log_state' = [l \in Log |-> IF l \in TouchedLogs(c, olds)
                                        THEN StoredState(c, olds, l) ELSE log_state[l]]
        /\ block_logs' = [b \in Block |->
              RetainedReferences(c, b)
              \cup {StoredReference(c, olds, l) :
                      l \in {k \in RangeOf(c.reorg.logs) : BlockOf[k] = b}}]
        /\ headers' = [b \in Block |-> IF b \in newBlocks THEN c.reorg.context
                                        ELSE headers[b]]
        /\ canonical_height' = [f \in HeightField |->
              IF \E b \in newBlocks : f = Decimal(Number[b])
              THEN CHOOSE b \in newBlocks : f = Decimal(Number[b])
              ELSE IF \E b \in oldBlocks : f = Decimal(Number[b])
              THEN None ELSE canonical_height[f]]
        /\ journal_usage' =
              [headers |-> journal_usage.headers
                           + Cardinality({b \in newBlocks : headers[b] = None}),
               logReferences |-> journal_usage.logReferences
                                 - RemovedReferenceCount(olds) + Len(c.reorg.logs)]
        /\ canonical_head' = NewTip(c)
        /\ cursor' = RecoveryCursor(c)
        /\ UNCHANGED finalized_head

(* The ancestor comes from the durable window, so its header is journaled. *)
Correct(c) ==
    /\ headers[c.reorg.ancestor] # None
    /\ \E olds \in OldLogs(c) : CommitCorrection(c, olds)

-----------------------------------------------------------------------------

Next ==
    \/ \E b \in Block, context \in Context, finalized \in BOOLEAN :
          AppendHead(b, context, finalized)
    \/ \E l \in Log : AppendLog(l)
    \/ \E c \in Correction : Correct(c)

Spec == Init /\ [][Next]_vars

-----------------------------------------------------------------------------
(* Properties.                                                             *)

(* Every Redis value has the shape its readers parse.                      *)
TypeOK ==
    /\ headers \in [Block -> Context \cup {None}]
    /\ canonical_height \in [HeightField -> Block \cup {None}]
    /\ canonical_head \in Block \cup {None}
    /\ finalized_head \in Block \cup {None}
    /\ record_ids \subseteq RecordId
    /\ log_state \in [Log -> LogState]
    /\ block_logs \in [Block -> SUBSET Reference]
    /\ stream \in Seq(Record)
    /\ cursor \in Cursor \cup {None}
    /\ journal_usage \in [headers : Int, logReferences : Int]

(* The stored lifecycle state of a log is that of its last stream entry, so *)
(* a consumer that folds the stream by logicalLogId holds exactly the      *)
(* membership the journal holds (log_state writes of both scripts).        *)
LogStateFollowsStream ==
    \A l \in Log :
        LET state == log_state[l]
        IN  IF state.revision = 0
            THEN ~state.active /\ \A i \in DOMAIN stream : stream[i].log # l
            ELSE /\ state.entry \in DOMAIN stream
                 /\ stream[state.entry] =
                      LogRecord(IF state.active THEN "applied" ELSE "reverted",
                                l, state.revision, state.id)
                 /\ \A i \in DOMAIN stream : i > state.entry => stream[i].log # l

(* lifecycleRevision counts the transitions of a log without gaps, and      *)
(* transitions alternate: odd revisions apply, even ones revert.           *)
RevisionsAlternate ==
    /\ \A i \in DOMAIN stream :
          stream[i].log # None => (stream[i].op = "applied" <=> stream[i].revision % 2 = 1)
    /\ \A i, j \in DOMAIN stream :
          i < j /\ stream[i].log # None /\ stream[i].log = stream[j].log
            => stream[i].revision < stream[j].revision
    /\ \A l \in Log : \A n \in 1..log_state[l].revision :
          \E i \in DOMAIN stream : stream[i].log = l /\ stream[i].revision = n

(* The reference lists are the active logs: each active log is listed once, *)
(* under its own block and with its current record, and nothing else is.   *)
(* A later correction finds in them what it has to revert.                 *)
ReferencesAreActiveLogs ==
    \A b \in Block :
        block_logs[b] = {[log |-> l, id |-> log_state[l].id, entry |-> log_state[l].entry] :
                           l \in {k \in Log : BlockOf[k] = b /\ log_state[k].active}}

(* A recordId identifies one stream entry: record_ids indexes the stream    *)
(* and no entry is written twice, whatever is retried.                     *)
RecordIdsUnique ==
    /\ record_ids = {stream[i].id : i \in DOMAIN stream}
    /\ \A i, j \in DOMAIN stream : stream[i].id = stream[j].id => i = j

(* The entries of one correction are contiguous: begin, the announced      *)
(* number of reverts, the announced number of applies, commit, all of the  *)
(* same reorgId and no ordinary entry among them.                          *)
IsCorrectionAt(i) ==
    LET reorg == stream[i].id.reorg
        n == stream[i].reverted
        m == stream[i].applied
    IN  /\ i + n + m + 1 \in DOMAIN stream
        /\ n + m + 2 <= MaxEvents
        /\ stream[i + n + m + 1] = ControlRecord("correction_commit", reorg, n, m)
        /\ \A k \in (i + 1)..(i + n) :
              stream[k].op = "reverted" /\ stream[k].id = LifecycleRecordId(stream[k].log, "reverted", reorg)
        /\ \A k \in (i + n + 1)..(i + n + m) :
              stream[k].op = "applied" /\ stream[k].id = LifecycleRecordId(stream[k].log, "applied", reorg)

CorrectionFraming ==
    \A j \in DOMAIN stream :
        \/ stream[j].op = "applied" /\ stream[j].id = OriginRecordId(stream[j].log)
        \/ \E i \in 1..j :
              /\ stream[i].op = "correction_begin"
              /\ stream[i].id = ControlRecordId("correction_begin", stream[j].id.reorg)
              /\ j <= i + stream[i].reverted + stream[i].applied + 1
              /\ IsCorrectionAt(i)

(* Replies to a correction that stop the worker for good.                  *)
FatalReply == {"PARTIAL_REORG_STATE", "REORG_RECORD_EXISTS",
               "REORG_SOURCE_EVENT_MISMATCH", "REORG_LOG_STATE_MISMATCH"}

(* No plan that starts at the durable head is ever refused with an error   *)
(* recoverable_store_error does not retry: what the reference lists, the   *)
(* stream and log_state say of an old branch always agrees.                *)
NoFatalCorrection ==
    \A c \in {d \in Correction : canonical_head = OldTip(d)} :
        \A olds \in OldLogs(c) : CorrectionError(c, olds) \notin FatalReply

(* The retained-entity counters equal what is retained, so the capacity    *)
(* gauges never drift over appends and corrections.                        *)
UsageExact ==
    /\ journal_usage.headers = Cardinality({b \in Block : headers[b] # None})
    /\ journal_usage.logReferences = Cardinality(UNION {block_logs[b] : b \in Block})

(* The durable finality boundary stays on the canonical chain: no head and *)
(* no correction unmaps or replaces it, and the head never falls below it. *)
(* The head and every mapped block have a journaled header.                *)
FinalizedStaysCanonical ==
    /\ finalized_head # None =>
          /\ canonical_head # None
          /\ canonical_height[Decimal(Number[finalized_head])] = finalized_head
          /\ Number[finalized_head] <= Number[canonical_head]
    /\ canonical_head # None => headers[canonical_head] # None
    /\ \A f \in HeightField :
          canonical_height[f] # None =>
            f = Decimal(Number[canonical_height[f]]) /\ headers[canonical_height[f]] # None

(* A log at or below durable finality is never reverted.                   *)
FinalizedLogsStayActive ==
    [][\A l \in Log :
          log_state[l].active /\ ~log_state'[l].active =>
            finalized_head # None /\ Number[BlockOf[l]] > Number[finalized_head]]_vars

(* The recovery cursor moves back only with a committed correction.        *)
CursorRegressesOnlyByCorrection ==
    [][\/ cursor' = cursor
       \/ cursor = None
       \/ CursorBefore(cursor, cursor')
       \/ stream'[Len(stream')].op = "correction_commit" /\ stream' # stream]_vars

(* README: "A normal log append atomically validates deployment metadata   *)
(* and canonical membership": an appended log is never of a block other    *)
(* than the one the journal maps at its height.                            *)
AppendedLogsAreCanonical ==
    [][\A l \in Log :
          OriginRecordId(l) \in record_ids' \ record_ids =>
            canonical_height[Decimal(Number[BlockOf[l]])] \in {None, BlockOf[l]}]_vars

(* EVENT_DELIVERY.md: "The same branch may become active again after       *)
(* another fork. Its new `applied` transition then has a new `reorgId`":   *)
(* a correction that starts at the durable head is never answered as one   *)
(* that was committed before.  Refuted: a fork that happens again with the *)
(* same branches and logs has the reorgId of the first time.               *)
RepeatedForkIsNewReorg ==
    \A c \in Correction :
        canonical_head = OldTip(c) /\ finalized_head = c.finalized
          => CommitRecordId(c) \notin record_ids

=============================================================================
