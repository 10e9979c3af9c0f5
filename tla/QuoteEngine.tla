---------------------------- MODULE QuoteEngine ----------------------------
(***************************************************************************)
(* The client's QuoteIndexer (lunarbase-client/src/indexer/engine.rs and   *)
(* engine/) over its QuoteReducer (state/reducer.rs): applying heads, logs *)
(* and corrections, the optimistic history a correction rewinds with, the  *)
(* finalized floor, and bootstrap from a snapshot and buffered updates.    *)
(*                                                                         *)
(* Quote state is the set of logs it contains.  A log's Effect says what   *)
(* apply_event does with it: it changes the state, leaves it the same, is  *)
(* no quote event ("none"), or is refused until a snapshot covers it (an   *)
(* upgrade, an unknown lane).  Chain and Core identity are one value, the  *)
(* execution block number is part of the block, and the byte budgets are   *)
(* block budgets.  An operation is a function from the indexer to its      *)
(* result: whether it succeeded, and the indexer it leaves.                *)
(***************************************************************************)
EXTENDS Integers, Sequences, SequencesExt

CONSTANTS
    Block,        \* block hashes
    NoBlock,      \* an absent hash
    Parent,       \* parent of each block
    Number,       \* number of each block
    BlockOf,      \* block of each log
    Index,        \* position of each log in its block, from 0
    MaxBranch,    \* MAX_CORRECTION_BRANCH_BLOCKS
    Configs       \* configurations of source and chain

VARIABLE config   \* the configuration; it never changes

(* The Core logs with what each does: "change", "same", "none", "refuse".  *)
Effect == config.effect
Log == DOMAIN Effect
(* The source sequence of each block's updates, 0 when absent.             *)
Sequence == config.sequence
(* MAX_OPTIMISTIC_HISTORY_BLOCKS.                                          *)
MaxHistory == config.history

Realtime == 0
Canonical == 1
Finalized == 2

-----------------------------------------------------------------------------
(* ChainCursor: pos stands for the transaction and log index.              *)

AtBlock == -1
Cursor(number, hash, pos, seq, commitment) ==
    [number |-> number, hash |-> hash, pos |-> pos, seq |-> seq, commitment |-> commitment]
NoCursor == Cursor(-1, NoBlock, AtBlock, 0, Realtime)
BlockCursor(b, commitment) == Cursor(Number[b], b, AtBlock, Sequence[b], commitment)
LogCursor(l, commitment) ==
    Cursor(Number[BlockOf[l]], BlockOf[l], Index[l], Sequence[BlockOf[l]], commitment)

(* ChainCursor::event_order: an absent index counts as 0, the sequence     *)
(* only where both indices are absent.                                     *)
EventOrder(c) ==
    IF c.pos = AtBlock THEN <<c.number, 0, c.seq>> ELSE <<c.number, c.pos, 0>>
Precedes(a, b) ==
    \E i \in 1..3 : a[i] < b[i] /\ \A j \in 1..(i - 1) : a[j] = b[j]

SameBlock(a, b) == a.number = b.number /\ a.hash = b.hash
Identified(a, b) == SameBlock(a, b) /\ a.hash # NoBlock
Strongest(a, b) == IF a < b THEN b ELSE a

-----------------------------------------------------------------------------
(* QuoteReducer.                                                           *)

NewReducer(state) ==
    [state |-> state, cursor |-> NoCursor, eventCursor |-> NoCursor, event |-> NoBlock,
     ready |-> FALSE]
BootstrapReducer(state, cursor) ==
    [NewReducer(state) EXCEPT !.cursor = cursor, !.ready = TRUE]
RewindHead(r, head) ==
    [r EXCEPT !.cursor = head, !.eventCursor = NoCursor, !.event = NoBlock]

(* validate_head_against_event, validate_event_against_head and            *)
(* validate_event_successor: two cursors of one height that disagree.      *)
Unsequenced(a, b) == a.hash = NoBlock /\ b.hash = NoBlock /\ (a.seq = 0 \/ b.seq = 0)
HeadContradictsEvent(event, current, head) ==
    /\ event.number = head.number
    /\ head.number >= current.number
    /\ event.hash # head.hash \/ Unsequenced(event, head)
EventContradictsHead(head, event) ==
    /\ head.number = event.number
    /\ (head.hash # NoBlock /\ head.hash # event.hash) \/ Unsequenced(head, event)
EventContradictsPrevious(previous, event) ==
    /\ previous.number = event.number
    /\ previous.hash # event.hash \/ Unsequenced(previous, event)
RealtimeProgression(previous, next) ==
    previous.commitment = Realtime /\ next.commitment = Realtime /\ next.seq > previous.seq

(* observe_head.                                                           *)
HeadRefused(r, head) ==
    \/ HeadContradictsEvent(r.eventCursor, r.cursor, head)
    \/ /\ r.cursor.number = head.number /\ r.cursor.hash # head.hash
       /\ \/ head.hash = NoBlock
          \/ r.eventCursor.number = head.number
          \/ ~RealtimeProgression(r.cursor, head)
HeadObserved(r, head) ==
    CASE head.number < r.cursor.number -> r
      [] head.number = r.cursor.number ->
            [r EXCEPT !.cursor.hash = head.hash,
                      !.cursor.commitment = Strongest(@, head.commitment),
                      !.cursor.seq = Strongest(@, head.seq)]
      [] OTHER -> [r EXCEPT !.cursor = head]

(* apply_with_effect.                                                      *)
Repeated(r, c, l) == EventOrder(c) = EventOrder(r.eventCursor) /\ r.event = l
EventRefused(r, c, l) ==
    \/ EventContradictsHead(r.cursor, c)
    \/ EventContradictsPrevious(r.eventCursor, c)
    \/ Precedes(EventOrder(c), EventOrder(r.eventCursor))
    \/ EventOrder(c) = EventOrder(r.eventCursor) /\ r.event # l
    \/ ~Repeated(r, c, l) /\ Effect[l] = "refuse"
Changes(r, c, l) == ~Repeated(r, c, l) /\ Effect[l] = "change"
ApplyEvent(state, l) == IF Effect[l] = "change" THEN state \cup {l} ELSE state
CursorAfterEvent(head, c) ==
    CASE c.number < head.number -> [head EXCEPT !.seq = Strongest(@, c.seq)]
      [] c.number = head.number -> [c EXCEPT !.commitment = Strongest(@, head.commitment)]
      [] OTHER -> c
EventApplied(r, c, l) ==
    IF Repeated(r, c, l) THEN r
    ELSE [r EXCEPT !.state = ApplyEvent(@, l), !.eventCursor = c, !.event = l,
                   !.cursor = CursorAfterEvent(@, c)]

-----------------------------------------------------------------------------
(* OptimisticJournal: before-images of the blocks that changed the state,  *)
(* identities of the blocks observed, and the floor below which neither is *)
(* kept.                                                                   *)

EmptyHistory(floor) == [blocks |-> <<>>, identities |-> <<>>, rollback |-> floor]

NeedsCapture(h, c) == h.blocks = <<>> \/ ~SameBlock(Last(h.blocks).cursor, c)
EnforceLimits(h) ==
    IF Len(h.blocks) > MaxHistory
    THEN [h EXCEPT !.blocks = Tail(@), !.rollback = Head(h.blocks).cursor]
    ELSE h
CaptureBefore(h, c, before) ==
    EnforceLimits([h EXCEPT !.blocks = Append(@, [cursor |-> c, before |-> before])])

Above(cursors, number) == SelectSeq(cursors, LAMBDA c : c.number > number)
BlocksAbove(blocks, number) == SelectSeq(blocks, LAMBDA b : b.cursor.number > number)
AdvanceFloor(h, floor) ==
    [blocks |-> BlocksAbove(h.blocks, floor.number),
     identities |-> Above(h.identities, floor.number), rollback |-> floor]

RetainedAt(h, number) == {i \in DOMAIN h.identities : h.identities[i].number = number}

(* insert_identity: in height order, evicting the oldest beyond the bound. *)
InsertIdentity(h, c) ==
    LET lower == SelectSeq(h.identities, LAMBDA x : x.number <= c.number)
        all == Append(lower, c) \o Above(h.identities, c.number)
    IN  IF Len(all) <= MaxHistory THEN [h EXCEPT !.identities = all]
        ELSE [blocks |-> BlocksAbove(h.blocks, Head(all).number),
              identities |-> Tail(all), rollback |-> Head(all)]

(* Fault: the first identity seen at a height stays.                       *)
RecordIdentityOnce(h, c, replace) ==
    IF c.number <= h.rollback.number \/ RetainedAt(h, c.number) # {} THEN h
    ELSE InsertIdentity(h, c)

RecordIdentity(h, c, replace) ==
    IF c.number <= h.rollback.number THEN h
    ELSE IF RetainedAt(h, c.number) = {} THEN InsertIdentity(h, c)
    ELSE LET i == CHOOSE i \in RetainedAt(h, c.number) : TRUE
         IN  IF ~replace /\ SameBlock(h.identities[i], c) THEN h
             ELSE [h EXCEPT !.identities[i] = c]

(* validate_event_identity.                                                *)
EventIdentityRefused(h, c) ==
    IF RetainedAt(h, c.number) = {} THEN c.number <= h.rollback.number
    ELSE \E i \in RetainedAt(h, c.number) : h.identities[i].hash \notin {NoBlock, c.hash}

(* validate_rollback_floor, restore_point and validate_retained_branch.    *)
BelowFloor(floor, ancestor) ==
    \/ ancestor.number < floor.number
    \/ ancestor.number = floor.number /\ floor.hash # ancestor.hash
OnBranch(c, ancestor, branch) ==
    /\ c.number - ancestor.number \in DOMAIN branch
    /\ Identified(c, branch[c.number - ancestor.number])
RestoreRefused(h, ancestor, old) ==
    \/ BelowFloor(h.rollback, ancestor)
    \/ ancestor.number > h.rollback.number /\ RetainedAt(h, ancestor.number) = {}
    \/ \E i \in RetainedAt(h, ancestor.number) : ~Identified(h.identities[i], ancestor)
    \/ \E i \in DOMAIN h.identities :
          /\ h.identities[i].number > ancestor.number
          /\ ~OnBranch(h.identities[i], ancestor, old)
    \/ \E i \in DOMAIN h.blocks :
          /\ h.blocks[i].cursor.number > ancestor.number
          /\ ~OnBranch(h.blocks[i].cursor, ancestor, old)
(* Fault: the state of the old branch is kept.                             *)
RestoreReducerNot(h, ancestor, current) == current

RestoreReducer(h, ancestor, current) ==
    LET affected == BlocksAbove(h.blocks, ancestor.number)
    IN  IF affected = <<>> THEN current ELSE Head(affected).before
RewindAfter(h, ancestor) ==
    [h EXCEPT !.blocks = SelectSeq(@, LAMBDA b : b.cursor.number <= ancestor.number),
              !.identities = SelectSeq(@, LAMBDA c : c.number <= ancestor.number)]

-----------------------------------------------------------------------------
(* Chain updates and corrections.                                          *)

HeadUpdate(c) == [kind |-> "head", cursor |-> c]
LogUpdate(c, l) == [kind |-> "log", cursor |-> c, log |-> l, removed |-> FALSE]
RemovedLog(c, l) == [kind |-> "log", cursor |-> c, log |-> l, removed |-> TRUE]
ReorgUpdate(newHead) == [kind |-> "reorg", cursor |-> newHead]
GapUpdate(c) == [kind |-> "gap", cursor |-> c]
Barrier(u) == u.kind \in {"correction", "reorg", "gap"}

TipOf(ancestor, branch) == IF branch = <<>> THEN ancestor ELSE Last(branch)
CorrectionUpdate(correction) ==
    [kind |-> "correction", cursor |-> TipOf(correction.ancestor, correction.new),
     correction |-> correction]

(* ChainCorrection::validate.                                              *)
ValidBranch(ancestor, branch) ==
    \A i \in DOMAIN branch :
        /\ branch[i].hash # NoBlock
        /\ branch[i].number = ancestor.number + i
        /\ Parent[branch[i].hash] = (IF i = 1 THEN ancestor ELSE branch[i - 1]).hash
ValidReplacementLogs(k) ==
    \A i \in DOMAIN k.logs :
        /\ \E j \in DOMAIN k.new : /\ SameBlock(k.logs[i].cursor, k.new[j])
                                   /\ k.logs[i].cursor.commitment = k.new[j].commitment
        /\ i > 1 => Precedes(EventOrder(k.logs[i - 1].cursor), EventOrder(k.logs[i].cursor))
ValidCorrection(k) ==
    /\ Len(k.old) <= MaxBranch /\ Len(k.new) <= MaxBranch
    /\ \A i \in DOMAIN k.old : k.old[i].commitment # Finalized
    /\ ~Identified(TipOf(k.ancestor, k.old), TipOf(k.ancestor, k.new))
    /\ ValidBranch(k.ancestor, k.old) /\ ValidBranch(k.ancestor, k.new)
    /\ ValidReplacementLogs(k)

(* correction_fingerprint: sequences and commitments are left out.         *)
Fingerprint(k) ==
    [ancestor |-> k.ancestor.hash,
     old |-> [i \in DOMAIN k.old |-> k.old[i].hash],
     new |-> [i \in DOMAIN k.new |-> k.new[i].hash],
     logs |-> [i \in DOMAIN k.logs |-> k.logs[i].log]]
NoCorrection == [fingerprint |-> NoBlock, tip |-> NoCursor]

(* update_order and sort_chain_updates: updates are sorted between the     *)
(* control messages; at equal order a head comes first.                    *)
UpdateOrder(u) ==
    LET o == EventOrder(u.cursor)
    IN  <<o[1], o[2], o[3], IF u.kind = "head" THEN 0 ELSE 1>>
UpdatePrecedes(u, v) ==
    \E i \in 1..4 : /\ UpdateOrder(u)[i] < UpdateOrder(v)[i]
                    /\ \A j \in 1..(i - 1) : UpdateOrder(u)[j] = UpdateOrder(v)[j]
SortUpdates(updates) ==
    LET Split(acc, u) ==
            IF Barrier(u) THEN [done |-> acc.done \o SortSeq(acc.open, UpdatePrecedes) \o <<u>>,
                                open |-> <<>>]
            ELSE [acc EXCEPT !.open = Append(@, u)]
        split == FoldLeft(Split, [done |-> <<>>, open |-> <<>>], updates)
    IN  split.done \o SortSeq(split.open, UpdatePrecedes)

-----------------------------------------------------------------------------
(* QuoteIndexer.                                                           *)

NoCheckpoint == [cursor |-> NoCursor, state |-> {}]
NewIndexer ==
    [reducer |-> NewReducer({}), floor |-> NoCursor, checkpoint |-> NoCheckpoint,
     finalized |-> NoCursor, history |-> EmptyHistory(NoCursor), last |-> NoCorrection]
FromCheckpoint(checkpoint) ==
    [reducer |-> BootstrapReducer(checkpoint.state, checkpoint.cursor),
     floor |-> checkpoint.cursor, checkpoint |-> checkpoint,
     finalized |-> IF checkpoint.cursor.commitment = Finalized THEN checkpoint.cursor ELSE NoCursor,
     history |-> EmptyHistory(checkpoint.cursor), last |-> NoCorrection]

Accept(e) == [ok |-> TRUE, engine |-> e]
Refuse(e) == [ok |-> FALSE, engine |-> e]
MarkNotReady(e) == [e EXCEPT !.reducer.ready = FALSE]
PublishReady(e) == [e EXCEPT !.reducer.ready = TRUE]

(* The finalized floor: validate_finalized_update, record_finalized_update *)
(* and validate_floor_coverage.                                            *)
FinalityRefused(e, c) ==
    /\ c.commitment = Finalized
    /\ c.hash = NoBlock \/ (c.number = e.finalized.number /\ c.hash # e.finalized.hash)
RecordFinalized(e, c) ==
    IF c.commitment = Finalized /\ c.number > e.finalized.number
    THEN [e EXCEPT !.finalized = [c EXCEPT !.pos = AtBlock, !.seq = 0]]
    ELSE e
BelowFinalized(e, c) == BelowFloor(e.finalized, c)
FinalizedRecoveryRefused(e, snapshot) ==
    \/ BelowFinalized(e, snapshot)
    \/ snapshot.number = e.finalized.number /\ snapshot.commitment # Finalized

(* snapshot_covers of an update and canonical_floor_covers_log: two of the *)
(* three answers, neither of which is an error.                            *)
SnapshotCovers(c, snapshot) ==
    \/ c.number < snapshot.number
    \/ Identified(c, snapshot) /\ snapshot.commitment >= c.commitment
CoverageUnknown(c, snapshot) ==
    c.number = snapshot.number /\ (c.hash = NoBlock \/ snapshot.hash = NoBlock)
FloorCovers(c, floor) ==
    \/ c.number < floor.number
    \/ /\ Identified(c, floor)
       /\ floor.pos = AtBlock \/ ~Precedes(EventOrder(floor), EventOrder(c))
FloorContradicts(c, floor) == c.number = floor.number /\ ~Identified(c, floor)

(* apply_decoded_log.                                                      *)
WithIdentity(e, c) == [e EXCEPT !.history = RecordIdentity(@, c, FALSE)]
ApplyDecodedLog(e, c, l) ==
    IF FinalityRefused(e, c) \/ EventIdentityRefused(e.history, c) THEN Refuse(e)
    ELSE IF Effect[l] = "none" THEN Accept(RecordFinalized(WithIdentity(e, c), c))
    ELSE IF EventRefused(e.reducer, c, l) THEN Refuse(e)
    ELSE LET changed == Changes(e.reducer, c, l)
             captured == IF changed /\ NeedsCapture(e.history, c)
                         THEN CaptureBefore(e.history, c, e.reducer) ELSE e.history
             applied == [e EXCEPT !.reducer = EventApplied(@, c, l), !.history = captured,
                                  !.last = IF changed THEN NoCorrection ELSE @]
         IN  Accept(RecordFinalized(WithIdentity(applied, c), c))

(* apply_core_log_borrowed_validated.                                      *)
ApplyLog(e, u) ==
    IF u.removed THEN Refuse(MarkNotReady(e))
    ELSE IF FloorContradicts(u.cursor, e.floor) THEN Refuse(e)
    ELSE IF FloorCovers(u.cursor, e.floor) THEN Accept(e)
    ELSE LET result == ApplyDecodedLog(e, u.cursor, u.log)
         IN  IF result.ok THEN result ELSE Refuse(MarkNotReady(e))

(* The Head arm of apply_validated_update.                                 *)
ApplyHead(e, head) ==
    IF FinalityRefused(e, head) THEN Refuse(e)
    ELSE IF HeadRefused(e.reducer, head) THEN Refuse(MarkNotReady(e))
    ELSE LET observed == [e EXCEPT !.reducer = HeadObserved(@, head)]
             published == observed.reducer.cursor
             recorded == IF SameBlock(published, head)
                         THEN [observed EXCEPT !.history = RecordIdentity(@, published, TRUE)]
                         ELSE observed
         IN  Accept(RecordFinalized(recorded, head))

(* validate_correction_identity.                                           *)
CorrectionRefused(e, k) ==
    \/ BelowFloor(e.floor, k.ancestor)
    \/ ~Identified(e.reducer.cursor, TipOf(k.ancestor, k.old))
    \/ e.reducer.cursor.commitment = Finalized
    \/ BelowFinalized(e, k.ancestor)
    \/ ~e.reducer.ready
    \/ RestoreRefused(e.history, k.ancestor, k.old)

(* The rewound indexer a correction replays its logs on.                   *)
Rewound(e, k) ==
    LET rewound == RewindAfter(e.history, k.ancestor)
        reducer == RestoreReducer(e.history, k.ancestor, e.reducer)
    IN  [e EXCEPT !.reducer = RewindHead(reducer, k.ancestor),
                  !.history = FoldLeft(LAMBDA h, c : RecordIdentity(h, c, TRUE), rewound, k.new)]
ReplayLogs(e, logs) ==
    FoldLeft(LAMBDA r, x : IF r.ok THEN ApplyDecodedLog(r.engine, x.cursor, x.log) ELSE r,
             Accept(e), logs)

(* into_corrected_core and replace_with_correction.                        *)
ApplyCorrection(e, k) ==
    LET tip == TipOf(k.ancestor, k.new)
        known == e.last.fingerprint = Fingerprint(k)
        replayed == ReplayLogs(Rewound(e, k), k.logs)
        corrected == [replayed.engine EXCEPT
                         !.reducer.cursor = tip,
                         !.last = [fingerprint |-> Fingerprint(k), tip |-> tip]]
    IN  IF ~ValidCorrection(k) THEN Refuse(MarkNotReady(e))
        ELSE IF known /\ SnapshotCovers(e.last.tip, e.reducer.cursor) THEN Accept(e)
        ELSE IF Identified(e.reducer.cursor, tip)
             THEN IF known /\ e.last.tip = tip THEN Accept(e) ELSE Refuse(MarkNotReady(e))
        ELSE IF \/ CorrectionRefused(e, k)
                \/ ~replayed.ok
                \/ HeadRefused(replayed.engine.reducer, tip)
             THEN Refuse(MarkNotReady(e))
        ELSE Accept(RecordFinalized(corrected, tip))

(* apply_core_update_borrowed.                                             *)
ApplyUpdate(e, u) ==
    CASE u.kind = "head" -> ApplyHead(e, u.cursor)
      [] u.kind = "log" -> ApplyLog(e, u)
      [] u.kind = "correction" -> ApplyCorrection(e, u.correction)
      [] OTHER -> Refuse(MarkNotReady(e))

(* observe_covered_correction.                                             *)
CoveredCorrection(e, k) ==
    LET tip == TipOf(k.ancestor, k.new)
    IN  CASE tip.number < e.last.tip.number -> Accept(e)
          [] tip.number = e.last.tip.number ->
                IF e.last.fingerprint = Fingerprint(k) THEN Accept(e) ELSE Refuse(e)
          [] OTHER -> Accept([e EXCEPT !.last = [fingerprint |-> Fingerprint(k), tip |-> tip]])

(* The loop of bootstrap_normalized_ordered and of apply_handoff over      *)
(* buffered updates, given the cursor they start from.                     *)
ApplyBuffered(e, start, updates) ==
    LET Step(r, u) ==
            IF ~r.ok THEN r
            ELSE IF u.kind = "correction" /\ ~ValidCorrection(u.correction)
                 THEN Refuse(MarkNotReady(r.engine))
            ELSE IF u.cursor # NoCursor /\ CoverageUnknown(u.cursor, start) THEN Refuse(r.engine)
            ELSE IF u.cursor # NoCursor /\ SnapshotCovers(u.cursor, start)
                 THEN IF u.kind = "correction" THEN CoveredCorrection(r.engine, u.correction) ELSE r
            ELSE ApplyUpdate(r.engine, u)
        applied == FoldLeft(Step, Accept(e), SortUpdates(updates))
    IN  IF applied.ok THEN Accept(PublishReady(applied.engine)) ELSE applied

(* Fault: recovery starts from a new indexer, without the finalized block. *)
BootstrapAfresh(e, cursor, state, updates) ==
    LET fresh == [reducer |-> BootstrapReducer(state, cursor), floor |-> cursor,
                  checkpoint |-> [cursor |-> cursor, state |-> state],
                  finalized |-> RecordFinalized(NewIndexer, cursor).finalized,
                  history |-> EmptyHistory(cursor), last |-> NoCorrection]
    IN  ApplyBuffered(fresh, cursor, updates)

(* bootstrap_normalized_ordered.                                           *)
Bootstrap(e, cursor, state, updates) ==
    LET fresh == [reducer |-> BootstrapReducer(state, cursor), floor |-> cursor,
                  checkpoint |-> [cursor |-> cursor, state |-> state],
                  finalized |-> RecordFinalized(e, cursor).finalized,
                  history |-> EmptyHistory(cursor),
                  last |-> IF SnapshotCovers(e.last.tip, cursor) THEN e.last ELSE NoCorrection]
    IN  IF FinalizedRecoveryRefused(e, cursor) \/ FinalityRefused(e, cursor) THEN Refuse(e)
        ELSE ApplyBuffered(fresh, cursor, updates)

(* apply_handoff_borrowed_ordered.                                         *)
ApplyHandoff(e, updates) == ApplyBuffered(e, e.reducer.cursor, updates)

(* set_canonical_floor.                                                    *)
SetCanonicalFloor(e, c) ==
    IF Identified(e.reducer.cursor, c) /\ c.pos = AtBlock
    THEN Accept([e EXCEPT !.floor = c, !.history = AdvanceFloor(@, c),
                          !.checkpoint = [cursor |-> e.reducer.cursor, state |-> e.reducer.state]])
    ELSE Refuse(MarkNotReady(e))

=============================================================================
