-------------------------- MODULE CorrectionJournal --------------------------
(***************************************************************************)
(* The TypeScript indexer (packages/client/src/indexer/engine.ts) with its *)
(* undo journal (correction_journal.ts), its finality guard and its        *)
(* reducer: it applies logs and heads, keeps a before-image of every       *)
(* change within a block and a byte budget, and applies a resolved fork    *)
(* correction by undoing the orphaned blocks on a copy and replaying the   *)
(* replacement logs.                                                       *)
(*                                                                         *)
(* told is the chain as the source has told it: block n is told[n], with   *)
(* its hash, the number of its logs so far and the state of the contract   *)
(* after them.  The source: orders logs within a block and does not send a *)
(* log of a block below one that has logs; closes a block before it sends  *)
(* its finalized head; corrects only above what it finalized; sends valid  *)
(* correction envelopes (correction_validation.ts) that name the branch it *)
(* told; may send its last log or its last correction again.  headed is    *)
(* the highest block whose head it told, closed the one below which it     *)
(* sends no more logs, final the highest one it finalized.  Source         *)
(* sequence numbers and realtime hash progression are left out.            *)
(***************************************************************************)
EXTENDS LaneReducer, Sequences, SequencesExt, FiniteSetsExt

CONSTANTS InitState,       \* the contract's state at block 1
          Events,          \* the events the contract may emit
          BlockCapacity,   \* limits.blockCapacity
          ByteCapacity,    \* limits.byteCapacity
          MaxBlock,        \* blocks of a chain
          MaxLogs,         \* logs of a behaviour
          MaxCorrections,  \* corrections of a behaviour
          MaxBranch,       \* blocks a correction adds
          LogsLead         \* logs may be two blocks ahead of the heads

VARIABLES reducer,         \* QuoteReducer
          journal,         \* CorrectionJournal
          stable,          \* stableReducer: its state and cursor
          canonicalFloor,
          finality,        \* FinalityGuard.floor
          last,            \* last applied correction: fingerprint and tip
          told, headed, final, closed, sent, again, logs

env  == <<told, headed, final, closed, sent, again, logs>>
vars == <<reducer, journal, stable, canonicalFloor, finality, last,
          told, headed, final, closed, sent, again, logs>>

EntryOverhead == 192

CorrectionJournalOK ==
    /\ {BlockCapacity, MaxBlock} \subseteq Nat \ {0}
    /\ ByteCapacity \in Nat /\ ByteCapacity >= EntryOverhead + 256
    /\ {MaxLogs, MaxCorrections, MaxBranch} \subseteq Nat
    /\ LogsLead \in BOOLEAN
    /\ \A e \in Events : e.kind \in Kinds

Whole == -1   \* the log index of a block-level cursor
Cursor(number, hash, log, isFinal) ==
    [number |-> number, hash |-> hash, log |-> log, final |-> isFinal]
NoCursor == Cursor(0, 0, Whole, FALSE)
NoCorrection == [id |-> 0]
NoLog == [cursor |-> NoCursor, event |-> [kind |-> "None"]]

Identity(c) == Cursor(c.number, c.hash, Whole, FALSE)
SameBlock(c, d) == c.number = d.number /\ c.hash = d.hash
HashConflict(c, d) == c.number = d.number /\ c.hash # d.hash

(* compareCursor: a block-level cursor ranks with the block's first log. *)
Position(c) == IF c.log = Whole THEN 0 ELSE c.log
Before(c, d) ==
    \/ c.number < d.number
    \/ c.number = d.number /\ Position(c) < Position(d)

Tip == Len(told)
BlockCursor(n, isFinal) == Cursor(n, told[n].hash, Whole, isFinal)
Version == sent.id     \* the hash of the blocks told since the last correction

-----------------------------------------------------------------------------
(* The reducer. *)

Bootstrapped(st, c) ==
    [st |-> st, cursor |-> c, event |-> c, lastEvent |-> NoLog.event, head |-> c,
     ready |-> TRUE]

ObserveHeadFails(r, h) == HashConflict(r.event, h) \/ HashConflict(r.head, h)

(* A head below the last one is taken for the next. *)
ObserveHeadLower(r, h) ==
    CASE h.number # r.head.number -> [r EXCEPT !.head = h, !.cursor = h]
      [] OTHER -> [r EXCEPT !.head.final = @ \/ h.final, !.cursor.final = @ \/ h.final]

ObserveHead(r, h) ==
    CASE h.number < r.head.number -> r
      [] h.number > r.head.number -> [r EXCEPT !.head = h, !.cursor = h]
      [] OTHER ->
            LET next == [r.head EXCEPT !.final = @ \/ h.final]
            IN  [r EXCEPT !.head = next,
                          !.cursor = IF @.number <= h.number THEN next ELSE @]

AfterBoundary(r, c) == r.event.number = c.number /\ r.event.log = Whole /\ c.log # Whole

Repeated(r, c) == ~AfterBoundary(r, c) /\ ~Before(c, r.event) /\ ~Before(r.event, c)

ApplyFails(r, c, e) ==
    \/ HashConflict(r.head, c)
    \/ HashConflict(r.event, c)
    \/ ~AfterBoundary(r, c) /\ Before(c, r.event)
    \/ IF Repeated(r, c) THEN r.lastEvent # e ELSE Refused(r.st, e)

Apply(r, c, e) ==
    IF Repeated(r, c) THEN r
    ELSE LET known == {d \in {r.head, r.cursor} : d.number = c.number /\ d.final}
         IN  [r EXCEPT !.st = ApplyEvent(@, e), !.event = c, !.lastEvent = e,
                       !.cursor = IF Before(c, @) THEN @
                                  ELSE [c EXCEPT !.final = @ \/ known # {}]]

AppliedUndo(r, c, e) == IF Repeated(r, c) THEN NoUndo ELSE UndoOf(r.st, e)

-----------------------------------------------------------------------------
(* The journal. *)

NewJournal(c) ==
    [floor |-> Identity(c), blocks |-> <<>>, observed |-> <<>>, evicted |-> 0, bytes |-> 0]

ObservedAt(j, n) == {i \in DOMAIN j.observed : j.observed[i].number = n}

Observe(j, c) ==
    IF ObservedAt(j, c.number) # {}
    THEN [j EXCEPT !.observed =
             [i \in DOMAIN @ |-> IF i \in ObservedAt(j, c.number)
                                THEN Identity(c) ELSE @[i]]]
    ELSE IF Len(j.observed) < BlockCapacity
         THEN [j EXCEPT !.observed = Append(@, Identity(c))]
         ELSE [j EXCEPT !.observed = Append(Tail(@), Identity(c)),
                        !.evicted = IF Head(j.observed).number > @
                                    THEN Head(j.observed).number ELSE @]

MutationFails(j, c) ==
    \/ c.number <= j.evicted
    \/ \E i \in ObservedAt(j, c.number) : j.observed[i].hash # c.hash

SumBytes(blocks) == FoldLeft(LAMBDA n, b : n + b.bytes, 0, blocks)

Evict(j, n) ==
    IF n = 0 THEN j
    ELSE [j EXCEPT !.blocks = SubSeq(@, n + 1, Len(@)),
                   !.bytes = @ - SumBytes(SubSeq(j.blocks, 1, n)),
                   !.floor = j.blocks[n].cursor]

(* makeRoom: how many of the oldest entries have to go. *)
Evictions(j, bytes, addsBlock) ==
    {n \in 0 .. Len(j.blocks) :
        /\ addsBlock => Len(j.blocks) - n < BlockCapacity
        /\ bytes <= ByteCapacity - Evict(j, n).bytes}

Continues(j, c) == j.blocks # <<>> /\ Last(j.blocks).cursor.number = c.number

RecordFails(j, c, undo) ==
    IF Continues(j, c)
    THEN \/ Last(j.blocks).cursor.hash # c.hash
         \/ Evictions(j, UndoBytes(undo), FALSE) \subseteq {Len(j.blocks)}
    ELSE \/ j.blocks # <<>> /\ c.number < Last(j.blocks).cursor.number
         \/ EntryOverhead + UndoBytes(undo) > ByteCapacity

Entry(c, undo) ==
    [cursor |-> Identity(c), undos |-> <<undo>>, bytes |-> EntryOverhead + UndoBytes(undo)]

(* The bytes of a before-image added to an entry but not to the total. *)
RecordUncharged(j, c, undo) ==
    IF Continues(j, c)
    THEN LET k == Evict(j, Min(Evictions(j, UndoBytes(undo), FALSE)))
             n == Len(k.blocks)
         IN  [k EXCEPT !.blocks[n].undos = Append(@, undo),
                       !.blocks[n].bytes = @ + UndoBytes(undo)]
    ELSE LET k == Evict(j, Min(Evictions(j, EntryOverhead + UndoBytes(undo), TRUE)))
         IN  Observe([k EXCEPT !.blocks = Append(@, Entry(c, undo)),
                               !.bytes = @ + EntryOverhead + UndoBytes(undo)], c)

Record(j, c, undo) ==
    IF Continues(j, c)
    THEN LET k == Evict(j, Min(Evictions(j, UndoBytes(undo), FALSE)))
             n == Len(k.blocks)
         IN  [k EXCEPT !.blocks[n].undos = Append(@, undo),
                       !.blocks[n].bytes = @ + UndoBytes(undo),
                       !.bytes = @ + UndoBytes(undo)]
    ELSE LET k == Evict(j, Min(Evictions(j, EntryOverhead + UndoBytes(undo), TRUE)))
         IN  Observe([k EXCEPT !.blocks = Append(@, Entry(c, undo)),
                               !.bytes = @ + EntryOverhead + UndoBytes(undo)], c)

AncestorKept(j, a) ==
    \/ SameBlock(j.floor, a)
    \/ /\ a.number > j.floor.number
       /\ \A i \in DOMAIN j.blocks : ~HashConflict(j.blocks[i].cursor, a)
       /\ \/ \E i \in DOMAIN j.blocks : SameBlock(j.blocks[i].cursor, a)
          \/ \E i \in DOMAIN j.observed : SameBlock(j.observed[i], a)

OldBranchCovers(j, a, old) ==
    \A c \in {j.blocks[i].cursor : i \in DOMAIN j.blocks} \cup Range(j.observed) :
        c.number > a.number => \E i \in DOMAIN old : SameBlock(old[i], c)

AfterAncestor(j, a) == SelectSeq(j.blocks, LAMBDA b : b.cursor.number > a.number)

Rollback(st, j, a) ==
    FoldRight(LAMBDA b, s : FoldRight(LAMBDA u, t : RestoreReducerUndo(t, u), b.undos, s),
              AfterAncestor(j, a), st)

CandidateReducer(r, j, a) ==
    [r EXCEPT !.st = Rollback(r.st, j, a), !.cursor = a, !.event = a, !.head = a,
              !.lastEvent = NoLog.event]

CandidateJournal(j, a) ==
    LET kept == SelectSeq(j.blocks, LAMBDA b : b.cursor.number <= a.number)
    IN  [j EXCEPT !.blocks = kept, !.bytes = SumBytes(kept),
                  !.observed = SelectSeq(@, LAMBDA c : c.number <= a.number)]

-----------------------------------------------------------------------------
(* The indexer.  What it was asked to apply either succeeds or leaves the  *)
(* reducer not ready.                                                      *)

Fail ==
    /\ reducer' = [reducer EXCEPT !.ready = FALSE]
    /\ UNCHANGED <<journal, stable, canonicalFloor, finality, last>>

(* FinalityGuard.observe *)
FinalityFails(c) == c.final /\ HashConflict(finality, c)
Finalizes(c) == c.final /\ c.number >= finality.number

(* A finalized block taken for complete whatever the cursor. *)
ObserveFinalizedAlways(r, j, c, blockComplete) ==
    /\ reducer' = r
    /\ finality' = IF Finalizes(c) THEN [c EXCEPT !.log = Whole] ELSE finality
    /\ stable' = IF Finalizes(c) THEN [st |-> r.st, cursor |-> c] ELSE stable
    /\ canonicalFloor' = canonicalFloor
    /\ journal' = j

(* observeFinalized, after which the indexer is at r and j. *)
ObserveFinalized(r, j, c, blockComplete) ==
    LET settles == Finalizes(c) /\ blockComplete /\ SameBlock(r.cursor, c)
    IN  /\ reducer' = r
        /\ finality' = IF Finalizes(c) THEN [c EXCEPT !.log = Whole] ELSE finality
        /\ stable' = IF settles THEN [st |-> r.st, cursor |-> r.cursor] ELSE stable
        /\ canonicalFloor' = IF settles THEN c ELSE canonicalFloor
        /\ journal' = IF settles THEN NewJournal(c) ELSE j

FloorCovers(c) ==
    \/ c.number < canonicalFloor.number
    \/ /\ SameBlock(c, canonicalFloor)
       /\ canonicalFloor.log = Whole \/ ~Before(canonicalFloor, c)

(* applyLog on any reducer and journal; live is respectCanonicalFloor. *)
LogFails(r, j, c, e, live) ==
    \/ live /\ HashConflict(c, canonicalFloor)
    \/ /\ ~(live /\ FloorCovers(c))
       /\ \/ live /\ MutationFails(j, c)
          \/ ApplyFails(r, c, e)
          \/ AppliedUndo(r, c, e) # NoUndo /\ RecordFails(j, c, AppliedUndo(r, c, e))

LogUndo(r, c, e, live) ==
    IF live /\ FloorCovers(c) THEN NoUndo ELSE AppliedUndo(r, c, e)

LogReducer(r, c, e, live) == IF live /\ FloorCovers(c) THEN r ELSE Apply(r, c, e)

LogJournal(r, j, c, e, live) ==
    LET undo == LogUndo(r, c, e, live)
    IN  IF undo = NoUndo THEN j ELSE Record(j, c, undo)

(* applyCoreUpdate, case "Log" *)
ApplyCoreLog(c, e) ==
    IF LogFails(reducer, journal, c, e, TRUE) THEN Fail
    ELSE LET r == LogReducer(reducer, c, e, TRUE)
             h == IF c.final THEN ObserveHead(r, c) ELSE r
         IN  IF c.final /\ (ObserveHeadFails(r, c) \/ FinalityFails(c)) THEN Fail
             ELSE /\ ObserveFinalized(h, LogJournal(reducer, journal, c, e, TRUE), c, FALSE)
                  /\ last' = IF LogUndo(reducer, c, e, TRUE) # NoUndo
                             THEN NoCorrection ELSE last

(* applyCoreUpdate, case "Head" *)
ApplyCoreHead(h) ==
    IF ObserveHeadFails(reducer, h) \/ FinalityFails(h) THEN Fail
    ELSE LET r == ObserveHead(reducer, h)
             atHead == SameBlock(r.cursor, h)
         IN  /\ ObserveFinalized(r, IF atHead THEN Observe(journal, h) ELSE journal, h, atHead)
             /\ UNCHANGED last

(* applyCorrection.  The replacement logs are applied one after another to *)
(* the candidate; x is the candidate after some of them.                   *)
Replay(x, log) ==
    IF ~x.ok \/ LogFails(x.r, x.j, log.cursor, log.event, FALSE) THEN [x EXCEPT !.ok = FALSE]
    ELSE [ok |-> TRUE,
          r  |-> LogReducer(x.r, log.cursor, log.event, FALSE),
          j  |-> LogJournal(x.r, x.j, log.cursor, log.event, FALSE)]

AlreadyApplied(x, tip) ==
    /\ last.id = x.id
    /\ SameBlock(reducer.cursor, tip) \/ reducer.cursor.number > tip.number

NewTip(x) == IF x.new = <<>> THEN x.ancestor ELSE Last(x.new)
OldTip(x) == IF x.old = <<>> THEN x.ancestor ELSE Last(x.old)

(* A correction that trusts the source's ancestor. *)
CorrectionFitsAnywhere(x) ==
    /\ x.ancestor.number > finality.number \/ SameBlock(x.ancestor, finality)
    /\ ~SameBlock(reducer.cursor, NewTip(x))
    /\ ~reducer.cursor.final
    /\ SameBlock(reducer.cursor, OldTip(x))

(* FinalityGuard.validateCorrection and validateCorrectionState, when the  *)
(* current tip is not the new tip.                                         *)
CorrectionFits(x) ==
    /\ x.ancestor.number > finality.number \/ SameBlock(x.ancestor, finality)
    /\ ~SameBlock(reducer.cursor, NewTip(x))
    /\ ~reducer.cursor.final
    /\ \A i \in DOMAIN x.old : ~x.old[i].final
    /\ SameBlock(reducer.cursor, OldTip(x))
    /\ AncestorKept(journal, x.ancestor)
    /\ OldBranchCovers(journal, x.ancestor, x.old)

ApplyCorrection(x) ==
    IF AlreadyApplied(x, NewTip(x)) THEN UNCHANGED <<reducer, journal, stable, canonicalFloor, finality, last>>
    ELSE IF ~CorrectionFits(x) THEN Fail
    ELSE LET y == FoldLeft(Replay,
                           [ok |-> TRUE, r |-> CandidateReducer(reducer, journal, x.ancestor),
                            j |-> CandidateJournal(journal, x.ancestor)], x.logs)
             tip == NewTip(x)
         IN  IF ~y.ok \/ ObserveHeadFails(y.r, tip) \/ FinalityFails(tip) THEN Fail
             ELSE /\ ObserveFinalized(ObserveHead(y.r, tip), FoldLeft(Observe, y.j, x.new),
                                      tip, TRUE)
                  /\ last' = [id |-> x.id, tip |-> tip]

(* A replacement that forgets the finalized floor already proven. *)
InstallForgettingFinality(st, c) ==
    /\ reducer' = Bootstrapped(st, c)
    /\ journal' = NewJournal(c)
    /\ stable' = [st |-> st, cursor |-> c]
    /\ canonicalFloor' = c
    /\ finality' = IF c.final THEN c ELSE NoCursor
    /\ last' = NoCorrection

(* installSnapshot, without buffered updates (see ConnectedClient). *)
InstallSnapshot(st, c) ==
    /\ reducer' = Bootstrapped(st, c)
    /\ journal' = NewJournal(c)
    /\ stable' = [st |-> st, cursor |-> c]
    /\ canonicalFloor' = c
    /\ finality' = IF c.final THEN c ELSE finality
    /\ last' = IF /\ last.id # 0
                  /\ \/ last.tip.number < c.number
                     \/ SameBlock(last.tip, c) /\ (last.tip.final => c.final)
               THEN last ELSE NoCorrection

-----------------------------------------------------------------------------
(* The source, and the updates it sends. *)

Init ==
    /\ told = <<[hash |-> 0, count |-> 0, st |-> InitState]>>
    /\ headed = 1 /\ final = 0 /\ closed = 1
    /\ sent = NoCorrection /\ again = NoLog /\ logs = 0
    /\ LET c == Cursor(1, 0, Whole, FALSE)
       IN  /\ reducer = Bootstrapped(InitState, c)
           /\ journal = NewJournal(c)
           /\ stable = [st |-> InitState, cursor |-> c]
           /\ canonicalFloor = c
    /\ finality = NoCursor
    /\ last = NoCorrection

NextBlock == [hash |-> Version, count |-> 0, st |-> Last(told).st]

Log(b, e, isFinal) ==
    LET block == IF b > Tip THEN NextBlock ELSE told[b]
        c == Cursor(b, block.hash, block.count, isFinal)
        st == ApplyEvent(block.st, e)
    IN  /\ reducer.ready
        /\ logs < MaxLogs /\ b <= MaxBlock /\ b > closed
        /\ LogsLead \/ b <= headed + 1
        /\ b <= final => isFinal
        /\ \A n \in b + 1 .. Tip : told[n].count = 0
        /\ ~Impossible(block.st, e)
        /\ ApplyCoreLog(c, e)
        /\ told' = [n \in 1 .. (IF b > Tip THEN b ELSE Tip) |->
                       IF n < b THEN told[n]
                       ELSE IF n = b THEN [block EXCEPT !.count = @ + 1, !.st = st]
                       ELSE [told[n] EXCEPT !.st = st]]
        /\ final' = IF isFinal THEN b ELSE final
        /\ headed' = IF isFinal /\ b > headed THEN b ELSE headed
        /\ again' = [cursor |-> c, event |-> e]
        /\ logs' = logs + 1
        /\ UNCHANGED <<closed, sent>>

LogAgain ==
    /\ reducer.ready
    /\ again # NoLog
    /\ ApplyCoreLog(again.cursor, again.event)
    /\ UNCHANGED env

HeadOf(b, isFinal) ==
    /\ reducer.ready
    /\ b <= MaxBlock
    /\ IF b <= headed THEN isFinal /\ b >= final /\ (b > final \/ b > closed)
                      ELSE b = headed + 1
    /\ ApplyCoreHead(IF b > Tip THEN Cursor(b, Version, Whole, isFinal) ELSE BlockCursor(b, isFinal))
    /\ told' = IF b > Tip THEN Append(told, NextBlock) ELSE told
    /\ final' = IF isFinal THEN b ELSE final
    /\ closed' = IF isFinal /\ b > closed THEN b ELSE closed
    /\ headed' = IF b > headed THEN b ELSE headed
    /\ UNCHANGED <<sent, again, logs>>

(* The blocks after the ancestor a: one per member of es, with its log if  *)
(* it has one.                                                             *)
NoEvent == NoLog.event
Extend(chain, e) ==
    Append(chain, [hash |-> sent.id + 1, count |-> IF e = NoEvent THEN 0 ELSE 1,
                   st |-> IF e = NoEvent THEN Last(chain).st ELSE ApplyEvent(Last(chain).st, e)])

BranchFrom(a, es) == FoldLeft(Extend, SubSeq(told, 1, a), es)

PossibleBranch(a, es) ==
    \A i \in DOMAIN es :
        es[i] # NoEvent => ~Impossible(Last(BranchFrom(a, SubSeq(es, 1, i - 1))).st, es[i])

Envelope(a, es, isFinal) ==
    LET new(i) == Cursor(a + i, sent.id + 1, Whole, isFinal)
        logOf(i) == [cursor |-> Cursor(a + i, sent.id + 1, 0, isFinal), event |-> es[i]]
    IN  [id |-> sent.id + 1,
         ancestor |-> BlockCursor(a, FALSE),
         old |-> [i \in 1 .. Tip - a |-> BlockCursor(a + i, FALSE)],
         new |-> [i \in DOMAIN es |-> new(i)],
         logs |-> SelectSeq([i \in DOMAIN es |-> logOf(i)], LAMBDA l : l.event # NoEvent)]

Correct(a, es, isFinal) ==
    /\ reducer.ready
    /\ sent.id < MaxCorrections
    /\ a >= final /\ a + Len(es) <= MaxBlock
    /\ es = <<>> => ~isFinal
    /\ PossibleBranch(a, es)
    /\ LET x == Envelope(a, es, isFinal)
       IN  /\ logs + Len(x.logs) <= MaxLogs
           /\ ApplyCorrection(x)
           /\ sent' = x
           /\ logs' = logs + Len(x.logs)
    /\ told' = BranchFrom(a, es)
    /\ headed' = a + Len(es)
    /\ final' = IF isFinal THEN a + Len(es) ELSE final
    /\ closed' = IF isFinal THEN a + Len(es) ELSE IF closed > a THEN a ELSE closed
    /\ again' = NoLog

CorrectAgain ==
    /\ reducer.ready
    /\ sent # NoCorrection
    /\ ApplyCorrection(sent)
    /\ UNCHANGED env

Recover ==
    /\ ~reducer.ready
    /\ InstallSnapshot(Last(told).st, BlockCursor(Tip, Tip <= final))
    /\ headed' = Tip
    /\ closed' = Tip
    /\ UNCHANGED <<told, final, sent, again, logs>>

Branches == UNION {[1 .. n -> Events \cup {NoEvent}] : n \in 0 .. MaxBranch}

Next ==
    \/ \E b \in {Tip - 1, Tip, Tip + 1}, e \in Events, isFinal \in BOOLEAN :
          b >= 1 /\ Log(b, e, isFinal)
    \/ LogAgain
    \/ \E b \in 1 .. Tip + 1, isFinal \in BOOLEAN : HeadOf(b, isFinal)
    \/ \E a \in 1 .. Tip - 1, es \in Branches, isFinal \in BOOLEAN : Correct(a, es, isFinal)
    \/ CorrectAgain
    \/ Recover

Spec == Init /\ [][Next]_vars

-----------------------------------------------------------------------------
IsCursor(c) ==
    c.number \in 0 .. MaxBlock /\ c.hash \in 0 .. MaxCorrections /\ c.final \in BOOLEAN

(* The variables have their types. *)
TypeOK ==
    /\ \A c \in {reducer.cursor, reducer.event, reducer.head, stable.cursor,
                   canonicalFloor, finality, journal.floor} : IsCursor(c)
    /\ reducer.ready \in BOOLEAN
    /\ journal.evicted \in 0 .. MaxBlock
    /\ final \in 0 .. MaxBlock /\ closed \in 0 .. MaxBlock /\ logs \in 0 .. MaxLogs

(* A ready indexer quotes from the state of the chain it was told: every   *)
(* log of it applied once, none of an orphaned block left behind, whatever *)
(* corrections, repetitions and evictions came before.                     *)
ReadyIsTold ==
    reducer.ready =>
        /\ reducer.st = Last(told).st
        /\ SameBlock(reducer.cursor, BlockCursor(Tip, FALSE))

(* Every block the journal would accept as an ancestor can be rolled back  *)
(* to exactly: the before-images it retains lead from the current state to *)
(* the state after that block.                                             *)
RollbackIsExact ==
    reducer.ready =>
        \A b \in 1 .. Tip :
            AncestorKept(journal, BlockCursor(b, FALSE)) =>
                Rollback(reducer.st, journal, BlockCursor(b, FALSE)) = told[b].st

(* The checkpoint a ready client hands out is the complete state of a      *)
(* block of the chain it was told.                                         *)
CheckpointIsTold ==
    reducer.ready =>
        /\ stable.cursor.number <= Tip
        /\ SameBlock(stable.cursor, BlockCursor(stable.cursor.number, FALSE))
        /\ stable.st = told[stable.cursor.number].st

(* The journal's counted bytes are those of its entries, and neither they  *)
(* nor its entries exceed the limits.                                      *)
BudgetHeld ==
    /\ journal.bytes = SumBytes(journal.blocks)
    /\ journal.bytes <= ByteCapacity
    /\ Len(journal.blocks) <= BlockCapacity /\ Len(journal.observed) <= BlockCapacity

(* The verified router's fees are those of assets the state quotes, also   *)
(* after a lane was removed, its removal undone or its fee set again late. *)
PartnerAssetsQuoted ==
    DOMAIN reducer.st.router.fees \subseteq DOMAIN reducer.st.lanes \cup {Cash}

(* The finalized floor the indexer has proven (finality_guard.ts) neither  *)
(* moves back nor changes hash, also across a recovery that installs a     *)
(* snapshot of its own.                                                    *)
FinalityHolds ==
    [][/\ finality'.number >= finality.number
       /\ finality'.number = finality.number => finality'.hash = finality.hash]_vars

(* The cursor of a ready indexer moves back only for a correction,         *)
(* whatever finalized heads of lower blocks arrive                         *)
(* (QuoteReducer.observeHead; docs/SPECIFICATION.md:57, "Cursors never     *)
(* move backward.").  Refuted when LogsLead: a head is compared with the   *)
(* last head, not with the cursor.                                         *)
CursorNeverRegresses ==
    [][reducer.ready /\ reducer'.cursor.number < reducer.cursor.number => sent' # sent]_vars
=============================================================================
