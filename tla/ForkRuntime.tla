---------------------------- MODULE ForkRuntime ----------------------------
(***************************************************************************)
(* The fork runtime of the event worker over its durable journal:          *)
(* reconcile, seed, observe_head and the upstream corrections of           *)
(* runtime/forks.rs with their window (ForkWindow), the replacement logs   *)
(* they fetch, and the Redis commands they send (EventJournal).            *)
(*                                                                         *)
(* A provider follows one chain of the block tree and may switch between   *)
(* any two of the worker's requests.  A Redis command is one step; its     *)
(* reply may be lost after it took effect.  A crash, or a shutdown and     *)
(* restart, at any step keeps Redis and nothing else.  How updates reach   *)
(* the worker is WorkerRuntime's concern.                                  *)
(***************************************************************************)
EXTENDS ForkWindow

CONSTANTS
    MaxNumber, Context, Log, BlockOf, Index, MaxIndex, MaxEvents, MaxStream,
    PageBlocks,     \* backfill_page_blocks
    Modes,          \* records commitment, stale: see MinCommitment, StaleUpdates
    MaxMoves,       \* bound on moves of the provider
    MaxFaults       \* bound on lost replies, failed requests and crashes

VARIABLES
    headers, canonical_height, canonical_head, finalized_head, record_ids,
    log_state, block_logs, stream, cursor, journal_usage,
    node,   \* the provider: its tip, its finalized block, its moves, whether its
            \* source repeats itself; and the minimum_commitment configured for it
    fork,   \* ForkRuntime: window, finalized, loaded
    task,   \* what the worker is doing
    faults  \* failures so far

J == INSTANCE EventJournal

journal == <<headers, canonical_height, canonical_head, finalized_head, record_ids,
             log_state, block_logs, stream, cursor, journal_usage>>
vars == <<journal, node, fork, task, faults>>

(* minimum_commitment, Realtime or Canonical.                              *)
MinCommitment == node.commitment

(* Updates of blocks already journaled or abandoned are delivered.         *)
StaleUpdates == node.stale

ASSUME ForkAssumption ==
    /\ {PageBlocks, WindowBlocks} \subseteq Nat \ {0}
    /\ Modes \subseteq [commitment : {Realtime, Canonical}, stale : BOOLEAN]
    /\ MaxMoves \in Nat /\ MaxFaults \in Nat

(* b and its ancestors.                                                    *)
Line(b) == {Ancestor(b, n) : n \in 0..MaxNumber} \ {None}

Chain(b, from, to) == {a \in Line(b) : from <= Number[a] /\ Number[a] <= to}

(* The logs of the provider's chain in a range of numbers.                 *)
ChainLogs(b, from, to) == {l \in Log : BlockOf[l] \in Chain(b, from, to)}

(* A set of logs in event order.                                           *)
Ordered(logs) ==
    CHOOSE s \in [1..Cardinality(logs) -> logs] :
        \A i, j \in DOMAIN s : i < j => J!CursorBefore(J!LogCursor(s[i]), J!LogCursor(s[j]))

Blocks(refs) == [i \in DOMAIN refs |-> refs[i].block]

-----------------------------------------------------------------------------
(* The fork runtime at start, and the worker's task.                       *)

NewFork == [window |-> EmptyWindow, finalized |-> None, loaded |-> FALSE]

Idle(pc, target) ==
    [pc |-> pc, target |-> target, final |-> None, resolution |-> None,
     todo |-> <<>>, logs |-> {}, page |-> 0, install |-> EmptyWindow,
     finalized |-> None, correction |-> None, then |-> "backfill"]

Init ==
    /\ J!Init
    /\ \E tip \in Block, mode \in Modes :
          \E final \in Line(tip) :
             node = [tip |-> tip, final |-> final, moves |-> 0,
                     commitment |-> mode.commitment, stale |-> mode.stale]
    /\ fork = NewFork
    /\ task = Idle("recover", None)
    /\ faults = 0

Fault == faults < MaxFaults /\ faults' = faults + 1
NoFault == faults' = faults

(* A failed recovery is retried with the target it had; after a failed     *)
(* live update, target is None already.                                    *)
Fail == task' = Idle("recover", task.target)
FailUnless(error, A) == IF error = "none" THEN A ELSE Fail /\ UNCHANGED fork

-----------------------------------------------------------------------------
(* redis_store/window.rs and ensure_loaded.                                *)

MappedHeights == {n \in J!Height : canonical_height[J!Decimal(n)] # None}

(* The heights of the unbroken suffix below the durable head, at most      *)
(* fork_window_blocks of them.                                             *)
SuffixHeights ==
    {n \in MappedHeights :
        /\ n <= Number[canonical_head] /\ n + WindowBlocks > Number[canonical_head]
        /\ \A m \in n..Number[canonical_head] : m \in MappedHeights}

DurableBlocks ==
    [i \in 1..Cardinality(SuffixHeights) |->
        Ref(canonical_height[J!Decimal(Min(SuffixHeights) + i - 1)], Canonical)]

(* The replies of load that stop the worker.                               *)
LoadIsFatal ==
    IF canonical_head = None THEN finalized_head # None
    ELSE \/ headers[canonical_head] = None
         \/ canonical_height[J!Decimal(Number[canonical_head])] # canonical_head
         \/ \E i \in DOMAIN DurableBlocks : headers[DurableBlocks[i].block] = None
         \/ ~Contiguous(DurableBlocks)
         \/ finalized_head # None /\ headers[finalized_head] = None

(* The window load_window and ensure_loaded build.                         *)
LoadedWindow ==
    IF canonical_head = None THEN EmptyWindow
    ELSE IF finalized_head = None THEN PushAll(DurableBlocks)
    ELSE Finalize(PushAll(DurableBlocks), Ref(finalized_head, Finalized))

LoadError ==
    IF canonical_head # None /\ finalized_head # None
       /\ Position(PushAll(DurableBlocks), finalized_head) = 0
    THEN "BlockBudget" ELSE "none"

EnsureLoaded ==
    /\ task.pc = "recover"
    /\ NoFault
    /\ IF fork.loaded THEN task' = [task EXCEPT !.pc = "final"] /\ UNCHANGED fork
       ELSE IF LoadIsFatal THEN task' = [task EXCEPT !.pc = "fatal"] /\ UNCHANGED fork
       ELSE FailUnless(LoadError,
               /\ fork' = [window |-> LoadedWindow, loaded |-> TRUE,
                           finalized |-> IF finalized_head = None THEN None
                                         ELSE Ref(finalized_head, Finalized)]
               /\ task' = [task EXCEPT !.pc = "final"])
    /\ UNCHANGED <<journal, node>>

(* finalized_tip, then the tip the worker wants: two provider requests.    *)
ReadFinalized ==
    /\ \/ task.pc = "final" /\ NoFault
          /\ task' = [task EXCEPT !.pc = "desired", !.final = Ref(node.final, Finalized)]
       \/ task.pc \in {"final", "desired"} /\ Fault /\ Fail
    /\ UNCHANGED <<journal, node, fork>>

-----------------------------------------------------------------------------
(* Parts of reconcile.                                                     *)

SameBlock(refs, ref) == \E i \in DOMAIN refs : refs[i].block = ref.block

(* Persist heads one by one, then install a window and go on.  reconcile,  *)
(* seed and advance_finalized give the window up meanwhile; observe_head   *)
(* keeps it.                                                               *)
PersistHeads(refs, window, finalized, then) ==
    task' = [task EXCEPT !.pc = "heads", !.todo = refs, !.install = window,
                         !.finalized = finalized, !.then = then]

(* Mutant: the window is kept while a command is under way.                *)
UnloadNot == UNCHANGED fork

Unload == fork' = [fork EXCEPT !.loaded = FALSE]

(* advance_finalized: the boundary is journaled before it is installed.    *)
AdvanceError(window, ref) ==
    IF Position(window, ref.block) = 0 THEN "FinalizedConflict"
    ELSE IF fork.finalized # None /\ Number[ref.block] <= Number[fork.finalized.block]
    THEN "FinalizedConflict" ELSE FinalizeError(window, ref)

AdvanceFinalized(window, ref, then) ==
    IF fork.finalized # None /\ fork.finalized.block = ref.block
    THEN fork' = [fork EXCEPT !.window = window] /\ task' = [task EXCEPT !.pc = then]
    ELSE IF AdvanceError(window, ref) # "none"
    THEN fork' = [fork EXCEPT !.window = window] /\ Fail
    ELSE /\ fork' = [fork EXCEPT !.window = window, !.loaded = FALSE]
         /\ PersistHeads(<<ref>>, Finalize(window, ref), ref, then)

(* seed: the headers from the finalized block to the tip.                  *)
SeedRefs(desired, final) ==
    LET n == Number[desired.block] - Number[final.block]
    IN  [i \in 1..(n + 1) |->
            IF i = 1 THEN final ELSE Ref(Ancestor(desired.block, n + 1 - i), desired.commitment)]

SeedError(desired, final) ==
    LET n == Number[desired.block] - Number[final.block]
    IN  IF n < 0 THEN "FinalizedConflict"
        ELSE IF n >= WindowBlocks \/ n >= MaxDepth THEN "BlockBudget"
        ELSE IF Ancestor(desired.block, n) # final.block THEN "FinalizedConflict"
        ELSE PushError(SeedRefs(desired, final))

Seed(desired, final) ==
    FailUnless(SeedError(desired, final),
        Unload /\ PersistHeads(SeedRefs(desired, final),
                               Finalize(PushAll(SeedRefs(desired, final)), final),
                               final, "backfill"))

(* prepare_finalized: the provider's boundary must not be on the branch    *)
(* that is given up; it is advanced now, or after the switch.              *)
PrepareFinalized(r, final) ==
    IF SameBlock(r.old, final) THEN Fail /\ UNCHANGED fork
    ELSE IF SameBlock(fork.window.blocks, final)
    THEN AdvanceFinalized(fork.window, final, "switch")
    ELSE IF SameBlock(r.new, final)
    THEN task' = [task EXCEPT !.pc = "switch"] /\ UNCHANGED fork
    ELSE Fail /\ UNCHANGED fork

(* The tip by hash or the provider's tip: seed an empty window, confirm    *)
(* the same tip, or resolve the new one.                                   *)
Reconcile ==
    /\ task.pc = "desired" /\ NoFault
    /\ LET desired == IF task.target = None THEN Ref(node.tip, Canonical) ELSE task.target
       IN  IF IsEmpty(fork.window) THEN Seed(desired, task.final)
           ELSE IF Tip(fork.window).block = desired.block
           THEN IF Tip(fork.window) # desired
                THEN FailUnless(ProgressiveError(fork.window, desired),
                        AdvanceFinalized(ReplaceTip(fork.window, desired), task.final, "backfill"))
                ELSE AdvanceFinalized(fork.window, task.final, "backfill")
           ELSE FailUnless(ResolveError(fork.window, desired),
                   /\ task' = [task EXCEPT !.pc = "prepare",
                                           !.resolution = Resolve(fork.window, desired)]
                   /\ UNCHANGED fork)
    /\ UNCHANGED <<journal, node>>

Prepare ==
    /\ task.pc = "prepare" /\ NoFault
    /\ PrepareFinalized(task.resolution, task.final)
    /\ UNCHANGED <<journal, node>>

(* After the switch the boundary may still have to advance.                *)
AfterSwitch == IF SameBlock(task.resolution.new, task.final) THEN "finish" ELSE "backfill"

(* resolved_window, then an extension or a correction.                     *)
Switch ==
    /\ task.pc = "switch" /\ NoFault
    /\ LET r == task.resolution
           next == ApplyResolution(fork.window, r)
       IN  FailUnless(ApplyError(fork.window, r),
               IF r.old = <<>> THEN Unload /\ PersistHeads(r.new, next, fork.finalized, AfterSwitch)
               ELSE IF fork.finalized = None THEN Fail /\ UNCHANGED fork
               ELSE /\ task' = [task EXCEPT !.pc = "fetch", !.install = next,
                                            !.finalized = fork.finalized, !.then = AfterSwitch,
                                            !.page = Number[r.ancestor.block] + 1]
                    /\ UNCHANGED fork)
    /\ UNCHANGED <<journal, node>>

Finish ==
    /\ task.pc = "finish" /\ NoFault
    /\ AdvanceFinalized(fork.window, task.final, "backfill")
    /\ UNCHANGED <<journal, node>>

-----------------------------------------------------------------------------
(* persist.rs: head.                                                       *)

(* Mutant: the window is not installed.                                    *)
HeadsDoneStale ==
    /\ fork' = [fork EXCEPT !.finalized = task.finalized, !.loaded = TRUE]
    /\ task' = [task EXCEPT !.pc = task.then, !.todo = <<>>]

HeadsDone ==
    /\ fork' = [window |-> task.install, finalized |-> task.finalized, loaded |-> TRUE]
    /\ task' = [task EXCEPT !.pc = task.then, !.todo = <<>>]

(* One head after the other: below the minimum commitment it is not        *)
(* journaled, a lost reply is retried, a refusal asks for recovery.        *)
PersistHead ==
    /\ task.pc = "heads" /\ task.todo # <<>>
    /\ LET ref == Head(task.todo)
           next == task' = [task EXCEPT !.todo = Tail(@)]
       IN  \/ ref.commitment < MinCommitment /\ next /\ NoFault /\ UNCHANGED journal
           \/ /\ ref.commitment >= MinCommitment
              /\ \E context \in Context :
                    \/ J!AppendHead(ref.block, context, ref.commitment = Finalized)
                       /\ ((next /\ NoFault) \/ (UNCHANGED task /\ Fault))
                    \/ J!HeadError(ref.block, context, ref.commitment = Finalized) # "none"
                       /\ Fail /\ NoFault /\ UNCHANGED journal
    /\ UNCHANGED <<node, fork>>

InstallWindow ==
    /\ task.pc = "heads" /\ task.todo = <<>> /\ HeadsDone
    /\ UNCHANGED <<journal, node, faults>>

-----------------------------------------------------------------------------
(* forks/replacement.rs: the logs of the new branch by number ranges, each *)
(* checked against the resolved branch.                                    *)

ReplacementPageEnd ==
    Min({task.page + PageBlocks - 1, Number[task.resolution.newTip.block]})

(* Mutant: a page is not compared with the resolved branch.                *)
PageAcceptedUnchecked(page) == Cardinality(task.logs \cup page) <= MaxEvents - 2

PageAccepted(page) ==
    /\ \A l \in page : SameBlock(task.resolution.new, Ref(BlockOf[l], Canonical))
    /\ Cardinality(task.logs \cup page) <= MaxEvents - 2

(* What ReorgCorrection::new makes of a resolution.                        *)
CorrectionOf(r, finalized, logs, context) ==
    [reorg |-> [ancestor |-> r.ancestor.block, old |-> Blocks(r.old), new |-> Blocks(r.new),
                context |-> context, logs |-> Ordered(logs)],
     finalized |-> finalized.block]

ReplacementLogs ==
    /\ task.pc = "fetch"
    /\ \/ Fault /\ Fail /\ UNCHANGED fork
       \/ LET page == ChainLogs(node.tip, task.page, ReplacementPageEnd)
          IN  /\ NoFault
              /\ IF ~PageAccepted(page) THEN Fail /\ UNCHANGED fork
                 ELSE IF ReplacementPageEnd < Number[task.resolution.newTip.block]
                 THEN /\ task' = [task EXCEPT !.logs = @ \cup page,
                                              !.page = ReplacementPageEnd + 1]
                      /\ UNCHANGED fork
                 ELSE /\ Unload
                      /\ \E context \in Context :
                            task' = [task EXCEPT !.pc = "correct", !.correction =
                                        CorrectionOf(task.resolution, fork.finalized,
                                                     task.logs \cup page, context)]
    /\ UNCHANGED <<journal, node>>

-----------------------------------------------------------------------------
(* store.correct and what the worker makes of the reply.                   *)

(* Mutant: a log that is active already stops the worker.                  *)
RecoverableReplyPartial == {"REORG_STALE_HEAD", "REORG_FINALIZED_MISMATCH",
                            "REORG_OLD_BRANCH_MISMATCH", "BUDGET", "OOM"}

(* recoverable_store_error, and Redis errors, which are retried.           *)
RecoverableReply == {"REORG_STALE_HEAD", "REORG_FINALIZED_MISMATCH",
                     "REORG_OLD_BRANCH_MISMATCH", "LOG_ALREADY_ACTIVE", "BUDGET", "OOM"}

CorrectionReply(c) ==
    IF J!OldLogs(c) = {} THEN "BUDGET"
    ELSE J!CorrectionError(c, CHOOSE olds \in J!OldLogs(c) : TRUE)

Commits(c) == \E olds \in J!OldLogs(c) : J!CommitCorrection(c, olds)

(* A correction of reconcile is sent once: any failure loads the window    *)
(* again.                                                                  *)
CorrectOnce ==
    /\ task.pc = "correct"
    /\ LET reply == CorrectionReply(task.correction)
       IN  \/ reply = "none" /\ Commits(task.correction) /\ HeadsDone /\ NoFault
           \/ reply = "none" /\ Commits(task.correction) /\ Fault /\ Fail /\ UNCHANGED fork
           \/ reply # "none" /\ UNCHANGED journal /\ NoFault
              /\ IF reply = "duplicate" THEN HeadsDone
                 ELSE IF reply \in RecoverableReply THEN Fail /\ UNCHANGED fork
                 ELSE task' = [task EXCEPT !.pc = "fatal"] /\ UNCHANGED fork
    /\ UNCHANGED node

(* A correction of the source is sent until Redis answers.                 *)
CorrectUpstream ==
    /\ task.pc = "upstream"
    /\ LET reply == CorrectionReply(task.correction)
           done == fork' = [fork EXCEPT !.window = task.install]
       IN  \/ /\ reply = "none" /\ Commits(task.correction)
              /\ \/ done /\ task' = Idle("live", None) /\ NoFault
                 \/ UNCHANGED <<fork, task>> /\ Fault
           \/ reply # "none" /\ UNCHANGED journal /\ NoFault
              /\ IF reply = "duplicate" THEN done /\ task' = Idle("live", None)
                 ELSE IF reply \in RecoverableReply THEN Fail /\ UNCHANGED fork
                 ELSE task' = [task EXCEPT !.pc = "fatal"] /\ UNCHANGED fork
    /\ UNCHANGED node

-----------------------------------------------------------------------------
(* recover, after reconcile: the provider's logs from the cursor's block.  *)

CoveredByCursor(l) ==
    /\ cursor # None
    /\ \/ Number[BlockOf[l]] < Number[cursor.block]
       \/ Number[BlockOf[l]] = Number[cursor.block] /\ Index[l] <= cursor.index

Backfill ==
    /\ task.pc = "backfill"
    /\ \/ Fault /\ Fail
       \/ /\ NoFault
          /\ IF cursor # None /\ Number[cursor.block] > Number[node.tip] THEN Fail
             ELSE task' = [Idle("logs", task.target) EXCEPT
                              !.logs = {l \in ChainLogs(node.tip, 0, MaxNumber) : ~CoveredByCursor(l)}]
    /\ UNCHANGED <<journal, node, fork>>

(* persist::log of the next log; refused logs ask for recovery.            *)
PersistLog ==
    /\ task.pc = "logs"
    /\ IF task.logs = {} THEN task' = Idle("live", None) /\ UNCHANGED journal
       ELSE LET l == Ordered(task.logs)[1]
            IN  \/ /\ J!AppendLog(l) \/ (J!LogError(l) = "duplicate" /\ UNCHANGED journal)
                   /\ task' = [task EXCEPT !.logs = @ \ {l}]
                \/ /\ J!LogError(l) \in {"LOG_ON_NONCANONICAL_BLOCK", "LOG_ALREADY_ACTIVE"}
                   /\ task' = Idle("recover", Ref(BlockOf[l], Canonical))
                   /\ UNCHANGED journal
    /\ UNCHANGED <<node, fork, faults>>

-----------------------------------------------------------------------------
(* Live updates.                                                           *)

LiveRecovers(target) == task' = Idle("recover", target) /\ UNCHANGED fork

LiveHeads(ref, window) ==
    /\ task' = [Idle("heads", None) EXCEPT !.todo = <<ref>>, !.install = window,
                                           !.finalized = fork.finalized, !.then = "live"]
    /\ UNCHANGED fork

(* observe_head.                                                           *)
ObserveHead(ref) ==
    IF ~fork.loaded \/ IsEmpty(fork.window) THEN LiveRecovers(ref)
    ELSE IF ref.commitment = Finalized THEN AdvanceFinalized(fork.window, ref, "live")
    ELSE IF Tip(fork.window).block = ref.block
    THEN IF Tip(fork.window) = ref THEN LiveHeads(ref, fork.window)
         ELSE IF ProgressiveError(fork.window, ref) # "none" THEN LiveRecovers(None)
         ELSE LiveHeads(ref, ReplaceTip(fork.window, ref))
    ELSE IF Links(Tip(fork.window).block, ref.block)
    THEN IF HeadError(fork.window, ref) # "none" THEN LiveRecovers(None)
         ELSE LiveHeads(ref, PushHead(fork.window, ref))
    ELSE LiveRecovers(ref)

(* The heads a feed reports: the provider's tip, blocks of its chain that  *)
(* not retained and not final for the worker, and the finalized block.     *)
Heads ==
    {Ref(b, c) : b \in {d \in Line(node.tip) :
                         \/ d = node.tip \/ StaleUpdates
                         \/ /\ Position(fork.window, d) = 0
                            /\ fork.finalized # None => Number[d] > Number[fork.finalized.block]},
                c \in {Realtime, Canonical}}
    \cup {Ref(node.final, Finalized)}

LiveHead ==
    /\ task.pc = "live"
    /\ \E ref \in Heads : ObserveHead(ref)
    /\ UNCHANGED <<journal, node, faults>>

LiveTip == LiveHead /\ ObserveHead(Ref(node.tip, Canonical))

(* The feed delivers the logs of a chain in order.                         *)
LiveLog ==
    /\ task.pc = "live"
    /\ \E l \in {k \in Log : BlockOf[k] \in Line(node.tip)} :
          /\ StaleUpdates \/ ~log_state[l].active
          /\ \A k \in Log : BlockOf[k] \in Line(node.tip)
                /\ J!CursorBefore(J!LogCursor(k), J!LogCursor(l)) => log_state[k].active
          /\ task' = [task EXCEPT !.pc = "logs", !.logs = {l}]
    /\ UNCHANGED <<journal, node, fork, faults>>

(* Recovery at the provider's tip, or at the block of a removed log.       *)
LiveRecovery ==
    /\ task.pc = "live" /\ Fault
    /\ \/ \E target \in {None, Ref(node.tip, Canonical)} : LiveRecovers(target)
       \/ StaleUpdates /\ \E l \in Log : BlockOf[l] \notin Line(node.tip)
                                         /\ LiveRecovers(Ref(BlockOf[l], Canonical))
    /\ UNCHANGED <<journal, node>>

-----------------------------------------------------------------------------
(* forks/upstream.rs: a correction the source has resolved.                *)

(* validate_durable_branch: "duplicate", "current" or an error.            *)
DurableBranch(r) ==
    LET w == fork.window
        at == Position(w, r.ancestor.block)
    IN  IF IsEmpty(w) THEN "error"
        ELSE IF Tip(w).block = r.newTip.block THEN "duplicate"
        ELSE IF at = 0 \/ Tip(w).block # r.oldTip.block
                \/ Blocks(SubSeq(w.blocks, at + 1, Len(w.blocks))) # Blocks(r.old)
        THEN "error" ELSE "current"

(* validate_finality.                                                      *)
FinalityValid(r, duplicate) ==
    LET a == r.ancestor.block
        f == fork.finalized
    IN  /\ f # None /\ fork.window.finalized # None
        /\ f.block = fork.window.finalized.block
        /\ duplicate \/ ~(Number[a] < Number[f.block] \/ (Number[a] = Number[f.block] /\ a # f.block))

(* corrected_window resolves against the retained refs.                    *)
Rebased(r) ==
    LET at == Position(fork.window, r.ancestor.block)
    IN  [r EXCEPT !.ancestor = fork.window.blocks[at], !.oldTip = Tip(fork.window),
                  !.old = SubSeq(fork.window.blocks, at + 1, Len(fork.window.blocks))]

(* A correction the source publishes for its switch from old to new, which *)
(* part at the ancestor.                                                   *)
SourceResolutions ==
    {[ancestor |-> Ref(a, Canonical), oldTip |-> Ref(J!TipOf(a, old), Canonical),
      newTip |-> Ref(J!TipOf(a, new), Canonical),
      old |-> [i \in DOMAIN old |-> Ref(old[i], Canonical)],
      new |-> [i \in DOMAIN new |-> Ref(new[i], Canonical)]] :
        <<a, old, new>> \in {t \in Block \X J!Branch \X J!Branch :
            /\ t[2] \in J!BranchesFrom(t[1]) /\ t[3] \in J!BranchesFrom(t[1])
            /\ t[3] # <<>> /\ (t[2] = <<>> \/ t[2][1] # t[3][1])}}

ApplyUpstream(r) ==
    LET kind == DurableBranch(r)
        logs == {l \in Log : SameBlock(r.new, Ref(BlockOf[l], Canonical))}
        recover == LiveRecovers(r.newTip)
    IN  IF ~fork.loaded \/ kind = "error" \/ ~FinalityValid(r, kind = "duplicate")
           \/ Cardinality(logs) + 2 > MaxEvents
        THEN recover
        ELSE IF kind = "current" /\ ApplyError(fork.window, Rebased(r)) # "none" THEN recover
        ELSE /\ UNCHANGED fork
             /\ \E context \in Context :
                   task' = [Idle("upstream", r.newTip) EXCEPT
                       !.correction = CorrectionOf(r, fork.finalized, logs, context),
                       !.install = IF kind = "duplicate" THEN fork.window
                                   ELSE ApplyResolution(fork.window, Rebased(r))]

UpstreamCorrection ==
    /\ task.pc = "live" /\ Fault
    /\ \E r \in SourceResolutions : (StaleUpdates \/ r.newTip.block = node.tip) /\ ApplyUpstream(r)
    /\ UNCHANGED <<journal, node>>

-----------------------------------------------------------------------------
(* The environment.                                                        *)

NodeMoves ==
    /\ node.moves < MaxMoves
    /\ \/ \E b \in Block \ {node.tip} :
             /\ node.final \in Line(b)
             /\ b \notin Line(node.tip)
             /\ node' = [node EXCEPT !.tip = b, !.moves = @ + 1]
       \/ \E b \in Line(node.tip) :
             /\ Number[b] > Number[node.final]
             /\ node' = [node EXCEPT !.final = b, !.moves = @ + 1]
    /\ UNCHANGED <<journal, fork, task, faults>>

Crash ==
    /\ Fault /\ task.pc # "fatal"
    /\ fork' = NewFork /\ task' = Idle("recover", None)
    /\ UNCHANGED <<journal, node>>

Work ==
    \/ EnsureLoaded \/ ReadFinalized \/ Reconcile \/ Prepare \/ Switch \/ Finish
    \/ PersistHead \/ InstallWindow \/ ReplacementLogs \/ CorrectOnce \/ CorrectUpstream
    \/ Backfill \/ PersistLog

Next == Work \/ LiveHead \/ LiveLog \/ LiveRecovery \/ UpstreamCorrection \/ NodeMoves \/ Crash

Spec == Init /\ [][Next]_vars

(* The worker's task is scheduled and its requests are answered; the head  *)
(* of the provider's tip is in the update queue whenever the worker is     *)
(* live, however often other updates come before it.                       *)
FairSpec == Spec /\ WF_vars(Work /\ NoFault) /\ SF_vars(LiveTip)

-----------------------------------------------------------------------------

TypeOK ==
    /\ node.tip \in Block /\ node.final \in Line(node.tip)
    /\ fork.window \in Window /\ fork.finalized \in BlockRef \cup {None}
    /\ fork.loaded \in BOOLEAN /\ Len(fork.window.blocks) <= WindowBlocks
    /\ faults \in 0..MaxFaults

(* Every Redis command the fork runtime sends is one EventJournal allows:  *)
(* a correction starts at a journaled ancestor not below durable finality, *)
(* whatever the provider answered in between.  So all that is shown of     *)
(* EventJournal holds of the running worker.                               *)
JournalSpec == J!Spec

(* No sequence of provider switches, lost replies and restarts makes Redis *)
(* answer with an error that ends the process: what load_window reads is   *)
(* consistent and every refused correction can be recovered from.          *)
NeverFatal == task.pc # "fatal"

(* When heads of every commitment are journaled and no update of an        *)
(* abandoned block is delivered, the window live updates are checked       *)
(* against is the durable canonical chain: same blocks, same tip, same     *)
(* finality boundary.                                                      *)
WindowIsDurable ==
    MinCommitment = Realtime /\ ~StaleUpdates
    /\ fork.loaded /\ ~IsEmpty(fork.window) /\ task.pc = "live" =>
        /\ Tip(fork.window).block = canonical_head
        /\ \A i \in DOMAIN fork.window.blocks :
              LET b == fork.window.blocks[i].block
              IN  canonical_height[J!Decimal(Number[b])] = b
        /\ fork.finalized # None => fork.finalized.block = finalized_head

OnDurableChain(l) == canonical_height[J!Decimal(Number[BlockOf[l]])] = BlockOf[l]

(* EVENT_DELIVERY.md: a branch that becomes active again is applied again. *)
(* Refuted: a log that was reverted and whose block returns as an ordinary *)
(* head has its origin record, so its append is taken for a duplicate.     *)
CanonicalLogsNotReverted ==
    \A l \in Log : OnDurableChain(l) /\ log_state[l].revision > 0 => log_state[l].active

(* The provider settles with unfinalized blocks, its source does not       *)
(* repeat itself, it never falls back to an ancestor of the window's tip,  *)
(* and no log was appended whose block is not on the durable chain.        *)
Settles ==
    /\ ~StaleUpdates
    /\ <>[](node.final # node.tip)
    /\ [](Position(fork.window, node.tip) \in {0, Len(fork.window.blocks)})
    /\ [](\A l \in Log : log_state[l].active => OnDurableChain(l))

(* The block the worker recovers towards is on the unfinalized part of the *)
(* provider's chain.                                                       *)
TargetIsCanonical ==
    task.target # None => task.target.block \in Line(node.tip) \ Line(node.final)

(* Once the provider settles and failures stop, reconcile, the replacement *)
(* logs and the correction bring the worker to the provider's tip, live,   *)
(* again and again.                                                        *)
Converges ==
    Settles /\ []TargetIsCanonical => []<>(task.pc = "live" /\ canonical_head = node.tip)

(* EVENT_DELIVERY.md: "readiness is false only for that recovery           *)
(* interval".  Refuted: a provider that switches between reconcile and     *)
(* backfill, and a head queued while the worker recovered past it, leave a *)
(* recovery that the journal refuses for ever.                             *)
RecoveryEnds == <>[](node.final # node.tip) => []<>(task.pc = "live")

=============================================================================
