--------------------------- MODULE QuoteIndexing ---------------------------
(***************************************************************************)
(* The client's indexer fed by a source that follows a provider: live      *)
(* updates, canonical recovery (indexer/tasks.rs and tasks/recovery_*.rs), *)
(* and connection from a checkpoint or a snapshot (indexer/client.rs,      *)
(* checkpoint_recovery.rs, bootstrap_handoff.rs).                          *)
(*                                                                         *)
(* Admission, queue permits and the watchdog are QuoteRuntime's subject;   *)
(* here a client is available when it is live and its reducer is ready.    *)
(* The wire stands for transport and queue: it keeps its order and is cut  *)
(* by a Gap when the connection is lost.                                   *)
(***************************************************************************)
EXTENDS QuoteEngine, FiniteSets

CONSTANTS
    Root,          \* the block the chain starts at
    MaxWire        \* bound on the updates on the wire when one is sent

VARIABLES
    chain,      \* the provider: its tip and its finalized block
    wire,       \* updates sent and not yet handled
    connected,  \* whether the subscription is open
    mode,       \* "connect", "live" or "recover"
    engine,     \* the published QuoteIndexer
    stage,      \* RecoveryStage
    answer,     \* progress of the current attempt to recover or connect
    stored,     \* the durable checkpoint
    budget      \* moves, faults and restarts so far

vars == <<chain, wire, connected, mode, engine, stage, answer, stored, budget, config>>

(* The commitment the source gives to heads and logs.                      *)
Commitment == config.commitment
(* How a change of branch is reported.                                     *)
Reports == config.reports
(* Whether heights are announced before their hash is known.               *)
Proposals == config.proposals
(* Whether the HTTP provider may answer with an older block.               *)
SnapshotLags == config.lags
(* Bounds on changes of branch, lost or repeated updates, and restarts.    *)
Bound(kind) == config.bounds[kind]

-----------------------------------------------------------------------------
(* The block tree and the provider's answers.                              *)

Path[b \in Block] == IF b = Root THEN {b} ELSE Path[Parent[b]] \cup {b}
AtHeight(b, n) == CHOOSE x \in Path[b] : Number[x] = n
Fork(a, b) == CHOOSE x \in Path[a] \cap Path[b] :
                  \A y \in Path[a] \cap Path[b] : Number[y] <= Number[x]
Branch(from, to) ==
    [i \in 1..(Number[to] - Number[from]) |-> BlockCursor(AtHeight(to, Number[from] + i), Commitment)]

LogsIn(blocks) == {l \in Log : BlockOf[l] \in blocks}
Ordered(logs) ==
    SetToSortSeq(logs, LAMBDA a, b : Precedes(EventOrder(LogCursor(a, Canonical)),
                                              EventOrder(LogCursor(b, Canonical))))
(* The quote state of a block, as its contract storage would show it.      *)
StateAt(b) == {l \in LogsIn(Path[b]) : Effect[l] \in {"change", "refuse"}}

(* The tag is "latest": heads, snapshots and backfills are Canonical.      *)
CanonicalHead == BlockCursor(chain.tip, Canonical)
SnapshotBlocks == IF SnapshotLags THEN Path[chain.tip] ELSE {chain.tip}
(* validate_checkpoint: the block at that height is the checkpoint's.      *)
ValidateCheckpoint(c) == c.hash \in Path[chain.tip]

-----------------------------------------------------------------------------
(* RecoveryStage.                                                          *)

NoStage == [queued |-> <<>>, published |-> NoCursor, required |-> NoCursor,
            needsHead |-> FALSE, conflict |-> FALSE, floors |-> {}]

(* merge_required: the later requirement, or a conflict of identities.     *)
RequirementConflict(required, c) ==
    /\ required # NoCursor /\ required.number = c.number
    /\ \/ required.hash = NoBlock \/ c.hash = NoBlock
       \/ required.hash # c.hash /\ Finalized \in {required.commitment, c.commitment}
LaterRequirement(required, c) ==
    LET strong == IF SameBlock(required, c)
                  THEN [c EXCEPT !.commitment = Strongest(@, required.commitment)] ELSE c
        earlier == Precedes(EventOrder(c), EventOrder(required))
    IN  IF earlier /\ Identified(required, c)
        THEN [required EXCEPT !.commitment = Strongest(@, c.commitment)]
        ELSE IF earlier \/ ( /\ EventOrder(c) = EventOrder(required)
                             /\ strong.commitment < required.commitment )
        THEN required
        ELSE strong
MergeRequired(st, c) ==
    IF RequirementConflict(st.required, c) THEN [st EXCEPT !.conflict = TRUE]
    ELSE [st EXCEPT !.required = LaterRequirement(@, c)]

(* Fault: a Gap without a cursor asks for nothing.                         *)
RequireCursor(st, u) == MergeRequired(st, u.cursor)

(* push, of the failed update and of the updates absorbed after it.        *)
Require(st, u) ==
    IF u.kind = "gap" /\ u.cursor = NoCursor THEN [st EXCEPT !.needsHead = TRUE]
    ELSE MergeRequired(st, u.cursor)
StageFailed(u, prior, floors) ==
    Require([NoStage EXCEPT !.queued = <<u>>, !.published = prior, !.floors = floors], u)
StagePush(st, u) ==
    [st EXCEPT !.queued = Append(@, u),
               !.needsHead = @ \/ (u.kind = "gap" /\ u.cursor = NoCursor)]
SetCanonicalHead(st, head) ==
    LET Located(u) == IF u.kind = "gap" /\ u.cursor = NoCursor THEN GapUpdate(head) ELSE u
    IN  [MergeRequired(st, head) EXCEPT
            !.queued = [i \in DOMAIN st.queued |-> Located(st.queued[i])],
            !.needsHead = FALSE]
RequireAllUpdates(st) == FoldLeft(Require, st, st.queued)

(* Fault: a snapshot of a lower block is accepted.                         *)
PublishedSnapshotCoversAny(published, snapshot) == snapshot.commitment >= published.commitment

(* published_snapshot_covers and snapshot_covers of the stage; an error is *)
(* one more attempt that fails.                                            *)
PublishedSnapshotCovers(published, snapshot) ==
    \/ published.number < snapshot.number
    \/ /\ published.number = snapshot.number
       /\ published.hash # NoBlock
       /\ snapshot.commitment >= published.commitment
       /\ \/ published.hash = snapshot.hash
          \/ published.commitment # Finalized /\ snapshot.commitment >= Canonical
StageCovered(st, snapshot) ==
    /\ ~st.conflict
    /\ PublishedSnapshotCovers(st.published, snapshot)
    /\ PublishedSnapshotCovers(st.required, snapshot)

-----------------------------------------------------------------------------
NoAnswer == [step |-> "none", cursor |-> NoCursor, leased |-> TRUE, engine |-> NewIndexer]
Answer(step, cursor, e) == [answer EXCEPT !.step = step, !.cursor = cursor, !.engine = e]

Init ==
    /\ chain = [tip |-> Root, finalized |-> Root]
    /\ wire = <<>>
    /\ connected = FALSE
    /\ mode = "connect"
    /\ engine = NewIndexer
    /\ stage = NoStage
    /\ answer = NoAnswer
    /\ stored = NoCheckpoint
    /\ budget = [moves |-> 0, faults |-> 0, restarts |-> 0]
    /\ config \in Configs

-----------------------------------------------------------------------------
(* The provider and the source.                                            *)

Send(updates) ==
    /\ Len(wire) <= MaxWire
    /\ wire' = IF connected THEN wire \o updates ELSE wire
Spend(kind) == budget[kind] < Bound(kind) /\ budget' = [budget EXCEPT ![kind] = @ + 1]

LogUpdates(logs) ==
    LET ordered == Ordered(logs)
    IN  [i \in DOMAIN ordered |-> LogUpdate(LogCursor(ordered[i], Commitment), ordered[i])]
Announcement(b) == HeadUpdate(BlockCursor(b, Commitment))
(* A height announced before its block is complete has no hash.            *)
Proposal(b) == HeadUpdate([BlockCursor(b, Realtime) EXCEPT !.hash = NoBlock, !.seq = @ - 1])

Extend(b) ==
    /\ b # Root /\ Parent[b] = chain.tip
    /\ chain' = [chain EXCEPT !.tip = b]
    /\ \/ Send(LogUpdates(LogsIn({b})) \o <<Announcement(b)>>)
       \/ Send(<<Announcement(b)>> \o LogUpdates(LogsIn({b})))
       \/ Proposals /\ LogsIn({b}) = {} /\ Send(<<Proposal(b), Announcement(b)>>)
    /\ UNCHANGED <<connected, mode, engine, stage, answer, stored, budget, config>>

CorrectionTo(b) ==
    LET ancestor == Fork(chain.tip, b)
        new == Branch(ancestor, b)
        logs == Ordered(LogsIn(Path[b] \ Path[ancestor]))
    IN  [ancestor |-> BlockCursor(ancestor, Commitment), old |-> Branch(ancestor, chain.tip),
         new |-> new,
         logs |-> [i \in DOMAIN logs |-> [cursor |-> LogCursor(logs[i], Commitment), log |-> logs[i]]]]
(* A retracted log ends the stream.                                        *)
Retraction ==
    LET l == Ordered(LogsIn({chain.tip}))[1]
        c == LogCursor(l, Commitment)
    IN  <<RemovedLog(c, l), GapUpdate(c), GapUpdate(NoCursor)>>

(* The provider follows another branch; with "rollback" also a lower one.  *)
Move(b) ==
    /\ chain.finalized \in Path[b]
    /\ chain.tip \notin Path[b]
    /\ Number[b] >= Number[chain.tip] \/ "rollback" \in Reports
    /\ chain' = [chain EXCEPT !.tip = b]
    /\ Spend("moves")
    /\ \/ /\ "correction" \in Reports /\ Send(<<CorrectionUpdate(CorrectionTo(b))>>)
          /\ UNCHANGED <<connected, answer>>
       \/ /\ "reorg" \in Reports
          /\ Send(<<ReorgUpdate(BlockCursor(b, Commitment)), Announcement(b)>> \o LogUpdates(LogsIn({b})))
          /\ UNCHANGED <<connected, answer>>
       \/ /\ "removed" \in Reports /\ connected /\ LogsIn({chain.tip}) # {}
          /\ Send(Retraction)
          /\ connected' = FALSE
          /\ answer' = [answer EXCEPT !.leased = (answer.step = "none")]
       \/ /\ "progress" \in Reports /\ Parent[b] = Parent[chain.tip]
          /\ Sequence[b] > Sequence[chain.tip]
          /\ Send(<<Announcement(b)>> \o LogUpdates(LogsIn({b})))
          /\ UNCHANGED <<connected, answer>>
    /\ UNCHANGED <<mode, engine, stage, stored, config>>

Finalize(b) ==
    /\ b \in Path[chain.tip] /\ Number[b] > Number[chain.finalized]
    /\ chain' = [chain EXCEPT !.finalized = b]
    /\ Send(<<HeadUpdate(BlockCursor(b, Finalized))>>)
    /\ UNCHANGED <<connected, mode, engine, stage, answer, stored, budget, config>>

(* The last update is sent once more.                                      *)
Repeat ==
    /\ wire # <<>> /\ connected
    /\ Spend("faults")
    /\ Send(<<Last(wire)>>)
    /\ UNCHANGED <<chain, connected, mode, engine, stage, answer, stored, config>>

Disconnect ==
    /\ connected
    /\ Spend("faults")
    /\ connected' = FALSE
    /\ \E n \in 0..Len(wire) : wire' = Append(SubSeq(wire, 1, n), GapUpdate(NoCursor))
    /\ answer' = [answer EXCEPT !.leased = (answer.step = "none")]
    /\ UNCHANGED <<chain, mode, engine, stage, stored, config>>

Reconnect ==
    /\ ~connected
    /\ connected' = TRUE
    /\ UNCHANGED <<chain, wire, mode, engine, stage, answer, stored, budget, config>>

-----------------------------------------------------------------------------
(* The reducer loop.                                                       *)

(* finalized_validation_checkpoint and stable_checkpoint.                  *)
ValidationFloors(e) ==
    {e.checkpoint.cursor} \cup
        (IF e.finalized.number > e.checkpoint.cursor.number THEN {e.finalized} ELSE {})

Deliver ==
    /\ mode = "live" /\ wire # <<>>
    /\ wire' = Tail(wire)
    /\ LET result == ApplyUpdate(engine, Head(wire))
       IN  IF result.ok
           THEN engine' = result.engine /\ UNCHANGED <<mode, stage, answer>>
           ELSE /\ engine' = MarkNotReady(result.engine)
                /\ mode' = "recover"
                /\ stage' = StageFailed(Head(wire), engine.reducer.cursor, ValidationFloors(engine))
                /\ answer' = NoAnswer
    /\ UNCHANGED <<chain, connected, stored, budget, config>>

Absorb ==
    /\ mode = "recover" /\ wire # <<>>
    /\ wire' = Tail(wire)
    /\ stage' = StagePush(stage, Head(wire))
    /\ UNCHANGED <<chain, connected, mode, engine, answer, stored, budget, config>>

(* One attempt: the floors are validated, the head is read when a Gap left *)
(* its position open, the snapshot is taken, and it is installed.          *)
RecoverFloors ==
    /\ mode = "recover" /\ connected /\ answer.step = "none"
    /\ \A c \in stage.floors : ValidateCheckpoint(c)
    /\ answer' = Answer("floors", NoCursor, NewIndexer)
    /\ UNCHANGED <<chain, wire, connected, mode, engine, stage, stored, budget, config>>

RecoverHead ==
    /\ mode = "recover" /\ answer.step \in {"floors", "snapshot"}
    /\ stage.needsHead
    /\ stage' = SetCanonicalHead(stage, CanonicalHead)
    /\ UNCHANGED <<chain, wire, connected, mode, engine, answer, stored, budget, config>>

RecoverSnapshot ==
    /\ mode = "recover" /\ answer.step = "floors"
    /\ ~stage.needsHead
    /\ \E b \in SnapshotBlocks : answer' = Answer("snapshot", BlockCursor(b, Canonical), NewIndexer)
    /\ UNCHANGED <<chain, wire, connected, mode, engine, stage, stored, budget, config>>

RecoverRetry ==
    /\ mode = "recover" /\ answer.step = "snapshot"
    /\ stage.needsHead \/ ~StageCovered(stage, answer.cursor)
    /\ answer' = NoAnswer
    /\ UNCHANGED <<chain, wire, connected, mode, engine, stage, stored, budget, config>>

RecoverInstall ==
    /\ mode = "recover" /\ answer.step = "snapshot"
    /\ ~stage.needsHead /\ StageCovered(stage, answer.cursor)
    /\ LET result == Bootstrap(engine, answer.cursor, StateAt(answer.cursor.hash), stage.queued)
       IN  /\ engine' = IF result.ok THEN result.engine ELSE engine
           /\ IF result.ok /\ answer.leased
              THEN mode' = "live" /\ stage' = NoStage
              ELSE stage' = RequireAllUpdates(stage) /\ UNCHANGED mode
    /\ answer' = NoAnswer
    /\ UNCHANGED <<chain, wire, connected, stored, budget, config>>

-----------------------------------------------------------------------------
(* Checkpoints, restart and connection.                                    *)

Persist ==
    /\ mode = "live" /\ budget.restarts < Bound("restarts")
    /\ engine.checkpoint.cursor.number > stored.cursor.number
    /\ stored' = engine.checkpoint
    /\ UNCHANGED <<chain, wire, connected, mode, engine, stage, answer, budget, config>>

Stopped ==
    /\ mode' = "connect" /\ wire' = <<>> /\ connected' = FALSE
    /\ engine' = NewIndexer /\ stage' = NoStage /\ answer' = NoAnswer

Restart ==
    /\ mode # "connect"
    /\ Spend("restarts")
    /\ Stopped
    /\ UNCHANGED <<chain, stored, config>>

ConnectCheckpoint ==
    /\ mode = "connect" /\ connected /\ answer.step = "none" /\ stored # NoCheckpoint
    /\ answer' = IF ValidateCheckpoint(stored.cursor)
                 THEN Answer("checkpoint", NoCursor, MarkNotReady(FromCheckpoint(stored)))
                 ELSE Answer("fallback", NoCursor, NewIndexer)
    /\ UNCHANGED <<chain, wire, connected, mode, engine, stage, stored, budget, config>>

(* recover_checkpoint reads the head, then the logs by block number.       *)
CheckpointHead ==
    /\ mode = "connect" /\ answer.step = "checkpoint"
    /\ answer' = IF CanonicalHead.number < stored.cursor.number
                 THEN Answer("fallback", NoCursor, NewIndexer)
                 ELSE Answer("head", CanonicalHead, answer.engine)
    /\ UNCHANGED <<chain, wire, connected, mode, engine, stage, stored, budget, config>>

BackfillFrom(c) == IF c.pos = AtBlock THEN c.number + 1 ELSE c.number
(* Fault: the last block is left out.                                      *)
BackfillLogsExclusive(from, to) ==
    Ordered({l \in LogsIn(Path[chain.tip]) : Number[BlockOf[l]] \in from..(to - 1)})

BackfillLogs(from, to) ==
    Ordered({l \in LogsIn(Path[chain.tip]) : Number[BlockOf[l]] \in from..to})
CaughtUp(e, head, logs) ==
    LET from == e.reducer.cursor
        Step(r, l) == IF ~r.ok \/ ~Precedes(EventOrder(from), EventOrder(LogCursor(l, Canonical)))
                      THEN r
                      ELSE ApplyLog(r.engine, LogUpdate(LogCursor(l, Canonical), l))
        applied == FoldLeft(Step, Accept(e), logs)
        observed == IF applied.ok THEN ApplyHead(applied.engine, head) ELSE applied
        floored == IF observed.ok THEN SetCanonicalFloor(observed.engine, head) ELSE observed
    IN  IF floored.ok THEN Accept(PublishReady(floored.engine)) ELSE floored
CheckpointBackfill ==
    /\ mode = "connect" /\ answer.step = "head"
    /\ LET logs == BackfillLogs(BackfillFrom(stored.cursor), answer.cursor.number)
           result == CaughtUp(answer.engine, answer.cursor, logs)
       IN  answer' = IF result.ok THEN Answer("booted", NoCursor, result.engine)
                     ELSE Answer("fallback", NoCursor, NewIndexer)
    /\ UNCHANGED <<chain, wire, connected, mode, engine, stage, stored, budget, config>>

(* snapshot_indexer.                                                       *)
ConnectSnapshot ==
    /\ mode = "connect"
    /\ answer.step = "fallback" \/ (answer.step = "none" /\ connected /\ stored = NoCheckpoint)
    /\ \E b \in SnapshotBlocks :
          LET booted == Bootstrap(NewIndexer, BlockCursor(b, Canonical), StateAt(b), <<>>)
          IN  answer' = Answer("booted", NoCursor, booted.engine)
    /\ UNCHANGED <<chain, wire, connected, mode, engine, stage, stored, budget, config>>

(* Fault: the update after the prefix is taken from the queue as well.     *)
HandoffOneMore ==
    /\ mode = "connect" /\ answer.step = "booted"
    /\ \E n \in 0..Len(wire) :
          LET result == ApplyHandoff(answer.engine, SubSeq(wire, 1, n))
          IN  IF result.ok /\ answer.leased
              THEN /\ engine' = result.engine /\ mode' = "live" /\ answer' = NoAnswer
                   /\ wire' = SubSeq(wire, n + 2, Len(wire))
                   /\ UNCHANGED <<connected, stage>>
              ELSE Stopped
    /\ UNCHANGED <<chain, stored, budget, config>>

(* BootstrapHandoff: the queued prefix is applied, and the candidate       *)
(* installed while the subscription it began with is still open; otherwise *)
(* connect returns an error and the process starts again.                  *)
Handoff ==
    /\ mode = "connect" /\ answer.step = "booted"
    /\ \E n \in 0..Len(wire) :
          LET result == ApplyHandoff(answer.engine, SubSeq(wire, 1, n))
          IN  IF result.ok /\ answer.leased
              THEN /\ engine' = result.engine /\ mode' = "live" /\ answer' = NoAnswer
                   /\ wire' = SubSeq(wire, n + 1, Len(wire))
                   /\ UNCHANGED <<connected, stage>>
              ELSE Stopped
    /\ UNCHANGED <<chain, stored, budget, config>>

-----------------------------------------------------------------------------
Provider ==
    \/ \E b \in Block : Extend(b) \/ Move(b) \/ Finalize(b)
    \/ Repeat
Recover == RecoverFloors \/ RecoverHead \/ RecoverSnapshot \/ RecoverRetry \/ RecoverInstall
Connect == ConnectCheckpoint \/ CheckpointHead \/ CheckpointBackfill \/ ConnectSnapshot \/ Handoff
Client == Deliver \/ Absorb \/ Recover \/ Connect

Next == Provider \/ Disconnect \/ Reconnect \/ Client \/ Persist \/ Restart

Spec == Init /\ [][Next]_vars

(* The tasks run until they are cancelled, every request is answered or    *)
(* times out, the pump reconnects after each failure and the reducer       *)
(* drains its queue: weak fairness of each, with the condition it is       *)
(* enabled under written out.  Nothing is assumed of the provider.         *)
CanRecover ==
    /\ mode = "recover"
    /\ \/ connected /\ answer.step = "none" /\ \A c \in stage.floors : ValidateCheckpoint(c)
       \/ answer.step # "none"
CanConnect == mode = "connect" /\ (connected \/ answer.step # "none")
FairSpec ==
    /\ Spec
    /\ WF_vars(Reconnect)
    /\ []<>(mode # "live" \/ wire = <<>>) \/ []<><<Deliver>>_vars
    /\ []<>(mode # "recover" \/ wire = <<>>) \/ []<><<Absorb>>_vars
    /\ []<>~CanRecover \/ []<><<Recover>>_vars
    /\ []<>~CanConnect \/ []<><<Connect>>_vars

-----------------------------------------------------------------------------
(* Properties.                                                             *)

Available == mode = "live" /\ engine.reducer.ready
Interrupted == \E i \in DOMAIN wire : Barrier(wire[i])
OnWire == {wire[i].log : i \in {j \in DOMAIN wire : wire[j].kind = "log"}}
(* The block of the client's cursor; a proposal stands on the block below. *)
HeadBlocks ==
    LET c == engine.reducer.cursor
    IN  {b \in Block : IF c.hash # NoBlock THEN b = c.hash ELSE Number[b] = c.number - 1}

(* The histories stay within their bound, a client that recovers holds the *)
(* update that failed, and a live one is ready.                            *)
TypeOK ==
    /\ chain \in [tip : Block, finalized : Block]
    /\ connected \in BOOLEAN
    /\ mode \in {"connect", "live", "recover"}
    /\ (mode = "recover") = (stage.queued # <<>>)
    /\ mode = "live" => engine.reducer.ready
    /\ Len(engine.history.blocks) <= MaxHistory /\ Len(engine.history.identities) <= MaxHistory

(* An available client quotes from the state of one branch: every log in   *)
(* its state is on the branch of its head, and no log of that branch is    *)
(* missing unless it is still on its way or a Gap, Reorg or Correction is. *)
(* It takes a provider that answers no older block than its source has     *)
(* reported: the client asks for "latest" and does not compare.            *)
StateMatchesHead ==
    Available /\ ~SnapshotLags =>
        \E b \in HeadBlocks :
            /\ engine.reducer.state \subseteq StateAt(b)
            /\ Interrupted \/ StateAt(b) \subseteq engine.reducer.state \cup OnWire

(* A before-image in the optimistic history is the state below its block   *)
(* and ready, so a correction restores what it claims and stays ready (the *)
(* debug_assert of into_corrected_core).                                   *)
HistoryRestores ==
    Available =>
        \A i \in DOMAIN engine.history.blocks :
            LET saved == engine.history.blocks[i]
            IN  /\ saved.before.ready
                /\ saved.before.state = {l \in engine.reducer.state :
                                            Number[BlockOf[l]] < saved.cursor.number}

(* The identities a correction is validated against are the ancestors of   *)
(* the client's head, none twice: a late head never relabels a block.  A   *)
(* log that is no quote event records its block before the head does.      *)
IdentitiesAreAncestors ==
    Available =>
        \A i \in DOMAIN engine.history.identities :
            LET c == engine.history.identities[i]
            IN  /\ c.hash # NoBlock /\ c.number <= engine.reducer.cursor.number
                      => \E b \in HeadBlocks : c.hash \in Path[b]
                /\ i > 1 => engine.history.identities[i - 1].number < c.number

(* Both together: the history a correction is validated against and        *)
(* rewinds with (engine/correction.rs) is fit for every correction that it *)
(* accepts.                                                                *)
HistoryIsSound == HistoryRestores /\ IdentitiesAreAncestors

(* The checkpoint is the exact state of a block, never an optimistic one   *)
(* (the field's comment, engine.rs:39).                                    *)
CheckpointIsExact ==
    \A c \in {engine.checkpoint, stored} :
        c # NoCheckpoint => c.state = StateAt(c.cursor.hash)

(* The finalized block that bounds corrections and recoveries outlives     *)
(* them: neither a snapshot nor a rewind forgets or lowers it, and, with   *)
(* the same provider, the client's head never leaves its branch.           *)
FinalizedIsKept ==
    [][ mode # "connect" /\ mode' # "connect" =>
            /\ engine'.finalized.number >= engine.finalized.number
            /\ (Available /\ engine.finalized # NoCursor /\ ~SnapshotLags)' =>
                   (\E b \in HeadBlocks : engine.finalized.hash \in Path[b])' ]_vars

(* Only a correction moves the published cursor to a lower block: however  *)
(* far behind its snapshots are, recovery never answers from a block below *)
(* the one quoted before.                                                  *)
QuotedBefore == IF mode = "live" THEN engine.reducer.cursor ELSE stage.published
CursorNeverRegresses ==
    [][ mode = "recover" \/ (mode = "live" /\ (wire = <<>> \/ Head(wire).kind # "correction"))
            => (mode' = "live" => engine'.reducer.cursor.number >= QuotedBefore.number) ]_vars

(* Both together: neither finality nor the quoted position moves back      *)
(* (engine/finality.rs, recovery_install.rs).                              *)
NothingRegresses == FinalizedIsKept /\ CursorNeverRegresses

(* The snapshot a recovery takes now would be accepted: the chain has      *)
(* outgrown what was published and what is staged, or ends with it.        *)
Outgrown(c) ==
    c.number < Number[chain.tip] \/ (c.hash = chain.tip /\ c.commitment <= Canonical)
ChainIsAhead ==
    /\ Outgrown(stage.published) /\ Outgrown(stage.required) /\ Outgrown(engine.finalized)
    /\ \A i \in DOMAIN stage.queued : Outgrown(stage.queued[i].cursor)
FloorsAreCanonical == \A c \in stage.floors : ValidateCheckpoint(c)
UpToDate == Available /\ engine.reducer.cursor.hash = chain.tip

(* Whatever was lost, reordered into a recovery or refused, once the       *)
(* provider rests on a chain that is ahead of the recovery's requirements  *)
(* and still holds its floors, and no staged identities conflict, the      *)
(* client becomes available at its tip.                                    *)
Heals ==
    ~SnapshotLags /\ <>[](ChainIsAhead /\ FloorsAreCanonical /\ ~stage.conflict) => <>[]UpToDate

(* "Gaps and canonical mismatches suspend readiness until recovery         *)
(* completes" (client README).  Refuted: once the block of the last        *)
(* snapshot has left the canonical chain, no recovery completes.           *)
HealsWithoutFloor ==
    ~SnapshotLags /\ <>[](ChainIsAhead /\ ~stage.conflict) => <>[]UpToDate

=============================================================================
