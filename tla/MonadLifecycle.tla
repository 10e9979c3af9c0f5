--------------------------- MODULE MonadLifecycle ---------------------------
(***************************************************************************)
(* The proposal lifecycle of the Monad parser source, followed by the      *)
(* normalizer that every execution event passes on its way to the runtime. *)
(*                                                                         *)
(* The execution ring executes one proposal at a time and reports its      *)
(* start, its logs and its end; votes, finality and verification of        *)
(* proposals already executed follow.  `lc' is ProposalLifecycle, one      *)
(* operator per handler: each takes the state and the record's sequence    *)
(* and returns the new state, the events it emits, and the gap it ends the *)
(* stream with, if any.  `feed' is what has come out of the normalizer:    *)
(* its sequence tracker and the view a consumer holds by following heads,  *)
(* reorgs, logs and removed logs.                                          *)
(*                                                                         *)
(* A proposal stands for its identity, number, hash and parent, so records *)
(* whose numbers contradict each other, undecodable payloads and the byte  *)
(* budget (a second budget beside the count) are left out.                 *)
(***************************************************************************)
EXTENDS Integers, Sequences, FiniteSets, SequencesExt, TLC

CONSTANTS
    Proposal,     \* identities of proposals
    NoProposal,
    HeightOf,     \* block number of each proposal
    ParentOf,     \* parent proposal, NoProposal below the first height
    Payload,      \* the logs of an execution: "wanted" is Core's with an allowed
                  \* topic, "topic" Core's with another, "foreign" another contract's
    Modes,        \* the <<delivery mode, emit_removed_logs>> considered
    MaxProposals, MaxLogs,
    Joins,        \* the stream may begin after or within an execution
    Faults        \* of "repeat", "reject" and "error"

VARIABLES
    lc,         \* ProposalLifecycle
    feed,       \* the normalizer's tracker and the consumer's view
    seq,        \* sequence of the last record
    running,    \* the proposal in execution, and the records it has left
    executed, voted, final, verified

ring == <<running, executed, voted, final, verified>>
vars == <<lc, feed, seq, ring>>

Height == {HeightOf[p] : p \in Proposal}
Matching(p) == {i \in DOMAIN Payload[p] : Payload[p][i] = "wanted"}
LogId == {<<p, i>> \in Proposal \X (0..4) : i + 1 \in Matching(p)}

ConstantsOK ==
    /\ \A p \in Proposal : ParentOf[p] # NoProposal
                              => HeightOf[ParentOf[p]] = HeightOf[p] - 1
    /\ MaxProposals \in Nat \ {0} /\ MaxLogs \in Nat
-----------------------------------------------------------------------------
(* Execution events *)

Log(p, log) == [type |-> "log", proposal |-> p, index |-> log.index,
                seq |-> log.seq, sub |-> log.index, removed |-> FALSE]
RemovedLog(p, log, s) == [Log(p, log) EXCEPT !.seq = s, !.removed = TRUE]
HeadOf(p, commitment) == [type |-> "head", proposal |-> p, commitment |-> commitment]
Reorg(old, new) == [type |-> "reorg", proposal |-> new, old |-> old]

Emits(state, out) == [lc |-> state, out |-> out, gap |-> ""]
Breaks(state, reason) == [lc |-> state, out |-> <<>>, gap |-> reason]

Each(seqn, Op(_)) == [i \in DOMAIN seqn |-> Op(seqn[i])]
-----------------------------------------------------------------------------
(* ProposalLifecycle *)

NewLifecycle(mode) ==
    [delivery |-> mode[1], emitRemoved |-> mode[2], synchronized |-> FALSE,
     active |-> [id |-> NoProposal, next |-> 0, logs |-> <<>>],
     proposals |-> << >>, byHeight |-> [h \in Height |-> {}],
     published |-> [h \in Height |-> NoProposal], pendingLogs |-> 0]

IsActive(state) == state.active.id # NoProposal

\* A switch announced only for a proposal that retains logs.
SwitchBranchWithLogs(state, s, id) ==
    LET prev == state.published[HeightOf[id]]
    IN  IF prev \in {NoProposal, id} \/ prev \notin DOMAIN state.proposals
        THEN <<>>
        ELSE LET logs == state.proposals[prev].logs
             IN  IF logs = <<>> THEN <<>>
                 ELSE Each(logs, LAMBDA log : RemovedLog(prev, log, s)) \o <<Reorg(prev, id)>>

\* The proposal published so far at this height gives way: its retained logs
\* are taken back and its replacement is announced.
SwitchBranch(state, s, id) ==
    LET prev == state.published[HeightOf[id]]
    IN  IF prev \in {NoProposal, id} \/ prev \notin DOMAIN state.proposals
        THEN <<>>
        ELSE (IF state.emitRemoved
              THEN Each(state.proposals[prev].logs, LAMBDA log : RemovedLog(prev, log, s))
              ELSE <<>>) \o <<Reorg(prev, id)>>

Start(state, s, id) ==
    IF IsActive(state) THEN Breaks(state, "start while active")
    ELSE IF Cardinality(DOMAIN state.proposals) >= MaxProposals
    THEN Breaks(state, "proposal budget")
    ELSE LET shown == state.delivery = "Realtime"
         IN  Emits([state EXCEPT
                       !.active = [id |-> id, next |-> 0, logs |-> <<>>],
                       !.published[HeightOf[id]] = IF shown THEN id ELSE @],
                   IF shown THEN SwitchBranch(state, s, id) \o <<HeadOf(id, "realtime")>>
                   ELSE <<>>)

\* Every log of the block takes an index, whether the filter matches it or not.
NextLogIndex(state) == [state EXCEPT !.active.next = @ + 1]

SkippedLog(state, s) ==
    IF ~IsActive(state) THEN Breaks(state, "log outside proposal")
    ELSE Emits(NextLogIndex(state), <<>>)

MatchedLog(state, s) ==
    LET id == state.active.id
        log == [index |-> state.active.next, seq |-> s]
        live == IF state.delivery = "Realtime" THEN <<Log(id, log)>> ELSE <<>>
    IN  IF ~IsActive(state) THEN Breaks(state, "log outside proposal")
        ELSE IF state.delivery = "Realtime" /\ ~state.emitRemoved
        THEN Emits(NextLogIndex(state), live)
        ELSE IF state.pendingLogs >= MaxLogs THEN Breaks(state, "log budget")
        ELSE Emits([NextLogIndex(state) EXCEPT !.active.logs = Append(@, log),
                                               !.pendingLogs = @ + 1], live)

\* A proposal applied once is not applied again when a vote returns to it.
PublishOnce(state, s, id, commitment) ==
    LET h == HeightOf[id]
        p == state.proposals[id]
        retain == state.emitRemoved /\ commitment # "finalized"
    IN  Emits([state EXCEPT
                  !.proposals[id].logs = IF retain THEN @ ELSE <<>>,
                  !.proposals[id].shown = commitment,
                  !.pendingLogs = IF retain THEN @ ELSE @ - Len(p.logs),
                  !.published[h] = id],
              SwitchBranch(state, s, id)
                \o (IF p.shown = "none" THEN Each(p.logs, LAMBDA log : Log(id, log)) ELSE <<>>)
                \o <<HeadOf(id, commitment)>>)

\* publish(): the branch switch, the logs not yet with the consumer, the head.
Publish(state, s, id, commitment) ==
    LET h == HeightOf[id]
        p == state.proposals[id]
        applies == p.shown = "none" \/ state.published[h] # id
        retain == state.emitRemoved /\ commitment # "finalized"
    IN  Emits([state EXCEPT
                  !.proposals[id].logs = IF retain THEN @ ELSE <<>>,
                  !.proposals[id].shown = commitment,
                  !.pendingLogs = IF retain THEN @ ELSE @ - Len(p.logs),
                  !.published[h] = id],
              SwitchBranch(state, s, id)
                \o (IF applies THEN Each(p.logs, LAMBDA log : Log(id, log)) ELSE <<>>)
                \o <<HeadOf(id, commitment)>>)

End(state, s) ==
    LET id == state.active.id
        rest == [state EXCEPT !.active = [id |-> NoProposal, next |-> 0, logs |-> <<>>]]
        shown == IF state.delivery = "Realtime" THEN "realtime" ELSE "none"
        done == [rest EXCEPT
                    !.proposals = (id :> [state |-> "proposed", logs |-> state.active.logs,
                                          shown |-> shown]) @@ @,
                    !.byHeight[HeightOf[id]] = @ \union {id}]
    IN  IF ~IsActive(state) THEN Breaks(state, "end without start")
        ELSE IF id \in DOMAIN state.proposals THEN Breaks(rest, "completed twice")
        ELSE CASE state.delivery = "BlockOrdered" -> Publish(done, s, id, "canonical")
               [] state.delivery = "Realtime" -> Emits(done, <<HeadOf(id, "realtime")>>)
               [] OTHER -> Emits(done, <<>>)

Qc(state, s, id) ==
    IF id \notin DOMAIN state.proposals \/ state.proposals[id].state # "proposed"
    THEN Emits(state, <<>>)
    ELSE LET v == [state EXCEPT !.proposals[id].state = "voted"]
         IN  IF state.delivery = "Finalized" THEN Emits(v, <<>>)
             ELSE Publish(v, s, id, "canonical")

\* Forgets proposals and what they retained.
RemoveProposals(state, ids) ==
    LET gone == ids \cap DOMAIN state.proposals
        held == FoldLeft(LAMBDA n, id : n + Len(state.proposals[id].logs), 0, SetToSeq(gone))
    IN  [state EXCEPT
            !.proposals = [id \in DOMAIN state.proposals \ gone |-> state.proposals[id]],
            !.pendingLogs = @ - held]

\* Finality selects one proposal of its height and forgets the others.
Finalized(state, s, id) ==
    IF id \notin DOMAIN state.proposals THEN Emits(state, <<>>)
    ELSE IF state.proposals[id].state = "finalized" THEN Breaks(state, "finalized twice")
    ELSE LET h == HeightOf[id]
             r == Publish([state EXCEPT !.proposals[id].state = "finalized"], s, id, "finalized")
         IN  [r EXCEPT !.lc = RemoveProposals([r.lc EXCEPT !.byHeight[h] = {id}],
                                              r.lc.byHeight[h] \ {id})]

\* Verification without the check that the survivor was finalized.
VerifiedUnchecked(state, s, h) ==
    LET candidates == state.byHeight[h]
        id == CHOOSE p \in candidates : TRUE
    IN  IF candidates = {} THEN Emits(state, <<>>)
        ELSE Emits(RemoveProposals([state EXCEPT !.byHeight[h] = {},
                                                 !.published[h] = NoProposal], {id}),
                   <<HeadOf(id, "finalized")>>)

Verified(state, s, h) ==
    LET candidates == state.byHeight[h]
        rest == [state EXCEPT !.byHeight[h] = {}]
        id == CHOOSE p \in candidates : TRUE
    IN  IF candidates = {} THEN Emits(state, <<>>)
        ELSE IF Cardinality(candidates) # 1 THEN Breaks(rest, "verified with rivals")
        ELSE IF state.proposals[id].state # "finalized"
        THEN Breaks(rest, "verified before finalized")
        ELSE Emits(RemoveProposals([rest EXCEPT !.published[h] = NoProposal], {id}),
                   <<HeadOf(id, "finalized")>>)

\* The filter is applied while decoding: only the count of other logs matters.
DecodePayload(kind) == IF kind = "wanted" THEN "log" ELSE "skip"

\* Nothing but a start or a reported loss is decoded before the first start.
DecodeRecord(record, seekingStart) ==
    IF seekingStart /\ record.type \notin {"error", "start"} THEN "ignore"
    ELSE IF record.type = "txn_log" THEN DecodePayload(record.kind)
    ELSE record.type

Process(state, record) ==
    LET s == record.seq
        input == DecodeRecord(record, ~state.synchronized)
    IN  CASE input = "ignore" -> Emits(state, <<>>)
          [] input = "error" -> Breaks(state, "record error")
          [] input = "reject" -> Breaks(state, "reject")
          [] input = "start" -> Start([state EXCEPT !.synchronized = TRUE], s, record.id)
          [] input = "log" -> MatchedLog(state, s)
          [] input = "skip" -> SkippedLog(state, s)
          [] input = "end" -> End(state, s)
          [] input = "qc" -> Qc(state, s, record.id)
          [] input = "finalized" -> Finalized(state, s, record.id)
          [] input = "verified" -> Verified(state, s, record.height)
-----------------------------------------------------------------------------
(* MonadExecutionNormalizer, and the view of a consumer *)

\* A tracker that takes the filtered stream for a contiguous one.
ObserveContiguous(tracker, s, sub) ==
    IF tracker.last \in {0, s - 1} THEN "accept"
    ELSE IF s # tracker.last THEN "regression"
    ELSE IF sub <= tracker.sub THEN "duplicate" ELSE "accept"

\* Sparse sequences may skip ahead; they may not go back.
ObserveSparse(tracker, s, sub) ==
    IF tracker.last < s THEN "accept"
    ELSE IF s < tracker.last THEN "regression"
    ELSE IF sub <= tracker.sub THEN "duplicate" ELSE "accept"

NewFeed == [tracker |-> [last |-> 0, sub |-> 0], gap |-> "",
            told |-> [h \in Height |-> NoProposal],
            reorgs |-> [h \in Height |-> 0],
            net |-> [l \in LogId |-> 0]]

\* normalize(): heads and reorgs pass; a log passes the tracker.
Normalize(f, e) ==
    LET h == HeightOf[e.proposal]
        verdict == ObserveSparse(f.tracker, e.seq, e.sub)
    IN  CASE f.gap # "" -> f
          [] e.type = "head" -> [f EXCEPT !.told[h] = e.proposal]
          [] e.type = "reorg" -> [f EXCEPT !.told[h] = e.proposal, !.reorgs[h] = @ + 1]
          [] e.type = "log" ->
               CASE verdict = "regression" -> [f EXCEPT !.gap = "regression"]
                 [] verdict = "duplicate" -> f
                 [] OTHER -> [f EXCEPT !.tracker = [last |-> e.seq, sub |-> e.sub],
                                       !.net[<<e.proposal, e.index>>] =
                                           IF e.removed THEN @ - 1 ELSE @ + 1]

\* normalize_stream(): the events in order, then the error that ends them.
NormalizeStream(f, r) ==
    LET g == FoldLeft(Normalize, f, r.out)
    IN  IF g.gap = "" THEN [g EXCEPT !.gap = r.gap] ELSE g

Receive(record) ==
    LET r == Process(lc, [record EXCEPT !.seq = seq + 1])
    IN  /\ feed.gap = ""
        /\ seq' = seq + 1
        /\ lc' = r.lc
        /\ feed' = NormalizeStream(feed, r)
-----------------------------------------------------------------------------
(* The execution ring *)

Idle == running.id = NoProposal
NotRunning == [id |-> NoProposal, at |-> 1]
Roots == {p \in Proposal : ParentOf[p] = NoProposal}

Init ==
    /\ \E mode \in Modes : lc = NewLifecycle(mode)
    /\ feed = NewFeed
    /\ seq = 0
    /\ executed \in IF Joins THEN SUBSET Roots ELSE {{}}
    /\ running \in {NotRunning}
         \union (IF Joins THEN {[id |-> p, at |-> i] : p \in Roots \ executed, i \in 1..2} ELSE {})
    /\ voted = {}
    /\ final = [h \in Height |-> NoProposal]
    /\ verified = 0

\* Execution follows finality: a proposal on an executed parent, at a height
\* that is still open and above the finalized proposal's own branch.
BlockStart(p) ==
    /\ Idle
    /\ p \notin executed \/ "repeat" \in Faults
    /\ ParentOf[p] \in executed \union {NoProposal}
    /\ final[HeightOf[p]] = NoProposal
    /\ \A q \in Proposal : q = ParentOf[p] => final[HeightOf[q]] \in {NoProposal, q}
    /\ running' = [id |-> p, at |-> 1]
    /\ Receive([type |-> "start", id |-> p, seq |-> 0])
    /\ UNCHANGED <<executed, voted, final, verified>>

TxnLog ==
    /\ ~Idle
    /\ running.at <= Len(Payload[running.id])
    /\ running' = [running EXCEPT !.at = @ + 1]
    /\ Receive([type |-> "txn_log", kind |-> Payload[running.id][running.at], seq |-> 0])
    /\ UNCHANGED <<executed, voted, final, verified>>

BlockEnd ==
    /\ ~Idle
    /\ running.at > Len(Payload[running.id])
    /\ running' = NotRunning
    /\ executed' = executed \union {running.id}
    /\ Receive([type |-> "end", seq |-> 0])
    /\ UNCHANGED <<voted, final, verified>>

BlockQC(p) ==
    /\ Idle
    /\ p \in executed \ voted
    /\ final[HeightOf[p]] = NoProposal
    /\ voted' = voted \union {p}
    /\ Receive([type |-> "qc", id |-> p, seq |-> 0])
    /\ UNCHANGED <<running, executed, final, verified>>

\* One proposal of a height is finalized, on the finalized parent.
BlockFinalized(p) ==
    /\ Idle
    /\ p \in executed
    /\ final[HeightOf[p]] = NoProposal
    /\ \A q \in Proposal : q = ParentOf[p] => final[HeightOf[q]] = q
    /\ final' = [final EXCEPT ![HeightOf[p]] = p]
    /\ Receive([type |-> "finalized", id |-> p, seq |-> 0])
    /\ UNCHANGED <<running, executed, voted, verified>>

BlockVerified ==
    /\ Idle
    /\ verified + 1 \in Height
    /\ final[verified + 1] # NoProposal
    /\ verified' = verified + 1
    /\ Receive([type |-> "verified", height |-> verified + 1, seq |-> 0])
    /\ UNCHANGED <<running, executed, voted, final>>

BlockReject ==
    /\ "reject" \in Faults
    /\ ~Idle
    /\ running' = NotRunning
    /\ Receive([type |-> "reject", seq |-> 0])
    /\ UNCHANGED <<executed, voted, final, verified>>

RecordError ==
    /\ "error" \in Faults
    /\ Receive([type |-> "error", seq |-> 0])
    /\ UNCHANGED ring

Next ==
    \/ \E p \in Proposal : BlockStart(p) \/ BlockQC(p) \/ BlockFinalized(p)
    \/ TxnLog \/ BlockEnd \/ BlockVerified \/ BlockReject \/ RecordError

Spec == Init /\ [][Next]_vars
-----------------------------------------------------------------------------
(* Properties *)

Retained ==
    FoldLeft(LAMBDA n, id : n + Len(lc.proposals[id].logs), Len(lc.active.logs),
             SetToSeq(DOMAIN lc.proposals))

\* The state is well formed and the log budget is exact: pending_logs, which
\* log() charges and publish() and remove_proposal() refund with saturating
\* subtraction, is always the number of logs retained and never exceeds the
\* limit while the stream is alive.
TypeOK ==
    /\ lc.active.id \in Proposal \union {NoProposal}
    /\ DOMAIN lc.proposals \subseteq Proposal
    /\ Cardinality(DOMAIN lc.proposals) <= MaxProposals
    /\ \A h \in Height : /\ lc.published[h] \in Proposal \union {NoProposal}
                         /\ lc.byHeight[h] \subseteq DOMAIN lc.proposals \/ feed.gap # ""
    /\ feed.gap = "" => lc.pendingLogs = Retained /\ lc.pendingLogs <= MaxLogs

\* A log of p is with the consumer when p is the proposal it follows and the
\* log has been executed since the stream joined.
Due(p, i) ==
    /\ feed.told[HeightOf[p]] = p
    /\ running.id = p => i + 1 < running.at

\* Every consumer that follows logs and removed logs holds exactly the logs of
\* the proposal it was last told of, once each: across competing executions,
\* votes that switch back, finality and verification.  Where removals are not
\* emitted the claim is made for heights without a reorg, since a reorg sends
\* such a consumer to canonical recovery (publish(), switch_branch(), log()).
\* While the ring executes a completed proposal again nothing is claimed: end()
\* refuses it and the gap sends the consumer to recovery.
ConsumerHoldsTold ==
    (feed.gap = "" /\ running.id \notin DOMAIN lc.proposals) =>
        \A l \in LogId :
            (lc.emitRemoved \/ feed.reorgs[HeightOf[l[1]]] = 0)
                => feed.net[l] = IF Due(l[1], l[2]) THEN 1 ELSE 0

\* A proposal the consumer follows is never replaced at its height without a
\* Reorg in the same step: no start, vote or finality of a rival switches the
\* branch silently (switch_branch() in start() and publish()).
SwitchAnnounced ==
    [][\A h \in Height :
          (feed.told[h] # NoProposal /\ feed'.told[h] # feed.told[h])
              => feed'.reorgs[h] > feed.reorgs[h]]_vars

\* When a height is verified the consumer follows the proposal that consensus
\* finalized there, or none; a rival followed because the finalized proposal
\* was executed before the stream joined ends the stream instead (verified()).
VerifiedAgrees ==
    feed.gap = "" =>
        \A h \in Height : h <= verified => feed.told[h] \in {NoProposal, final[h]}

\* The normalizer never refuses what the lifecycle emits: a ring that executes
\* parents first and each proposal once does not end in a sequence regression
\* (observe_sparse()).  It does in block-ordered delivery with removed logs: a
\* replacement's logs follow the removed ones with their older sequences.
OrderKept == feed.gap # "regression"
=============================================================================
