---------------------------- MODULE QuoteRuntime ----------------------------
(***************************************************************************)
(* The connected quote client of lunarbase-client: the versioned admission *)
(* token that decides whether quotes are served, and the tasks that move   *)
(* it: the source pump, the reducer with its recovery loop, the freshness  *)
(* watchdog and the shutdown fence.  The tasks share only the token, the   *)
(* published snapshot, the bounded update queue, the source_active watch   *)
(* and the recovery signal; every access to one of those is a step.        *)
(*                                                                         *)
(* Abstractions.  An update is its kind and the subscription it came from; *)
(* a snapshot is whether its reducer is ready and the subscription its     *)
(* state is continuous with.  The counters of state_update_generation and  *)
(* of the recovery signal are only ever compared for equality by one       *)
(* holder, so each is a flag that says whether it moved.  A token version  *)
(* is one that no task still holds: see Fresh.  `pending', the one update  *)
(* the reducer took but could not join to a segment, is the queue's head.  *)
(* publication_generation is left out: the reducer is its only writer and  *)
(* compares it with a value it read itself.                                *)
(***************************************************************************)
EXTENDS Integers, Sequences, FiniteSets

CONSTANTS
    Version,         \* versions of the admission token, u64 >> 3 in the code
    NoToken,         \* an absent token
    Capacity,        \* updates the byte budget of the queue has permits for
    MaxConnections   \* subscriptions of one run; the last one does not end

Tokens == [state : {"invalid", "ready", "publishing", "expiring", "stopping"},
           version : Version]
Connection == 1..MaxConnections
Item == [kind : {"ordinary", "correction", "reorg", "gap", "cursor_gap"},
         connection : Connection, admission : Tokens \cup {NoToken}]
Snapshot == [ready : BOOLEAN, connection : Connection]

ASSUME RuntimeAssumption ==
    /\ NoToken \notin Tokens
    /\ Version # {}
    /\ Capacity \in Nat \ {0}
    /\ MaxConnections \in Nat \ {0}

VARIABLES
    token,       \* SharedQuoteState.availability
    snapshot,    \* SharedQuoteState.indexer
    active,      \* the source_active watch
    connection,  \* subscriptions made so far
    pump,        \* where the source pump is
    outgoing,    \* the update the pump waits to enqueue, at most one
    queue,       \* updates the reducer has not taken
    signal,      \* RecoverySignal
    pc,          \* where the reducer is
    segment,     \* updates the reducer holds: a live segment or the stage
    lease,       \* source_lease
    correcting,  \* CorrectionProgress.token
    publishing,  \* the token of a publication under way
    candidate,   \* the private snapshot about to be published
    needs_head,  \* RecoveryStage.needs_canonical_head
    watch,       \* where the watchdog is
    sampled,     \* the token the watchdog sampled or leased
    unchanged    \* no state update was recorded since that sample

source == <<active, connection, pump, outgoing>>
reducer == <<pc, segment, lease, correcting, publishing, candidate, needs_head>>
watchdog == <<watch, sampled, unchanged>>
vars == <<token, snapshot, queue, signal, source, reducer, watchdog>>

-----------------------------------------------------------------------------
(* The admission token.                                                    *)

Items(s) == {s[i] : i \in 1..Len(s)}
HeldTokens ==
    {token, lease, correcting, publishing, sampled}
        \cup {i.admission : i \in Items(queue) \cup Items(segment) \cup Items(outgoing)}
HeldVersions == {t.version : t \in HeldTokens \ {NoToken}}

(* next(): a token in the given state that equals no token held anywhere.  *)
Fresh(state) ==
    [state |-> state, version |-> CHOOSE v \in Version : v \notin HeldVersions]

(* One compare-exchange; the 61-bit version has not wrapped round to a     *)
(* token that is still held.                                               *)
Move(allowed, state) ==
    /\ Version \ HeldVersions # {}
    /\ token' = IF allowed THEN Fresh(state) ELSE token

(* READY, EXPIRING and PUBLISHING admit quotes (is_available). *)
Admitted == token.state \in {"ready", "publishing", "expiring"}
Stopped == token.state = "stopping"

CompareExchange(expected, state) == Move(token = expected, state)

(* begin_correction, which begin_publication calls. *)
CanBegin == token.state \in {"ready", "expiring"}
BeginToken == IF CanBegin THEN Fresh("publishing") ELSE NoToken
Begin == Move(CanBegin, "publishing")

(* Mutants: the lease is compared without its version; only a lease that   *)
(* was taken while quotes were open can be published.                      *)
LeaseUnversioned == lease # NoToken /\ lease.state = token.state /\ ~Stopped
LeaseMustBeReady == lease = token /\ token.state = "ready"

(* publish_if: whether it succeeds, and what it does to the token. *)
LeaseCurrent == lease = token /\ ~Stopped
PublishIf == Move(LeaseCurrent /\ token.state \in {"invalid", "expiring"}, "ready")

InvalidateSourceLease == Move(~Stopped, "invalid")

(* transition_to_terminal: revoke and stop. *)
TransitionToTerminal(target) == Move(token.state \notin {target, "stopping"}, target)

Init ==
    /\ token = [state |-> "ready", version |-> CHOOSE v \in Version : TRUE]
    /\ snapshot = [ready |-> TRUE, connection |-> 1]
    /\ active = TRUE
    /\ connection = 1
    /\ pump = "stream"
    /\ outgoing = <<>>
    /\ queue = <<>>
    /\ signal = [active |-> FALSE, changed |-> FALSE, needs_head |-> FALSE]
    /\ pc = "idle"
    /\ segment = <<>>
    /\ lease = NoToken /\ correcting = NoToken /\ publishing = NoToken
    /\ candidate = snapshot
    /\ needs_head = FALSE
    /\ watch = "idle"
    /\ sampled = NoToken
    /\ unchanged = FALSE

-----------------------------------------------------------------------------
(* The source pump.                                                        *)

Update(kind, admission) ==
    <<[kind |-> kind, connection |-> connection, admission |-> admission]>>
Terminal == {"gap", "cursor_gap"}
MarkInactive == InvalidateSourceLease /\ active' = FALSE

Subscribe ==
    /\ pump = "connect" /\ connection < MaxConnections
    /\ connection' = connection + 1
    /\ active' = TRUE
    /\ pump' = "stream"
    /\ UNCHANGED <<token, snapshot, outgoing, queue, signal, reducer, watchdog>>

SubscribeFails ==
    /\ pump = "connect"
    /\ outgoing' = Update("gap", NoToken)
    /\ pump' = "send"
    /\ UNCHANGED <<token, snapshot, active, connection, queue, signal, reducer, watchdog>>

Receive(kind) ==
    /\ pump = "stream"
    /\ outgoing' = Update(kind, NoToken)
    /\ pump' = "send"
    /\ UNCHANGED <<token, snapshot, active, connection, queue, signal, reducer, watchdog>>

ReceiveCorrection ==
    /\ pump = "stream"
    /\ Begin
    /\ outgoing' = Update("correction", BeginToken)
    /\ pump' = "send"
    /\ UNCHANGED <<snapshot, active, connection, queue, signal, reducer, watchdog>>

(* A closed, failed or stalled stream, a Gap of the source, or an update   *)
(* larger than the queue's whole byte budget.                              *)
Terminate(kind) ==
    /\ pump = "stream" /\ connection < MaxConnections
    /\ MarkInactive
    /\ outgoing' = Update(kind, NoToken)
    /\ pump' = "send"
    /\ UNCHANGED <<snapshot, connection, queue, signal, reducer, watchdog>>

IsTerminal == outgoing[1].kind \in Terminal
AfterSend == IF IsTerminal THEN "delay" ELSE "stream"

Enqueue ==
    /\ pump = "send"
    /\ Len(queue) + Len(segment) < Capacity
    /\ queue' = queue \o outgoing
    /\ outgoing' = <<>>
    /\ pump' = AfterSend
    /\ UNCHANGED <<token, snapshot, active, connection, signal, reducer, watchdog>>

(* While the reducer recovers, a Gap takes no queue permit. *)
PublishRequirement ==
    /\ pump = "send" /\ IsTerminal
    /\ signal.active
    /\ signal' = [signal EXCEPT !.changed = TRUE,
                                !.needs_head = @ \/ outgoing[1].kind = "gap"]
    /\ outgoing' = <<>>
    /\ pump' = "delay"
    /\ UNCHANGED <<token, snapshot, active, connection, queue, reducer, watchdog>>

(* The two calls of mark_source_inactive around the reconnect delay. *)
Rest ==
    /\ \/ pump = "delay" /\ pump' = "backoff"
       \/ pump = "backoff" /\ pump' = "connect"
    /\ MarkInactive
    /\ UNCHANGED <<snapshot, connection, outgoing, queue, signal, reducer, watchdog>>

SourcePump ==
    \/ Subscribe \/ SubscribeFails
    \/ \E kind \in {"ordinary", "reorg"} : Receive(kind)
    \/ ReceiveCorrection
    \/ \E kind \in Terminal : Terminate(kind)
    \/ Enqueue \/ PublishRequirement \/ Rest

-----------------------------------------------------------------------------
(* The freshness watchdog.  Time is left out: any Ready token may be found *)
(* older than the maximum age.                                             *)

SampleToken ==
    /\ watch = "idle" /\ token.state = "ready"
    /\ sampled' = token
    /\ unchanged' = TRUE
    /\ watch' = "sampled"
    /\ UNCHANGED <<token, snapshot, queue, signal, source, reducer>>

BeginExpiration ==
    /\ watch = "sampled"
    /\ CompareExchange(sampled, "expiring")
    /\ IF token = sampled
       THEN sampled' = Fresh("expiring") /\ watch' = "expiring" /\ UNCHANGED unchanged
       ELSE sampled' = NoToken /\ watch' = "idle" /\ unchanged' = FALSE
    /\ UNCHANGED <<snapshot, queue, signal, source, reducer>>

CompareProgress ==
    /\ watch = "expiring"
    /\ watch' = IF unchanged THEN "stale" ELSE "progressed"
    /\ unchanged' = FALSE
    /\ UNCHANGED <<token, snapshot, queue, signal, source, reducer, sampled>>

FinishExpiration ==
    /\ watch \in {"stale", "progressed"}
    /\ CompareExchange(sampled, IF watch = "stale" THEN "invalid" ELSE "ready")
    /\ sampled' = NoToken
    /\ watch' = "idle"
    /\ UNCHANGED <<snapshot, queue, signal, source, reducer, unchanged>>

Watchdog == SampleToken \/ BeginExpiration \/ CompareProgress \/ FinishExpiration

-----------------------------------------------------------------------------
(* The reducer: one live segment at a time.                                *)

(* collect_live_segment joins logs of one block; any run of ordinary       *)
(* updates may be such a run.                                              *)
Dequeue ==
    /\ pc = "idle"
    /\ \E n \in 1..Len(queue) :
           /\ n > 1 => \A i \in 1..n : queue[i].kind = "ordinary"
           /\ segment' = SubSeq(queue, 1, n)
           /\ queue' = SubSeq(queue, n + 1, Len(queue))
    /\ pc' = "observe"
    /\ UNCHANGED <<token, snapshot, signal, source, watchdog,
                   lease, correcting, publishing, candidate, needs_head>>

(* source_activity_lease reads the watch, then the token, then the watch.  *)
WithLease(held) ==
    IF ~signal.active THEN "apply" ELSE IF held = NoToken THEN "merge" ELSE "fetch"

ObserveSource ==
    /\ pc = "observe"
    /\ pc' = IF active THEN "token" ELSE WithLease(NoToken)
    /\ UNCHANGED <<token, snapshot, queue, signal, source, watchdog,
                   segment, lease, correcting, publishing, candidate, needs_head>>

ReadLease ==
    /\ pc = "token"
    /\ lease' = token
    /\ pc' = "recheck"
    /\ UNCHANGED <<token, snapshot, queue, signal, source, watchdog,
                   segment, correcting, publishing, candidate, needs_head>>

RecheckSource ==
    /\ pc = "recheck"
    /\ lease' = IF active THEN lease ELSE NoToken
    /\ pc' = WithLease(lease')
    /\ UNCHANGED <<token, snapshot, queue, signal, source, watchdog,
                   segment, correcting, publishing, candidate, needs_head>>

SegmentKind == segment[1].kind

(* A Gap or Reorg publishes a copy that is marked not ready. *)
ApplySegment ==
    /\ pc = "apply" /\ SegmentKind # "correction"
    /\ candidate' = IF SegmentKind = "ordinary" THEN snapshot
                    ELSE [snapshot EXCEPT !.ready = FALSE]
    /\ pc' = "begin"
    /\ UNCHANGED <<token, snapshot, queue, signal, source, watchdog,
                   segment, lease, correcting, publishing, needs_head>>

(* Mutant: the queued admission stays with the update. *)
StartCorrectionShared ==
    /\ pc = "apply" /\ SegmentKind = "correction"
    /\ IF segment[1].admission # NoToken
       THEN correcting' = segment[1].admission /\ UNCHANGED token
       ELSE Begin /\ correcting' = BeginToken
    /\ pc' = IF correcting' = NoToken THEN "failing" ELSE "build"
    /\ lease' = NoToken
    /\ UNCHANGED <<snapshot, queue, signal, source, watchdog,
                   segment, publishing, candidate, needs_head>>

(* CorrectionProgress::start: the token of the queued admission or a new one. *)
StartCorrection ==
    /\ pc = "apply" /\ SegmentKind = "correction"
    /\ IF segment[1].admission # NoToken
       THEN /\ correcting' = segment[1].admission
            /\ segment' = [segment EXCEPT ![1].admission = NoToken]
            /\ UNCHANGED token
       ELSE Begin /\ correcting' = BeginToken /\ UNCHANGED segment
    /\ pc' = IF correcting' = NoToken THEN "failing" ELSE "build"
    /\ lease' = NoToken
    /\ UNCHANGED <<snapshot, queue, signal, source, watchdog,
                   publishing, candidate, needs_head>>

(* A correction that is already applied is only verified. *)
BuildCorrection ==
    /\ pc = "build"
    /\ \/ candidate' = snapshot /\ pc' = "begin"
       \/ UNCHANGED candidate /\ pc' = "record"
    /\ UNCHANGED <<token, snapshot, queue, signal, source, watchdog,
                   segment, lease, correcting, publishing, needs_head>>

(* The update is refused; a correction's progress is dropped. *)
ApplyFails ==
    /\ pc = "build" \/ (pc = "apply" /\ SegmentKind = "ordinary")
    /\ CompareExchange(correcting, "invalid")
    /\ correcting' = NoToken
    /\ pc' = "failing"
    /\ UNCHANGED <<snapshot, queue, signal, source, watchdog,
                   segment, lease, publishing, candidate, needs_head>>

(* publish_indexer_if_generation and mutate_indexer. *)
BeginPublication ==
    /\ pc = "begin"
    /\ Begin
    /\ publishing' = BeginToken
    /\ pc' = "swap"
    /\ UNCHANGED <<snapshot, queue, signal, source, watchdog,
                   segment, lease, correcting, candidate, needs_head>>

Swap ==
    /\ pc = "swap"
    /\ snapshot' = candidate
    /\ pc' = "complete"
    /\ UNCHANGED <<token, queue, signal, source, watchdog,
                   segment, lease, correcting, publishing, candidate, needs_head>>

(* Mutant: the publication token is dropped without being completed. *)
PublicationAbandoned ==
    /\ pc = "complete"
    /\ publishing' = NoToken
    /\ pc' = IF candidate.ready THEN "record"
             ELSE IF signal.active THEN "merge" ELSE "failing"
    /\ UNCHANGED <<token, snapshot, queue, signal, source, watchdog,
                   segment, lease, correcting, candidate, needs_head>>

CompletePublication ==
    /\ pc = "complete"
    /\ CompareExchange(publishing, "ready")
    /\ publishing' = NoToken
    /\ pc' = IF candidate.ready THEN "record"
             ELSE IF signal.active THEN "merge" ELSE "failing"
    /\ UNCHANGED <<snapshot, queue, signal, source, watchdog,
                   segment, lease, correcting, candidate, needs_head>>

RecordStateUpdate ==
    /\ pc = "record"
    /\ unchanged' = FALSE
    /\ pc' = IF correcting = NoToken THEN "admit" ELSE "correct"
    /\ UNCHANGED <<token, snapshot, queue, signal, source, watch, sampled,
                   segment, lease, correcting, publishing, candidate, needs_head>>

AdmitSegment ==
    /\ pc = "admit" /\ ~signal.active
    /\ PublishIf
    /\ segment' = <<>>
    /\ lease' = NoToken
    /\ pc' = "idle"
    /\ UNCHANGED <<snapshot, queue, signal, source, watchdog,
                   correcting, publishing, candidate, needs_head>>

CompleteCorrection ==
    /\ pc = "correct"
    /\ CompareExchange(correcting, "ready")
    /\ correcting' = NoToken
    /\ IF token = correcting THEN pc' = "idle" /\ segment' = <<>>
       ELSE pc' = "failing" /\ UNCHANGED segment
    /\ UNCHANGED <<snapshot, queue, signal, source, watchdog,
                   lease, publishing, candidate, needs_head>>

-----------------------------------------------------------------------------
(* The reducer: recover_until_ready.                                       *)

SignalRecovery ==
    /\ pc = "failing"
    /\ signal' = [signal EXCEPT !.active = TRUE]
    /\ lease' = NoToken
    /\ pc' = "revoke"
    /\ UNCHANGED <<token, snapshot, queue, source, watchdog,
                   segment, correcting, publishing, candidate, needs_head>>

(* Mutant: a failed transition leaves a queued correction's lease alone. *)
RevokeUnlessPublishing ==
    /\ pc = "revoke"
    /\ Move(token.state \notin {"invalid", "stopping", "publishing"}, "invalid")
    /\ pc' = "unready"
    /\ UNCHANGED <<snapshot, queue, signal, source, watchdog,
                   segment, lease, correcting, publishing, candidate, needs_head>>

RevokeAvailable ==
    /\ pc = "revoke"
    /\ TransitionToTerminal("invalid")
    /\ pc' = "unready"
    /\ UNCHANGED <<snapshot, queue, signal, source, watchdog,
                   segment, lease, correcting, publishing, candidate, needs_head>>

HasGap(s) == \E i \in Items(s) : i.kind = "gap"

MarkNotReady ==
    /\ pc = "unready"
    /\ candidate' = [snapshot EXCEPT !.ready = FALSE]
    /\ needs_head' = HasGap(segment)
    /\ pc' = "begin"
    /\ UNCHANGED <<token, snapshot, queue, signal, source, watchdog,
                   segment, lease, correcting, publishing>>

Absorb == segment' = segment \o queue /\ queue' = <<>>

(* What the stage needs after it absorbed the queue and merged the signal. *)
MergedNeed == needs_head \/ HasGap(queue) \/ (signal.changed /\ signal.needs_head)
(* Mutant: the merged generation is not remembered. *)
MergeForgotten == UNCHANGED signal

MergeControl == signal' = [signal EXCEPT !.changed = FALSE]

StartAttempt ==
    /\ pc = "merge"
    /\ Absorb
    /\ MergeControl
    /\ needs_head' = MergedNeed
    /\ lease' = NoToken
    /\ pc' = "wait"
    /\ UNCHANGED <<token, snapshot, source, watchdog, correcting, publishing, candidate>>

SourceIsActive ==
    /\ pc = "wait" /\ active
    /\ pc' = "observe"
    /\ UNCHANGED <<token, snapshot, queue, signal, source, watchdog,
                   segment, lease, correcting, publishing, candidate, needs_head>>

(* Floors validated, a canonical head fetched if one is needed, and a      *)
(* snapshot of the chain as the present subscription finds it.             *)
FetchSnapshot ==
    /\ pc = "fetch"
    /\ Absorb
    /\ needs_head' = FALSE
    /\ candidate' = [ready |-> TRUE, connection |-> connection]
    /\ pc' = "backfill"
    /\ UNCHANGED <<token, snapshot, signal, source, watchdog, lease, correcting, publishing>>

LoadBackfill ==
    /\ pc = "backfill"
    /\ Absorb
    /\ needs_head' = FALSE
    /\ pc' = "install"
    /\ UNCHANGED <<token, snapshot, signal, source, watchdog,
                   lease, correcting, publishing, candidate>>

AttemptFails ==
    /\ pc \in {"fetch", "backfill"}
    /\ pc' = "merge"
    /\ UNCHANGED <<token, snapshot, queue, signal, source, watchdog,
                   segment, lease, correcting, publishing, candidate, needs_head>>

InstallSnapshot ==
    /\ pc = "install" /\ ~MergedNeed
    /\ Absorb
    /\ MergeControl
    /\ pc' = "begin"
    /\ UNCHANGED <<token, snapshot, source, watchdog,
                   lease, correcting, publishing, candidate, needs_head>>

(* A late Gap, or a snapshot or staged update that is refused. *)
InstallFails ==
    /\ pc = "install"
    /\ Absorb
    /\ MergeControl
    /\ needs_head' = MergedNeed
    /\ pc' = "merge"
    /\ UNCHANGED <<token, snapshot, source, watchdog,
                   lease, correcting, publishing, candidate>>

AdmitRecovered ==
    /\ pc = "admit" /\ signal.active
    /\ PublishIf
    /\ lease' = NoToken
    /\ pc' = IF LeaseCurrent THEN "finish" ELSE "merge"
    /\ UNCHANGED <<snapshot, queue, signal, source, watchdog,
                   segment, correcting, publishing, candidate, needs_head>>

(* Mutant: the generation of the signal is not compared. *)
FinishUnconditionally ==
    /\ pc = "finish"
    /\ signal' = [active |-> FALSE, changed |-> FALSE, needs_head |-> FALSE]
    /\ segment' = <<>>
    /\ pc' = "idle"
    /\ UNCHANGED <<token, snapshot, queue, source, watchdog,
                   lease, correcting, publishing, candidate, needs_head>>

(* finish_recovery, and the staged updates are dropped. *)
FinishRecovery ==
    /\ pc = "finish"
    /\ IF signal.changed
       THEN pc' = "merge" /\ UNCHANGED <<token, signal, segment>>
       ELSE /\ signal' = [active |-> FALSE, changed |-> FALSE, needs_head |-> FALSE]
            /\ Move(\E i \in Items(segment) : i.admission = token, "invalid")
            /\ segment' = <<>>
            /\ pc' = "idle"
    /\ UNCHANGED <<snapshot, queue, source, watchdog,
                   lease, correcting, publishing, candidate, needs_head>>

Reducer ==
    \/ Dequeue \/ ObserveSource \/ ReadLease \/ RecheckSource
    \/ ApplySegment \/ StartCorrection \/ BuildCorrection \/ ApplyFails
    \/ BeginPublication \/ Swap \/ CompletePublication \/ RecordStateUpdate
    \/ AdmitSegment \/ CompleteCorrection
    \/ SignalRecovery \/ RevokeAvailable \/ MarkNotReady
    \/ StartAttempt \/ SourceIsActive \/ FetchSnapshot \/ LoadBackfill
    \/ AttemptFails \/ InstallSnapshot \/ InstallFails
    \/ AdmitRecovered \/ FinishRecovery

(* begin_shutdown, and the fence of a task that ended.  Later steps of the *)
(* tasks are the ones they take before they see the cancellation.          *)
Stop ==
    /\ ~Stopped
    /\ TransitionToTerminal("stopping")
    /\ UNCHANGED <<snapshot, queue, signal, source, reducer, watchdog>>

Next == SourcePump \/ Watchdog \/ Reducer \/ Stop

Spec == Init /\ [][Next]_vars

(***************************************************************************)
(* Tokio polls every runnable task; the provider eventually accepts a      *)
(* subscription and answers a recovery attempt that is retried forever.    *)
(***************************************************************************)
Fairness ==
    /\ WF_vars(Enqueue \/ PublishRequirement)
    /\ WF_vars(Rest)
    /\ SF_vars(Subscribe)
    /\ WF_vars(Reducer)
    /\ SF_vars(FetchSnapshot)
    /\ SF_vars(LoadBackfill)
    /\ SF_vars(InstallSnapshot)

FairSpec == Spec /\ Fairness

-----------------------------------------------------------------------------
(* Type correctness of the runtime's shared state and task locals. *)
TypeOK ==
    /\ token \in Tokens
    /\ snapshot \in Snapshot /\ candidate \in Snapshot
    /\ active \in BOOLEAN
    /\ connection \in Connection
    /\ pump \in {"connect", "stream", "send", "delay", "backoff"}
    /\ \A s \in {queue, segment, outgoing} : s \in Seq(Item)
    /\ pump = "send" <=> Len(outgoing) = 1
    /\ Len(outgoing) <= 1
    /\ Len(queue) + Len(segment) <= Capacity
    /\ signal \in [active : BOOLEAN, changed : BOOLEAN, needs_head : BOOLEAN]
    /\ {lease, correcting, publishing, sampled} \subseteq Tokens \cup {NoToken}
    /\ needs_head \in BOOLEAN /\ unchanged \in BOOLEAN
    /\ watch \in {"idle", "sampled", "expiring", "stale", "progressed"}

(***************************************************************************)
(* Quotes are admitted only while the source subscription is up: however   *)
(* the reducer, the watchdog and a correction race with a disconnect, none *)
(* of them re-admits quotes with a token taken before it (publish_if,      *)
(* source_activity_lease, mark_source_inactive).                           *)
(***************************************************************************)
AdmittedWhileConnected == Admitted => active

(***************************************************************************)
(* A recovery under way keeps quotes closed: once the failed transition    *)
(* has been revoked, no task admits quotes again before the recovered      *)
(* state is published under its own lease (recover_until_ready).           *)
(***************************************************************************)
RecoveryIsFenced == signal.active /\ Admitted => pc \in {"revoke", "finish"}

(***************************************************************************)
(* No silent gap: an update the reducer applies live comes from the        *)
(* subscription its published state is continuous with.  A Gap that was    *)
(* handed to the recovery signal instead of the queue is never lost        *)
(* (publish_requirement_if_active, finish_recovery).                       *)
(***************************************************************************)
NoSilentGap ==
    pc = "swap" /\ ~signal.active /\ candidate.ready =>
        \A i \in Items(segment) : i.connection = snapshot.connection

(***************************************************************************)
(* Quotes come from a ready state that is continuous with the present      *)
(* subscription, unless an update that suspends readiness is still on its  *)
(* way to the reducer.                                                     *)
(***************************************************************************)
Suspending == \E i \in Items(queue) \cup Items(segment) : i.kind \in Terminal \cup {"reorg"}
AdmittedIsContinuous ==
    Admitted /\ ~Suspending => snapshot.ready /\ snapshot.connection = connection

(***************************************************************************)
(* Two tasks never own the same admission token: a correction on its way   *)
(* to the reducer, the reducer's correction and publication, and the       *)
(* watchdog's lease exclude each other, so completing one cannot end the   *)
(* other's exclusive window (begin_correction, begin_expiration).          *)
(***************************************************************************)
OwnedAdmissions ==
    LET inFlight == queue \o segment \o outgoing
    IN  Cardinality({i \in 1..Len(inFlight) : inFlight[i].admission = token})
OwnershipExclusive ==
    OwnedAdmissions
        + Cardinality({o \in {"correcting", "publishing", "expiring"} :
              \/ o = "correcting" /\ correcting = token
              \/ o = "publishing" /\ publishing = token
              \/ o = "expiring" /\ watch \in {"expiring", "stale", "progressed"}
                                /\ sampled = token})
      = IF token.state \in {"publishing", "expiring"} THEN 1 ELSE 0

(* Shutdown is final: no task's late step reopens admission (transition_to_terminal). *)
StopIsFinal == [][Stopped => UNCHANGED token]_vars

(***************************************************************************)
(* Every recovery ends once the source stays up: the pump is never stuck   *)
(* on a full queue that the recovering reducer does not read, and no       *)
(* requirement keeps the attempt loop turning for ever.                    *)
(***************************************************************************)
RecoveryCompletes == signal.active ~> ~signal.active \/ Stopped

(* The pump always gets rid of the update it holds, whatever the queue retains. *)
PumpIsNeverStuck == pump = "send" ~> pump # "send" \/ Stopped

(* Quote threads parked behind a publication are released (quote_path_available). *)
PublicationsEnd == []<>(token.state # "publishing")

(* Neither the pump behind a full queue nor a quote thread behind an open  *)
(* publication waits for ever (source_queue.rs, publication.rs).           *)
NobodyWaitsForever == PumpIsNeverStuck /\ PublicationsEnd

(***************************************************************************)
(* What the client's README states: a gap suspends readiness until         *)
(* recovery completes.  Refuted: an update queued before the gap is        *)
(* published under the lease of the subscription after it.                 *)
(***************************************************************************)
GapsSuspendReadiness ==
    Admitted => \A i \in Items(queue) : i.kind \notin Terminal

=============================================================================
