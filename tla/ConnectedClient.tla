-------------------------- MODULE ConnectedClient --------------------------
(***************************************************************************)
(* The TypeScript client (packages/client/src/indexer): the source pump,   *)
(* the bounded queue between it and the reducer, the reducer loop, the     *)
(* recovery coordinator, connect and shutdown.                             *)
(*                                                                         *)
(* All of it runs on one event loop, so a step is what runs between two    *)
(* awaits.  A block is a number and carries one log; the state of the      *)
(* indexer is the set of logs it has and the block it is at.  The chain is *)
(* linear: identities of blocks and corrections are the matter of          *)
(* QuoteEngine, whose Rust counterpart has the same rules.                 *)
(*                                                                         *)
(* The environment: a subscription delivers the logs of all blocks after   *)
(* the head at its acknowledgement, until it ends.  A read (snapshot, head *)
(* or page) answers with a head not older than that of the last            *)
(* subscription before it; if ReadsLag, it may be older than blocks the    *)
(* stream already delivered.                                               *)
(***************************************************************************)
EXTENDS Integers, Sequences, FiniteSets, FiniteSetsExt

CONSTANTS MaxBlock,       \* the blocks of the chain
          PageBlocks,     \* RECOVERY_PAGE_BLOCKS
          Capacity,       \* queueBound
          ByteCapacity,   \* queueByteBound
          Requests,       \* the calls of recover()
          Options         \* the options of the client, its caller and its source

VARIABLES head,      \* the chain's head
          sub,       \* the last acknowledged subscription
          pump,      \* pumpSource and consumeStream
          activity,  \* SourceActivity
          queue,     \* BoundedUpdateQueue
          conn,      \* ConnectedQuoteClient.connect
          state,     \* the reducer's state of the QuoteIndexer
          reducer,   \* reduceSource
          recovery,  \* RecoveryCoordinator.recoverUntilReady
          requested, \* RecoveryCoordinator.requested
          calls,     \* the promises returned by recover()
          stop,      \* the abort signals and shutdown
          options,   \* what the client is given; it never changes
          told,      \* highest block the stream told the pump of (history)
          faults

env  == <<head, sub, told, faults, options>>
vars == <<head, sub, pump, activity, queue, conn, state, reducer, recovery,
          requested, calls, stop, told, faults, options>>

None == 0

\* the block of the checkpoint given to connect, None for none
Checkpoint == options.checkpoint
\* whether recovery has a finalized checkpoint to validate
FinalizedFloor == options.floor
\* whether recover() may be called
MayRequest == options.calls
\* whether reads may be behind the stream
ReadsLag == options.lag
\* whether shutdown may be called
MayStop == options.stop
\* bound on source failures, timeouts and source gaps of a behaviour
MaxFaults == options.faults

ASSUME ConnectedClientAssumption ==
    /\ MaxBlock \in Nat \ {0}
    /\ \A o \in Options : /\ o.checkpoint \in 0 .. MaxBlock /\ o.faults \in Nat
                         /\ {o.floor, o.calls, o.lag, o.stop} \subseteq BOOLEAN
    /\ {PageBlocks, Capacity} \subseteq Nat \ {0}
    /\ ByteCapacity \in Nat /\ ByteCapacity >= 2

-----------------------------------------------------------------------------
(* BoundedUpdateQueue.  A gap without a cursor is at None.                 *)

Kinds == {"Log", "Reorg", "Gap"}

Update(kind, at) == [kind |-> kind, at |-> at]

\* chainUpdateRetainedBytes: what the budget charges for an update
Charge(u) == IF u.kind = "Gap" THEN 1 ELSE 2

Entry(u, seq) == [kind |-> u.kind, at |-> u.at, seq |-> seq]

IsUnknownGap(u) == u.kind = "Gap" /\ u.at = None

Highest(S) == Max(S \cup {None})

RetainedCount(q) == Len(q.values) + Len(q.staged)

Fits(q, u) == /\ RetainedCount(q) < Capacity
              /\ Charge(u) <= ByteCapacity - q.bytes

HighestRetainedCursor(q, u) ==
    LET all == {u} \cup Range(q.values) \cup Range(q.staged)
    IN  IF \E e \in all : IsUnknownGap(e) THEN None ELSE Highest({e.at : e \in all})

CollapseOverflow(q, u) ==
    LET gap  == Update("Gap", HighestRetainedCursor(q, u))
        ring == <<Entry(gap, q.accepted + 1)>>
    IN  [q EXCEPT !.values     = IF q.recovering THEN <<>> ELSE ring,
                  !.staged     = IF q.recovering THEN ring ELSE <<>>,
                  !.bytes      = Charge(gap),
                  !.accepted   = q.accepted + 1,
                  !.overflowed = ~q.recovering]

ExtendOverflowWatermark(q, u) ==
    IF q.values = <<>> \/ Head(q.values).kind # "Gap" THEN q
    ELSE LET gap == Head(q.values)
             at  == IF IsUnknownGap(u) \/ gap.at = None THEN None ELSE Highest({gap.at, u.at})
         IN  [q EXCEPT !.values = Append(Tail(@), [gap EXCEPT !.at = at]),
                       !.bytes  = Charge(gap)]

Admitted(q, u) == ~q.ended /\ ~q.overflowed /\ Fits(q, u)

PushCharged(q, u) ==
    IF q.ended THEN q
    ELSE IF q.overflowed THEN ExtendOverflowWatermark(q, u)
    ELSE IF Fits(q, u) THEN [q EXCEPT !.values   = Append(@, Entry(u, q.accepted + 1)),
                                      !.bytes    = @ + Charge(u),
                                      !.accepted = @ + 1]
    ELSE CollapseOverflow(q, u)

Take(q) == [q EXCEPT !.values     = Tail(@),
                     !.bytes      = @ - Charge(Head(q.values)),
                     !.overflowed = @ /\ Len(q.values) > 1]

\* failed is a sequence of at most one entry
BeginRecovery(q, failed) ==
    LET started == [q EXCEPT !.recovering = TRUE]
        kept    == IF failed = <<>> THEN started
                   ELSE IF Fits(q, failed[1])
                        THEN [started EXCEPT !.staged = @ \o failed,
                                             !.bytes  = @ + Charge(failed[1])]
                        ELSE CollapseOverflow(started, failed[1])
    IN  [kept EXCEPT !.overflowed = FALSE]

StageQueuedForRecovery(q) ==
    [q EXCEPT !.staged = @ \o q.values, !.values = <<>>,
              !.recovering = TRUE, !.overflowed = FALSE]

\* what the entries of s are charged: two each, and one less for a gap
SumCharges(s) == 2 * Len(s) - Cardinality({i \in 1 .. Len(s) : s[i].kind = "Gap"})

\* A mutant of CompleteRecovery: the staged bytes stay charged.
CompleteKeepingBytes(q) ==
    [q EXCEPT !.staged = <<>>, !.recovering = FALSE, !.drained = q.accepted]

CompleteRecovery(q) ==
    [q EXCEPT !.bytes = @ - SumCharges(q.staged), !.staged = <<>>,
              !.recovering = FALSE, !.drained = q.accepted]

AbortRecovery(q) ==
    [q EXCEPT !.values = <<>>, !.staged = <<>>, !.bytes = 0,
              !.recovering = FALSE, !.overflowed = FALSE]

DrainAll(q) ==
    [q EXCEPT !.values = <<>>, !.bytes = @ - SumCharges(q.values),
              !.drained = q.accepted, !.overflowed = FALSE]

Close(q) == [q EXCEPT !.ended = TRUE]

\* the queue becomes q; a waiting reducer is handed its first entry, or the end
ResolveWaiters(q) ==
    IF reducer.pc = "waiting" /\ (q.values # <<>> \/ q.ended)
    THEN IF q.values # <<>>
         THEN /\ queue' = Take(q)
              /\ reducer' = [reducer EXCEPT !.pc = "held", !.held = <<Head(q.values)>>]
         ELSE /\ queue' = q
              /\ reducer' = [reducer EXCEPT !.pc = "woken"]
    ELSE queue' = q /\ UNCHANGED reducer

-----------------------------------------------------------------------------
(* The indexer: the logs it has, the block it is at, the block below which *)
(* logs are already in the state, and readiness.                           *)

FromSnapshot(s) == [at |-> s, logs |-> 1 .. s, floor |-> s, ready |-> TRUE]

IsBarrier(u) == u.kind \in {"Gap", "Reorg"}

\* applyLog and QuoteReducer.apply
LogApplies(st, u) == u.at <= st.floor \/ u.at >= st.at

ApplyLog(st, u) ==
    IF u.at <= st.floor \/ u.at = st.at THEN st
    ELSE [st EXCEPT !.at = u.at, !.logs = @ \cup {u.at}]

\* orderHandoffUpdates sorts the logs, so the order they came in does not matter
ReplayHandoff(st, entries) ==
    LET above == {e.at : e \in {x \in entries : x.at > st.at}}
    IN  [st EXCEPT !.at = Highest(above \cup {st.at}), !.logs = @ \cup above]

HasBarrier(entries) == \E e \in entries : IsBarrier(e)

NotReady(st) == [st EXCEPT !.ready = FALSE]

-----------------------------------------------------------------------------
(* SourceActivity                                                          *)

SetActive(a) ==
    IF activity.active = a THEN activity
    ELSE [active |-> a, generation |-> activity.generation + 1]

\* the onInactive listener is registered by connect
AfterInactive == IF conn.pc = "connected" /\ activity.active THEN NotReady(state) ELSE state

IsCurrent(lease) == activity.active /\ activity.generation = lease

-----------------------------------------------------------------------------
\* lease, required, cursorless, through and validated are locals of recoverUntilReady;
\* pending and barrier hold what it computed before it awaited the canonical head
NoRecovery == [pc |-> "none", lease |-> 0, required |-> None, cursorless |-> None, through |-> 0,
               validated |-> ~FinalizedFloor, asked |-> 0, pending |-> 0, barrier |-> None]

Init ==
    /\ options \in Options
    /\ head \in 1 .. MaxBlock
    /\ Checkpoint <= head
    /\ sub       = [base |-> head, next |-> head + 1]
    /\ pump      = [pc |-> "subscribing", ever |-> FALSE, failed |-> FALSE]
    /\ activity  = [active |-> FALSE, generation |-> 0]
    /\ queue     = [values |-> <<>>, staged |-> <<>>, bytes |-> 0, accepted |-> 0, drained |-> 0,
                    ended |-> FALSE, overflowed |-> FALSE, recovering |-> FALSE]
    /\ conn      = [pc |-> "activity", asked |-> 0, through |-> 0]
    /\ state     = NotReady(FromSnapshot(0))
    /\ reducer   = [pc |-> "unborn", held |-> <<>>, consumed |-> 0, valid |-> TRUE]
    /\ recovery  = NoRecovery
    /\ requested = [on |-> FALSE, barrier |-> 0, coverage |-> None]
    /\ calls     = [r \in Requests |-> [status |-> "idle", owed |-> 0]]
    /\ stop      = [source |-> FALSE, reducer |-> FALSE, pc |-> "running", expired |-> FALSE]
    /\ told      = 0
    /\ faults    = 0

\* the oldest head a read may answer with
ReadFloor == IF ReadsLag THEN sub.base ELSE Highest({sub.base, told})

Fault == faults < MaxFaults /\ faults' = faults + 1

-----------------------------------------------------------------------------
(* The chain and pumpSource                                                *)

NewBlock ==
    /\ head < MaxBlock
    /\ head' = head + 1
    /\ UNCHANGED <<sub, pump, activity, queue, conn, state, reducer, recovery, requested,
                   calls, stop, told, faults, options>>

Halted == stop.source \/ queue.ended

Subscribe ==
    /\ pump.pc = "subscribing" /\ ~stop.source
    /\ sub' = [base |-> head, next |-> head + 1]
    /\ pump' = [pump EXCEPT !.pc = "consuming", !.ever = TRUE]
    /\ activity' = SetActive(TRUE)
    /\ UNCHANGED <<head, queue, conn, state, reducer, recovery, requested, calls, stop, told, faults, options>>

\* subscribe failed, timed out or was cancelled
SubscribeFails ==
    /\ pump.pc = "subscribing"
    /\ IF stop.source THEN UNCHANGED faults ELSE Fault
    /\ activity' = SetActive(FALSE)
    /\ state' = AfterInactive
    /\ pump' = [pump EXCEPT !.pc = IF Halted THEN "done" ELSE "delay"]
    /\ IF Halted \/ ~pump.ever THEN UNCHANGED <<queue, reducer>>
       ELSE ResolveWaiters(PushCharged(queue, Update("Gap", None)))
    /\ UNCHANGED <<head, sub, conn, recovery, requested, calls, stop, told, options>>

\* one update of the stream; the loop of consumeStream looks at the signals after it
Receive(u, next) ==
    /\ pump.pc = "consuming"
    /\ ResolveWaiters(PushCharged(queue, u))
    /\ sub' = [sub EXCEPT !.next = next]
    /\ told' = Highest({told, u.at})
    /\ IF ~Admitted(queue, u) \/ u.kind = "Gap"
       THEN /\ activity' = SetActive(FALSE)
            /\ state' = AfterInactive
            /\ pump' = [pump EXCEPT !.pc = "closing"]
       ELSE /\ pump' = [pump EXCEPT !.pc = IF Halted THEN "closing" ELSE "consuming"]
            /\ UNCHANGED <<activity, state>>
    /\ UNCHANGED <<head, conn, recovery, requested, calls, stop, options>>

ReceiveLog ==
    /\ sub.next <= head
    /\ Receive(Update("Log", sub.next), sub.next + 1)
    /\ UNCHANGED faults

\* the source itself reports a reorganisation, or that it lost something
ReceiveReorg ==
    /\ Fault
    /\ sub.next <= head
    /\ \E next \in {sub.next, sub.next + 1} : Receive(Update("Reorg", sub.next), next)

ReceiveGap ==
    /\ Fault
    /\ \E at \in {None} \cup (sub.next - 1 .. head) : Receive(Update("Gap", at), sub.next)

\* the stream stalled or ended
StreamEnds ==
    /\ pump.pc = "consuming"
    /\ Fault
    /\ activity' = SetActive(FALSE)
    /\ state' = AfterInactive
    /\ ResolveWaiters(PushCharged(queue, Update("Gap", None)))
    /\ pump' = [pump EXCEPT !.pc = "closing"]
    /\ UNCHANGED <<head, sub, conn, recovery, requested, calls, stop, told, options>>

StreamThrows ==
    /\ pump.pc = "consuming"
    /\ Fault
    /\ pump' = [pump EXCEPT !.pc = "closing", !.failed = TRUE]
    /\ UNCHANGED <<head, sub, activity, queue, conn, state, reducer, recovery, requested, calls, stop, told, options>>

StreamCancelled ==
    /\ pump.pc = "consuming" /\ Halted
    /\ pump' = [pump EXCEPT !.pc = "closing"]
    /\ UNCHANGED <<env, activity, queue, conn, state, reducer, recovery, requested, calls, stop>>

\* A mutant of StreamClosed: no gap is queued for a stream that threw.
StreamClosedQuietly ==
    /\ pump.pc = "closing"
    /\ activity' = SetActive(FALSE)
    /\ state' = AfterInactive
    /\ pump' = [pump EXCEPT !.failed = FALSE, !.pc = IF pump.failed /\ Halted THEN "done" ELSE "delay"]
    /\ UNCHANGED <<env, queue, reducer, conn, recovery, requested, calls, stop>>

\* iterator.return settled or timed out: the catch and finally of pumpSource
StreamClosed ==
    /\ pump.pc = "closing"
    /\ activity' = SetActive(FALSE)
    /\ state' = AfterInactive
    /\ pump' = [pump EXCEPT !.failed = FALSE, !.pc = IF pump.failed /\ Halted THEN "done" ELSE "delay"]
    /\ IF pump.failed /\ ~Halted
       THEN ResolveWaiters(PushCharged(queue, Update("Gap", None)))
       ELSE UNCHANGED <<queue, reducer>>
    /\ UNCHANGED <<env, conn, recovery, requested, calls, stop>>

Reconnect ==
    /\ pump.pc = "delay"
    /\ pump' = [pump EXCEPT !.pc = IF Halted THEN "done" ELSE "subscribing"]
    /\ UNCHANGED <<env, activity, queue, conn, state, reducer, recovery, requested, calls, stop>>

Pump == \/ Subscribe \/ SubscribeFails \/ ReceiveLog \/ ReceiveReorg \/ ReceiveGap
        \/ StreamEnds \/ StreamThrows \/ StreamCancelled \/ StreamClosed \/ Reconnect

-----------------------------------------------------------------------------
(* ConnectedQuoteClient.connect and bootstrapIndexer                       *)

Await(pc) == conn' = [conn EXCEPT !.pc = pc, !.asked = ReadFloor]

\* waitForActivity resolved, in connect and again in bootstrapIndexer
BootstrapActive ==
    /\ conn.pc = "activity" /\ activity.active
    /\ Await(IF Checkpoint = None THEN "snapshot" ELSE "validate")
    /\ UNCHANGED <<env, pump, activity, queue, state, reducer, recovery, requested, calls, stop>>

\* the catch of connect, with the queue as q
FailConnect(q) ==
    /\ stop' = [stop EXCEPT !.source = TRUE, !.reducer = TRUE]
    /\ queue' = Close(q)
    /\ activity' = SetActive(FALSE)
    /\ conn' = [pc |-> "failed", asked |-> 0, through |-> 0]
    /\ UNCHANGED <<head, sub, told, pump, state, reducer, recovery, requested, calls, options>>

ConnectFails ==
    /\ \/ conn.pc \in {"validate", "snapshot"}
       \/ conn.pc = "activity" /\ ~activity.active
    /\ Fault
    /\ FailConnect(queue)

\* the checkpoint is canonical, or it is not
CheckpointValidated(valid) ==
    /\ conn.pc = "validate"
    /\ IF valid THEN UNCHANGED faults ELSE Fault
    /\ Await(IF valid THEN "head" ELSE "snapshot")
    /\ UNCHANGED <<head, sub, told, pump, activity, queue, state, reducer, recovery, requested, calls, stop, options>>

Connected(st) ==
    /\ conn' = [pc |-> "connected", asked |-> 0, through |-> 0]
    /\ state' = IF activity.active THEN st ELSE NotReady(st)
    /\ queue' = DrainAll(queue)
    /\ reducer' = [reducer EXCEPT !.pc = "loop", !.consumed = queue.accepted]
    /\ UNCHANGED <<env, pump, activity, recovery, requested, calls, stop>>

\* the rest of bootstrapIndexer once the restored state st reached the canonical head:
\* a gap in the hand-off is not a permanent error, and a snapshot is taken instead
FinishRestore(st) ==
    IF HasBarrier(Range(queue.values))
    THEN /\ queue' = DrainAll(queue)
         /\ Await("snapshot")
         /\ state' = st
         /\ UNCHANGED <<env, pump, activity, reducer, recovery, requested, calls, stop>>
    ELSE Connected(ReplayHandoff(st, Range(queue.values)))

RestoreHead ==
    /\ conn.pc = "head"
    /\ \E h \in conn.asked .. head :
          \/ /\ h < Checkpoint
             /\ Await("snapshot")
             /\ UNCHANGED <<env, pump, activity, queue, state, reducer, recovery, requested, calls, stop>>
          \/ h = Checkpoint /\ FinishRestore(FromSnapshot(Checkpoint))
          \/ /\ h > Checkpoint
             /\ conn' = [conn EXCEPT !.pc = "page", !.through = h]
             /\ state' = FromSnapshot(Checkpoint)
             /\ UNCHANGED <<env, pump, activity, queue, reducer, recovery, requested, calls, stop>>

RestorePage ==
    /\ conn.pc = "page"
    /\ LET end == Min({state.at + PageBlocks, conn.through})
           st  == [state EXCEPT !.at = end, !.logs = @ \cup (state.at + 1 .. end)]
       IN  IF end < conn.through
           THEN /\ state' = st
                /\ UNCHANGED <<env, pump, activity, queue, conn, reducer, recovery, requested, calls, stop>>
           ELSE FinishRestore([st EXCEPT !.floor = end])

RestoreFails ==
    /\ conn.pc \in {"head", "page"}
    /\ Fault
    /\ Await("snapshot")
    /\ UNCHANGED <<head, sub, told, pump, activity, queue, state, reducer, recovery, requested, calls, stop, options>>

SnapshotIndexer ==
    /\ conn.pc = "snapshot"
    /\ \E s \in conn.asked .. head :
          IF HasBarrier(Range(queue.values))
          THEN FailConnect(DrainAll(queue)) /\ UNCHANGED faults
          ELSE Connected(ReplayHandoff(FromSnapshot(s), Range(queue.values)))

Connect == \/ BootstrapActive \/ ConnectFails \/ RestoreHead \/ RestorePage \/ RestoreFails \/ SnapshotIndexer
           \/ \E valid \in BOOLEAN : CheckpointValidated(valid)

-----------------------------------------------------------------------------
(* RecoveryCoordinator.request                                             *)

Settle(how) ==
    calls' = [r \in Requests |-> IF calls[r].status = "waiting" THEN [calls[r] EXCEPT !.status = how] ELSE calls[r]]

NoRequest == requested' = [on |-> FALSE, barrier |-> 0, coverage |-> None]

\* A mutant of Request: the waiting reducer is not woken.
RequestSilently(r) ==
    /\ conn.pc = "connected" /\ stop.pc = "running"
    /\ calls[r].status = "idle"
    /\ calls' = [calls EXCEPT ![r] = [status |-> IF Halted THEN "rejected" ELSE "waiting", owed |-> told]]
    /\ IF Halted \/ recovery.pc # "none" \/ requested.on
       THEN UNCHANGED <<requested, state>>
       ELSE /\ requested' = [on |-> TRUE, barrier |-> queue.accepted, coverage |-> state.at]
            /\ state' = NotReady(state)
    /\ UNCHANGED <<env, pump, activity, queue, conn, reducer, recovery, stop>>

Request(r) ==
    /\ conn.pc = "connected" /\ stop.pc = "running"
    /\ calls[r].status = "idle"
    /\ calls' = [calls EXCEPT ![r] = [status |-> IF Halted THEN "rejected" ELSE "waiting", owed |-> told]]
    /\ IF Halted \/ recovery.pc # "none" \/ requested.on
       THEN UNCHANGED <<requested, state, reducer>>
       ELSE /\ requested' = [on |-> TRUE, barrier |-> queue.accepted, coverage |-> state.at]
            /\ state' = NotReady(state)
            /\ reducer' = IF reducer.pc = "waiting" THEN [reducer EXCEPT !.pc = "woken"] ELSE reducer
    /\ UNCHANGED <<env, pump, activity, queue, conn, recovery, stop>>

-----------------------------------------------------------------------------
(* reduceSource                                                            *)

\* A mutant of FailReducer: the recovery's entries are not released.
FailReducerKeeping(st) ==
    /\ Settle("rejected") /\ NoRequest
    /\ state' = NotReady(st)
    /\ stop' = [stop EXCEPT !.source = TRUE, !.reducer = TRUE]
    /\ queue' = Close(queue)
    /\ activity' = SetActive(FALSE)
    /\ reducer' = [reducer EXCEPT !.pc = "done", !.held = <<>>]
    /\ recovery' = NoRecovery
    /\ UNCHANGED <<head, sub, told, pump, conn, options>>

\* reduceSource threw, with the indexer as st: its catch and finally
FailReducer(st) ==
    /\ Settle("rejected") /\ NoRequest
    /\ state' = NotReady(st)
    /\ stop' = [stop EXCEPT !.source = TRUE, !.reducer = TRUE]
    /\ queue' = Close(AbortRecovery(queue))
    /\ activity' = SetActive(FALSE)
    /\ reducer' = [reducer EXCEPT !.pc = "done", !.held = <<>>]
    /\ recovery' = NoRecovery
    /\ UNCHANGED <<head, sub, told, pump, conn, options>>

\* RecoveryCoordinator.run, with the request there is, if any; recoverUntilReady
\* does nothing once the source is aborted
Run(st, consumed, failed) ==
    IF stop.source
    THEN FailReducer(st) /\ UNCHANGED faults
    ELSE /\ state' = NotReady(st)
         /\ queue' = BeginRecovery(queue, failed)
         /\ recovery' = [NoRecovery EXCEPT !.pc = "lease",
                                           !.required = Highest({requested.coverage, st.at} \cup
                                                                {e.at : e \in Range(failed)})]
         /\ NoRequest
         /\ reducer' = [reducer EXCEPT !.pc = "recovering", !.held = <<>>, !.consumed = consumed]
         /\ UNCHANGED <<env, pump, activity, conn, calls, stop>>

ReachedBarrier(consumed) == requested.on /\ consumed >= requested.barrier

ReduceLoop ==
    /\ reducer.pc = "loop"
    /\ IF ReachedBarrier(reducer.consumed) /\ ~stop.reducer
       THEN Run(state, reducer.consumed, <<>>)
       ELSE /\ IF queue.values # <<>> /\ ~stop.reducer
               THEN /\ queue' = Take(queue)
                    /\ reducer' = [reducer EXCEPT !.pc = "held", !.held = <<Head(queue.values)>>]
               ELSE /\ reducer' = [reducer EXCEPT !.pc = IF queue.ended \/ stop.reducer THEN "woken" ELSE "waiting"]
                    /\ UNCHANGED queue
            /\ UNCHANGED <<env, pump, activity, conn, state, recovery, requested, calls, stop>>

\* nextWithSequence gave nothing; a reducer that returns runs its finally
ReduceWoken ==
    /\ reducer.pc = "woken"
    /\ IF stop.reducer \/ queue.ended
       THEN /\ reducer' = [reducer EXCEPT !.pc = "done"]
            /\ Settle("rejected") /\ NoRequest
            /\ queue' = AbortRecovery(queue)
       ELSE reducer' = [reducer EXCEPT !.pc = "loop"] /\ UNCHANGED <<calls, requested, queue>>
    /\ UNCHANGED <<env, pump, activity, conn, state, recovery, stop>>

\* A mutant of Consume: all that was accepted counts as consumed.
ConsumeAccepted(e) == Highest({reducer.consumed, e.seq, queue.accepted})

Consume(e) == Highest({reducer.consumed, e.seq})

ReduceHeld ==
    /\ reducer.pc = "held"
    /\ LET e == reducer.held[1]
           applies == e.kind = "Log" /\ LogApplies(state, e)
           next(consumed, valid) ==
              reducer' = [reducer EXCEPT !.pc = "loop", !.held = <<>>, !.consumed = consumed, !.valid = valid]
           rest == UNCHANGED <<env, pump, activity, queue, conn, recovery, requested, calls, stop>>
           due == requested.on /\ e.seq > requested.barrier
       IN  \/ ~reducer.valid /\ next(Consume(e), FALSE) /\ rest /\ UNCHANGED state
           \/ reducer.valid /\ due /\ Run(state, reducer.consumed, reducer.held)
           \/ /\ reducer.valid /\ ~due /\ applies
              /\ IF ReachedBarrier(Consume(e))
                 THEN Run(ApplyLog(state, e), Consume(e), <<>>)
                 ELSE next(Consume(e), TRUE) /\ state' = ApplyLog(state, e) /\ rest
           \/ /\ reducer.valid /\ ~due /\ ~applies
              /\ IF stop.source
                 THEN next(reducer.consumed, FALSE) /\ state' = NotReady(state) /\ rest
                 ELSE Run(state, reducer.consumed, reducer.held)

Reduce == ReduceLoop \/ ReduceWoken \/ ReduceHeld

-----------------------------------------------------------------------------
(* RecoveryCoordinator.recoverUntilReady                                   *)

BarrierCoverage(entries) == Highest({e.at : e \in {x \in Range(entries) : IsBarrier(x)}})

EntriesCoverage(entries) == Highest({e.at : e \in Range(entries)})

\* from the first staging to the next await
StageAndRead(rec) ==
    LET q == StageQueuedForRecovery(queue)
        unproven == \E e \in Range(q.staged) : IsUnknownGap(e) /\ e.seq > rec.through
        barrier == BarrierCoverage(q.staged)
    IN  /\ queue' = q
        /\ recovery' = IF unproven
                       THEN [rec EXCEPT !.pc = "head", !.asked = ReadFloor,
                                        !.barrier = barrier, !.pending = q.accepted]
                       ELSE [rec EXCEPT !.pc = "snapshot", !.asked = ReadFloor,
                                        !.required = Highest({@, barrier})]

RecoverLease ==
    /\ recovery.pc = "lease" /\ activity.active /\ ~stop.source
    /\ LET rec == [recovery EXCEPT !.lease = activity.generation]
       IN  IF rec.validated THEN StageAndRead(rec)
           ELSE recovery' = [rec EXCEPT !.pc = "validate"] /\ UNCHANGED queue
    /\ UNCHANGED <<env, pump, activity, conn, state, reducer, requested, calls, stop>>

RecoverValidated ==
    /\ recovery.pc = "validate" /\ ~stop.source
    /\ StageAndRead([recovery EXCEPT !.validated = TRUE])
    /\ UNCHANGED <<env, pump, activity, conn, state, reducer, requested, calls, stop>>

RecoverHead ==
    /\ recovery.pc = "head" /\ ~stop.source
    /\ \E h \in recovery.asked .. head :
          recovery' = [recovery EXCEPT !.pc = "snapshot", !.asked = ReadFloor,
                                       !.cursorless = h, !.through = recovery.pending,
                                       !.required = Highest({@, h, recovery.barrier})]
    /\ UNCHANGED <<env, pump, activity, queue, conn, state, reducer, requested, calls, stop>>

SnapshotCoversUpdate(s, e) ==
    /\ IsBarrier(e)
    /\ IF e.at # None THEN s >= e.at
       ELSE e.seq <= recovery.through /\ recovery.cursorless # None /\ s >= recovery.cursorless

\* A mutant of Buffered: the logs of the hand-off are dropped with the barriers.
BufferedNothing(s, entries) == {e \in entries : IsBarrier(e) /\ ~SnapshotCoversUpdate(s, e)}

Buffered(s, entries) == {e \in entries : ~SnapshotCoversUpdate(s, e)}

\* A mutant of MayInstall: the activity lease is not checked.
MayInstallAnyLease(buffered) == ~HasBarrier(buffered)

MayInstall(buffered) == IsCurrent(recovery.lease) /\ ~HasBarrier(buffered)

\* what arrived while the snapshot was read is part of the hand-off
Restage(q) == StageQueuedForRecovery(q)

\* the snapshot arrived: restage, filter, and install or try again
RecoverSnapshot(s) ==
    /\ recovery.pc = "snapshot" /\ ~stop.source
    /\ s \in recovery.asked .. head
    /\ LET q == Restage(queue)
           buffered == Buffered(s, Range(q.staged))
       IN  IF s < recovery.required
           THEN /\ recovery' = [recovery EXCEPT !.pc = "delay"]
                /\ UNCHANGED <<queue, state, reducer, calls>>
           ELSE IF MayInstall(buffered)
           THEN /\ state' = ReplayHandoff(FromSnapshot(s), buffered)
                /\ queue' = CompleteRecovery(q)
                /\ recovery' = NoRecovery
                /\ reducer' = [reducer EXCEPT !.pc = "loop", !.consumed = Highest({@, q.accepted})]
                /\ Settle("resolved")
           ELSE /\ queue' = q
                /\ recovery' = [recovery EXCEPT !.pc = "delay",
                                                !.required = Highest({@, EntriesCoverage(q.staged)})]
                /\ UNCHANGED <<state, reducer, calls>>
    /\ UNCHANGED <<env, pump, activity, conn, requested, stop>>

\* a read failed, or no subscription became active before the deadline
RecoverFails ==
    /\ \/ recovery.pc \in {"validate", "head", "snapshot"}
       \/ recovery.pc = "lease" /\ ~activity.active
    /\ ~stop.source
    /\ Fault
    /\ recovery' = [recovery EXCEPT !.pc = "delay"]
    /\ UNCHANGED <<head, sub, told, pump, activity, queue, conn, state, reducer, requested, calls, stop, options>>

RecoverRetries ==
    /\ recovery.pc = "delay" /\ ~stop.source
    /\ recovery' = [recovery EXCEPT !.pc = "lease"]
    /\ UNCHANGED <<env, pump, activity, queue, conn, state, reducer, requested, calls, stop>>

\* the finalized checkpoint is not canonical, or the implementation changed
RecoverPermanent ==
    /\ recovery.pc \in {"validate", "snapshot"} /\ ~stop.source
    /\ Fault
    /\ FailReducer(state)

RecoverAborted ==
    /\ recovery.pc # "none" /\ stop.source
    /\ FailReducer(state)
    /\ UNCHANGED faults

Recover == \/ RecoverLease \/ RecoverValidated \/ RecoverHead \/ RecoverFails \/ RecoverRetries
           \/ RecoverPermanent \/ RecoverAborted
           \/ \E s \in 1 .. MaxBlock : RecoverSnapshot(s)

-----------------------------------------------------------------------------
(* shutdown and finishShutdown                                             *)

Shutdown ==
    /\ MayStop /\ conn.pc = "connected" /\ stop.pc = "running"
    /\ stop' = [stop EXCEPT !.pc = "pump", !.source = TRUE]
    /\ activity' = SetActive(FALSE)
    /\ state' = NotReady(state)
    /\ UNCHANGED <<env, pump, queue, conn, reducer, recovery, requested, calls>>

\* the pump ended, or the deadline of the shutdown did
ShutdownPump ==
    /\ stop.pc = "pump"
    /\ \/ pump.pc = "done" /\ stop' = [stop EXCEPT !.pc = "reducer"]
       \/ pump.pc # "done" /\ stop' = [stop EXCEPT !.pc = "reducer", !.expired = TRUE]
    /\ ResolveWaiters(Close(queue))
    /\ UNCHANGED <<env, pump, activity, conn, state, recovery, requested, calls>>

ShutdownReducer ==
    /\ stop.pc = "reducer"
    /\ \/ reducer.pc = "done" /\ stop' = [stop EXCEPT !.pc = "done", !.reducer = TRUE]
       \/ reducer.pc # "done" /\ stop' = [stop EXCEPT !.pc = "done", !.reducer = TRUE, !.expired = TRUE]
    /\ UNCHANGED <<env, pump, activity, queue, conn, state, reducer, recovery, requested, calls>>

Next == \/ NewBlock \/ Pump \/ Connect \/ Reduce \/ Recover
        \/ Shutdown \/ ShutdownPump \/ ShutdownReducer
        \/ \E r \in Requests : MayRequest /\ Request(r)

Spec == Init /\ [][Next]_vars

\* The event loop runs what is ready.  Faults are bounded, so a source that is asked
\* again and again answers; one whose answers lag catches up in the end.
Fairness ==
    /\ WF_vars(Subscribe \/ SubscribeFails) /\ WF_vars(ReceiveLog \/ StreamCancelled)
    /\ WF_vars(StreamClosed) /\ WF_vars(Reconnect)
    /\ WF_vars(Connect) /\ WF_vars(Reduce)
    /\ WF_vars(RecoverLease \/ RecoverValidated \/ RecoverHead \/ RecoverRetries \/ RecoverAborted)
    /\ SF_vars(RecoverSnapshot(head))
    /\ WF_vars(ShutdownPump) /\ WF_vars(ShutdownReducer)

FairSpec == Spec /\ Fairness

-----------------------------------------------------------------------------
(* Properties                                                              *)

Entries == [kind : Kinds, at : 0 .. MaxBlock, seq : Nat]

TypeOK ==
    /\ head \in 1 .. MaxBlock /\ told \in 0 .. MaxBlock /\ faults \in 0 .. MaxFaults
    /\ sub \in [base : 1 .. MaxBlock, next : 1 .. MaxBlock + 1]
    /\ pump \in [pc : {"subscribing", "consuming", "closing", "delay", "done"},
                 ever : BOOLEAN, failed : BOOLEAN]
    /\ activity \in [active : BOOLEAN, generation : Nat]
    /\ DOMAIN queue = {"values", "staged", "bytes", "accepted", "drained", "ended", "overflowed", "recovering"}
    /\ Range(queue.values) \cup Range(queue.staged) \subseteq Entries
    /\ {queue.bytes, queue.accepted, queue.drained} \subseteq Nat
    /\ {queue.ended, queue.overflowed, queue.recovering} \subseteq BOOLEAN
    /\ conn \in [pc : {"activity", "validate", "head", "page", "snapshot", "connected", "failed"},
                 asked : 0 .. MaxBlock, through : 0 .. MaxBlock]
    /\ state \in [at : 0 .. MaxBlock, logs : SUBSET (1 .. MaxBlock), floor : 0 .. MaxBlock, ready : BOOLEAN]
    /\ DOMAIN reducer = {"pc", "held", "consumed", "valid"}
    /\ reducer.pc \in {"unborn", "loop", "waiting", "woken", "held", "recovering", "done"}
    /\ Range(reducer.held) \subseteq Entries /\ reducer.consumed \in Nat /\ reducer.valid \in BOOLEAN
    /\ recovery \in [pc : {"none", "lease", "validate", "head", "snapshot", "delay"}, lease : Nat,
                     required : 0 .. MaxBlock, cursorless : 0 .. MaxBlock, through : Nat,
                     validated : BOOLEAN, asked : 0 .. MaxBlock, pending : Nat, barrier : 0 .. MaxBlock]
    /\ requested \in [on : BOOLEAN, barrier : Nat, coverage : 0 .. MaxBlock]
    /\ calls \in [Requests -> [status : {"idle", "waiting", "resolved", "rejected"}, owed : 0 .. MaxBlock]]
    /\ stop \in [source : BOOLEAN, reducer : BOOLEAN, pc : {"running", "pump", "reducer", "done"},
                 expired : BOOLEAN]

\* A ready client has no hole: it has the log of every block up to the one it is at,
\* whatever was lost between subscriptions, dropped by a full queue or left in the
\* hand-off (installSnapshot and replayHandoff, gated by the activity lease).  It takes
\* reads that are not behind the stream (see extendOverflowWatermark) and a client that
\* was given no checkpoint: bootstrapIndexer drops the gap of a rejected hand-off.
ReadyIsComplete ==
    ~ReadsLag /\ Checkpoint = None /\ conn.pc = "connected" /\ state.ready => state.logs = 1 .. state.at

\* Both rings together stay within the count and the byte budget, and the bytes charged
\* are those of the entries held, through overflow, staging and completion.
BudgetHeld ==
    /\ RetainedCount(queue) <= Capacity
    /\ queue.bytes = SumCharges(queue.values) + SumCharges(queue.staged)
    /\ queue.bytes <= ByteCapacity

\* A recover() that resolved left the state at or above every block the stream had
\* told of when it was called, the ones still queued or lost to overflow included.
RequestCovers == \A r \in Requests : calls[r].status = "resolved" => state.at >= calls[r].owed

\* What the reducer has accounted for is no longer queued: a sequence number is consumed once.
ConsumedLeftQueue ==
    \A e \in Range(queue.values) \cup Range(queue.staged) \cup Range(reducer.held) :
        conn.pc = "connected" /\ reducer.valid => e.seq > reducer.consumed

\* A shutdown that met its deadline leaves no task running, nothing queued and no
\* caller of recover() waiting (finishShutdown, rejectPending).
StopReleases ==
    stop.pc = "done" /\ ~stop.expired =>
        /\ pump.pc = "done" /\ reducer.pc = "done" /\ ~activity.active
        /\ queue.bytes = 0 /\ RetainedCount(queue) = 0
        /\ \A r \in Requests : calls[r].status # "waiting"

\* The bounded queue holds what it charges for, never what was consumed, and nothing
\* after a shutdown (update_queue.ts, finishShutdown).
QueueIsAccountedFor == BudgetHeld /\ ConsumedLeftQueue /\ StopReleases

\* A connected client that lost readiness gets it back, or its reducer is over: each cause
\* of lost readiness leaves a gap or a request behind that leads to a recovery.  A client
\* given a checkpoint may have lost that gap before it is connected.
Heals ==
    Checkpoint = None /\ conn.pc = "connected" /\ ~state.ready ~> state.ready \/ stop.source

\* Every promise of recover() settles.
RequestSettles == \A r \in Requests : calls[r].status = "waiting" ~> calls[r].status \in {"resolved", "rejected"}

\* Recovery keeps what it promises: each call of recover() settles, one that resolves
\* covers what was told before it, and lost readiness comes back (recoverUntilReady).
ClientRecovers == []RequestCovers /\ RequestSettles /\ Heals

=============================================================================
