--------------------------- MODULE WorkerRuntime ---------------------------
(***************************************************************************)
(* The running event worker: the source pump (pump.rs), the drive loop     *)
(* with its recovery and live phases (runtime.rs), the readiness lease     *)
(* both share (metrics.rs), and the Redis writer thread with its request   *)
(* queue (redis_store.rs).                                                 *)
(*                                                                         *)
(* The chain is a growing line of blocks with one log each; block h has    *)
(* hash h.  What the journal does with a log is modelled in EventJournal   *)
(* and how forks are resolved in ForkRuntime; here an append stores the    *)
(* height and moves the recovery cursor.  Every atomic access of the lease *)
(* protocol and every await is a step of its own.  Items and bytes of the  *)
(* source queue share one bound; the log of a height in pump.large exceeds *)
(* the byte budget alone.  Delivery is in canonical mode.                  *)
(***************************************************************************)
EXTENDS RecoveryCoverage, Sequences

CONSTANTS
    MaxHeight,     \* blocks of the chain
    QueueBound,    \* source_queue_bound
    PageBlocks,    \* backfill_page_blocks
    Oversized,     \* heights whose log may be larger than the byte budget
    Notices,       \* cursors of heads, reorgs and removals a provider reports
    MaxLag,        \* blocks canonical_head may be behind the subscription
    MaxFaults      \* bound on failures, lags and notices of one behaviour

Height == 1..MaxHeight

(* A notice that names a block of the chain by its hash gives its height.   *)
ASSUME WorkerAssumption ==
    /\ MaxHeight \in Nat \ {0} /\ QueueBound \in Nat \ {0} /\ PageBlocks \in Nat \ {0}
    /\ Oversized \subseteq Height
    /\ Notices \subseteq ChainCursor
    /\ \A c \in Notices, h \in Height : c.hash = h => c.execution = h
    /\ None \notin [number : Nat, hash : Hash \cup Nat \cup {None}, execution : Nat, order : Nat,
                    commitment : Commitment]
    /\ MaxLag \in Nat /\ MaxFaults \in Nat

VARIABLES
    chain,      \* canonical height
    faults,     \* failures so far
    shutdown,   \* shutdown watch channel
    main,       \* the supervising main task
    activity,   \* source_activity: version with the active bit at bit 0
    active,     \* watch channel from the pump to the runtime
    ready,      \* readiness flag served at /readyz
    queue,      \* source updates on their way to the runtime
    depth,      \* source_queue_depth
    pump,       \* the pump task; large: heights of logs over the byte budget
    runtime,    \* the drive task, with a ForkRuntime or without; stale is history:
                \* a recovery was answered with a head the chain had outgrown
    recovery,   \* RecoveryState
    store,      \* durable logs and cursor, and the Redis writer
    owed        \* history: cursors reported missing since the last recovery

envVars == <<chain, shutdown, main>>
leaseVars == <<activity, active, ready>>
queueVars == <<queue, depth>>
workVars == <<runtime, recovery, store, owed>>
vars == <<envVars, faults, leaseVars, queueVars, pump, workVars>>

BlockCursor(h) == [number |-> h, hash |-> h, execution |-> h, order |-> 0,
                   commitment |-> Canonical]
LogCursor(h) == [BlockCursor(h) EXCEPT !.order = 1]

Log(h) == [kind |-> "log", cursor |-> LogCursor(h)]
Gap(cursor) == [kind |-> "gap", cursor |-> cursor]
Notice == [kind : {"head", "reorg", "removed"}, cursor : Notices]

(* ChainUpdate as far as the worker tells updates apart.                   *)
Update == {Log(h) : h \in Height} \cup Notice
          \cup {Gap(c) : c \in {LogCursor(h) : h \in Oversized} \cup {None}}

Init ==
    /\ chain = 1 /\ faults = 0 /\ shutdown = FALSE /\ main = "serving"
    /\ activity = 0 /\ active = FALSE /\ ready = FALSE
    /\ queue = <<>> /\ depth = 0
    /\ \E large \in SUBSET Oversized :
          pump = [pc |-> "off", then |-> "top", pending |-> Gap(None), ended |-> FALSE,
                  feed |-> 1, ever |-> FALSE, large |-> large]
    /\ \E forks \in BOOLEAN :
          runtime = [pc |-> "start", lease |-> 0, attempted |-> None, cursor |-> 0, head |-> 0,
                     page |-> 0, todo |-> {}, log |-> 0, update |-> Gap(None),
                     back |-> "live", forks |-> forks, stale |-> FALSE]
    /\ recovery = [target |-> None, required |-> None, conflict |-> FALSE]
    /\ store = [durable |-> {}, cursor |-> 0, phase |-> "idle", command |-> 0,
                depth |-> 0, reply |-> "ok"]
    /\ owed = {}

HasForks == runtime.forks

Fault == faults < MaxFaults /\ faults' = faults + 1
NoFault == faults' = faults

-----------------------------------------------------------------------------
(* metrics.rs: the activity version moves by two, bit 0 says active.       *)

(* Mutant: one version for every connection.                               *)
AdvanceUnversioned(a, on) == IF on THEN 1 ELSE 0

Advance(a, on) == 2 * ((a + 2) \div 2) + (IF on THEN 1 ELSE 0)

AdvanceSourceActivity(on) == activity' = Advance(activity, on)

-----------------------------------------------------------------------------
(* pump.rs.                                                                *)

PumpGoes(pc) == pump' = [pump EXCEPT !.pc = pc]

(* The pump is cancelled by shutdown, and aborted once drive returned.     *)
Cancelled == shutdown \/ runtime.pc = "stopped"

(* mark_inactive_parts: lease, flag and watch in this order, then go on.   *)
MarkInactive(then) == pump' = [pump EXCEPT !.pc = "revoke", !.then = then]

Revoke ==
    /\ pump.pc = "revoke" /\ AdvanceSourceActivity(FALSE) /\ PumpGoes("unready")
    /\ UNCHANGED <<envVars, queueVars, workVars, faults, active, ready>>

Unready ==
    /\ pump.pc = "unready" /\ ready' = FALSE /\ PumpGoes("deactivate")
    /\ UNCHANGED <<envVars, queueVars, workVars, faults, activity, active>>

Deactivate ==
    /\ pump.pc = "deactivate" /\ active' = FALSE /\ PumpGoes(pump.then)
    /\ UNCHANGED <<envVars, queueVars, workVars, faults, activity, ready>>

(* Mutant: a pump that waits for a queue slot is not cancelled.            *)
PumpExitsUnlessBlocked ==
    /\ pump.pc \in {"top", "subscribe", "consume", "sleep"} /\ Cancelled
    /\ MarkInactive("stopped")
    /\ UNCHANGED <<envVars, faults, leaseVars, queueVars, workVars>>

(* Cancellation at an await; PumpExitGuard revokes the lease on the way out. *)
PumpExits ==
    /\ \/ pump.pc \in {"top", "subscribe", "consume", "blocked", "sleep"} /\ Cancelled
          /\ MarkInactive("stopped") /\ NoFault
       \/ pump.pc = "consume" /\ Fault /\ MarkInactive("stopped")
    /\ UNCHANGED <<envVars, leaseVars, queueVars, workVars>>

(* One round of run: revoke, subscribe, and announce the new source.       *)
PumpTop ==
    /\ pump.pc \in {"top", "sleep"} /\ ~Cancelled
    /\ IF pump.pc = "top" THEN MarkInactive("subscribe") ELSE PumpGoes("top")
    /\ UNCHANGED <<envVars, leaseVars, queueVars, workVars, faults>>

Subscribe ==
    /\ pump.pc = "subscribe" /\ ~Cancelled
    /\ \/ /\ NoFault
          /\ pump' = [pump EXCEPT !.pc = "connect", !.ever = TRUE, !.feed = chain + 1]
       \/ /\ Fault
          /\ IF pump.ever
             THEN pump' = [pump EXCEPT !.pc = "send", !.pending = Gap(None), !.ended = TRUE]
             ELSE MarkInactive("sleep")
    /\ UNCHANGED <<envVars, leaseVars, queueVars, workVars>>

SourceConnected ==
    /\ pump.pc = "connect" /\ AdvanceSourceActivity(TRUE) /\ PumpGoes("activate")
    /\ UNCHANGED <<envVars, queueVars, workVars, faults, active, ready>>

Activate ==
    /\ pump.pc = "activate" /\ active' = TRUE /\ PumpGoes("consume")
    /\ UNCHANGED <<envVars, queueVars, workVars, faults, activity, ready>>

TooLarge(update) == update.kind = "log" /\ update.cursor.number \in pump.large

(* normalize_update: an update over the byte budget becomes a Gap.         *)
NormalizeUpdate(update) == IF TooLarge(update) THEN Gap(update.cursor) ELSE update

Terminal(update) == update.kind = "gap" \/ TooLarge(update)

(* consume: a terminal update revokes the lease before it is sent.         *)
Take(update, feed) ==
    pump' = [pump EXCEPT !.pending = NormalizeUpdate(update), !.feed = feed,
                         !.ended = Terminal(update), !.then = "send",
                         !.pc = IF Terminal(update) THEN "revoke" ELSE "send"]

(* The subscription delivers the next log, reports a notice, or ends with  *)
(* an error, a close or a stall.                                           *)
Consume ==
    /\ pump.pc = "consume" /\ ~Cancelled
    /\ \/ pump.feed <= chain /\ NoFault /\ Take(Log(pump.feed), pump.feed + 1)
       \/ Fault /\ \E update \in Notice \cup {Gap(None)} : Take(update, pump.feed)
    /\ UNCHANGED <<envVars, leaseVars, queueVars, workVars>>

(* send: reserve a slot, count the update, and hand it over.               *)
Reserve ==
    /\ \/ pump.pc = "send"
       \/ pump.pc = "blocked" /\ ~Cancelled
    /\ Len(queue) < QueueBound
    /\ depth' = depth + 1 /\ PumpGoes("push")
    /\ UNCHANGED <<envVars, leaseVars, workVars, faults, queue>>

Saturated ==
    /\ \/ pump.pc = "send" /\ Len(queue) = QueueBound /\ PumpGoes("saturated")
          /\ UNCHANGED ready
       \/ pump.pc = "saturated" /\ ready' = FALSE /\ PumpGoes("blocked")
    /\ UNCHANGED <<envVars, queueVars, workVars, faults, activity, active>>

Push ==
    /\ pump.pc = "push" /\ queue' = Append(queue, pump.pending)
    /\ IF pump.ended THEN MarkInactive("sleep") ELSE PumpGoes("consume")
    /\ UNCHANGED <<envVars, leaseVars, workVars, faults, depth>>

PumpNext ==
    \/ Revoke \/ Unready \/ Deactivate \/ PumpExits \/ PumpTop \/ Subscribe
    \/ SourceConnected \/ Activate \/ Consume \/ Reserve \/ Saturated \/ Push

-----------------------------------------------------------------------------
(* redis_store.rs: the writer thread takes one command at a time.  A reply *)
(* lost after the script ran is answered like a failure before it.         *)

AppendLog(h) ==
    [store EXCEPT !.durable = @ \cup {h}, !.cursor = IF h > @ THEN h ELSE @]

(* request: counted, then handed to the writer.                            *)
Request(h) ==
    store' = [store EXCEPT !.command = h, !.phase = "queued", !.depth = @ + 1]

(* execute: appended, failed with or without effect, or refused.           *)
Execute ==
    /\ store.phase = "queued"
    /\ \/ /\ NoFault
          /\ store' = [AppendLog(store.command) EXCEPT !.phase = "executed", !.reply = "ok"]
       \/ /\ Fault
          /\ \/ store' = [AppendLog(store.command) EXCEPT !.phase = "executed",
                                                          !.reply = "retry"]
             \/ \E reply \in {"retry", "refused"} :
                   store' = [store EXCEPT !.phase = "executed", !.reply = reply]
    /\ UNCHANGED <<envVars, leaseVars, queueVars, pump, runtime, recovery, owed>>

(* Mutant: the caller is answered before the depth guard is dropped.       *)
RespondFirst ==
    /\ \/ /\ store.phase = "executed"
          /\ store' = [store EXCEPT !.phase = "answered"]
       \/ /\ store.phase = "idle" /\ store.depth > 0 /\ runtime.pc = "live"
          /\ store' = [store EXCEPT !.depth = @ - 1]
    /\ UNCHANGED <<envVars, faults, leaseVars, queueVars, pump, runtime, recovery, owed>>

(* run: the depth guard is dropped, then the reply is sent.                *)
Respond ==
    /\ store.phase = "executed"
    /\ store' = [store EXCEPT !.phase = "answered", !.depth = @ - 1]
    /\ UNCHANGED <<envVars, faults, leaseVars, queueVars, pump, runtime, recovery, owed>>

WriterNext == Execute \/ Respond

-----------------------------------------------------------------------------
(* runtime/recovery_state.rs.                                              *)

(* merge_required: a contradiction is remembered until a recovery succeeds. *)
MergeRequired(state, cursor) ==
    IF MergeConflicts(state.required, cursor) THEN [state EXCEPT !.conflict = TRUE]
    ELSE [state EXCEPT !.required = Merge(@, cursor)]

Continue == [kind |-> "continue", cursor |-> None]
Recover(target) == [kind |-> "recover", cursor |-> target]
RecoverRequired(cursor) == [kind |-> "required", cursor |-> cursor]

(* apply: the RecoveryState after a transition.                            *)
Apply(transition) ==
    CASE transition.kind = "continue" ->
            [recovery EXCEPT !.required = None, !.conflict = FALSE]
      [] transition.kind = "recover" /\ HasForks ->
            [recovery EXCEPT !.target = transition.cursor]
      [] transition.kind = "recover" /\ ~HasForks /\ transition.cursor = None ->
            [recovery EXCEPT !.target = None]
      [] OTHER -> MergeRequired([recovery EXCEPT !.target = None], transition.cursor)

-----------------------------------------------------------------------------
(* runtime.rs: drive.                                                      *)

RuntimeGoes(pc) == runtime' = [runtime EXCEPT !.pc = pc]

(* The transition is applied and the loop starts over.                     *)
Retry(transition) ==
    /\ recovery' = Apply(transition) /\ RuntimeGoes("top")
    /\ owed' = IF transition.cursor = None \/ (HasForks /\ transition.kind = "recover")
               THEN owed ELSE owed \cup {transition.cursor}

(* A failed recovery keeps the target it was started with.                 *)
FailRecovery ==
    /\ ready' = FALSE
    /\ recovery' = [recovery EXCEPT !.target = runtime.attempted]
    /\ RuntimeGoes("pause")

(* initialize_store: retried while Redis is away, given up when it refuses *)
(* the deployment or its durability settings; then the pump is spawned.    *)
InitializeStore ==
    /\ runtime.pc = "start"
    /\ \/ ~shutdown /\ NoFault /\ RuntimeGoes("top") /\ PumpGoes("top")
       \/ ~shutdown /\ Fault /\ RuntimeGoes("start") /\ UNCHANGED pump
       \/ ~shutdown /\ Fault /\ RuntimeGoes("returned") /\ UNCHANGED pump
       \/ shutdown /\ NoFault /\ RuntimeGoes("returned") /\ UNCHANGED pump
    /\ UNCHANGED <<envVars, leaseVars, queueVars, recovery, store, owed>>

LoopTop ==
    /\ runtime.pc = "top" /\ ready' = FALSE /\ RuntimeGoes("wait")
    /\ UNCHANGED <<envVars, faults, activity, active, queueVars, pump, recovery, store, owed>>

(* wait_until_active, and the pause of a conflicting watermark.            *)
WaitUntilActive ==
    /\ runtime.pc = "wait"
    /\ \/ active /\ RuntimeGoes(IF recovery.conflict THEN "pause" ELSE "lease")
       \/ ~active /\ (shutdown \/ pump.pc = "stopped") /\ RuntimeGoes("returned")
    /\ UNCHANGED <<envVars, faults, leaseVars, queueVars, pump, recovery, store, owed>>

(* sleep_or_shutdown; the pause after a failed live update clears the      *)
(* target.                                                                 *)
Pause ==
    /\ runtime.pc \in {"pause", "pause_live"}
    /\ RuntimeGoes(IF shutdown THEN "returned" ELSE "top")
    /\ recovery' = IF runtime.pc = "pause_live" /\ ~shutdown
                   THEN [recovery EXCEPT !.target = None] ELSE recovery
    /\ UNCHANGED <<envVars, faults, leaseVars, queueVars, pump, store, owed>>

(* source_lease, and the filter on the activity watch.                     *)
SourceLease ==
    /\ \/ /\ runtime.pc = "lease"
          /\ runtime' = [runtime EXCEPT !.pc = "leased", !.lease = activity]
          /\ UNCHANGED recovery
       \/ /\ runtime.pc = "leased"
          /\ IF runtime.lease % 2 = 1 /\ active
             THEN /\ runtime' = [runtime EXCEPT !.pc = "reconcile",
                                                !.attempted = recovery.target]
                  /\ recovery' = [recovery EXCEPT !.target = None]
             ELSE RuntimeGoes("top") /\ UNCHANGED recovery
    /\ UNCHANGED <<envVars, faults, leaseVars, queueVars, pump, store, owed>>

-----------------------------------------------------------------------------
(* runtime.rs: recover.                                                    *)

(* ForkRuntime::reconcile succeeds or fails; its steps are ForkRuntime's.  *)
Reconcile ==
    /\ runtime.pc = "reconcile"
    /\ \/ NoFault /\ RuntimeGoes(IF shutdown THEN "returned" ELSE "head")
          /\ UNCHANGED <<ready, recovery>>
       \/ HasForks /\ Fault /\ FailRecovery
    /\ UNCHANGED <<envVars, activity, active, queueVars, pump, store, owed>>

(* The durable cursor's block, or the deployment block.                    *)
FromBlock == IF store.cursor = 0 THEN 1 ELSE store.cursor

(* Mutant: the required cursor is not compared with the head.              *)
HeadAcceptedAnyway(h) == FromBlock <= h

HeadAccepted(h) ==
    /\ recovery.required # None =>
          HeadCovers(recovery.required, BlockCursor(h)) = "covered"
    /\ FromBlock <= h

(* load_cursor and canonical_head: the provider may answer with a head it  *)
(* has outgrown or fail, and the head must cover what is required.         *)
ReadHead ==
    /\ runtime.pc = "head"
    /\ \E h \in 0..chain :
          /\ h >= chain - MaxLag
          /\ IF h < chain THEN Fault ELSE NoFault
          /\ IF HeadAccepted(h)
             THEN /\ runtime' = [runtime EXCEPT !.pc = "backfill", !.head = h,
                                    !.page = FromBlock, !.cursor = store.cursor,
                                    !.stale = @ \/ h < chain]
                  /\ UNCHANGED <<ready, recovery>>
             ELSE FailRecovery
    /\ UNCHANGED <<envVars, activity, active, queueVars, pump, store, owed>>

ReadHeadFails ==
    /\ runtime.pc \in {"head", "backfill"} /\ Fault /\ FailRecovery
    /\ UNCHANGED <<envVars, activity, active, queueVars, pump, store, owed>>

PageEnd ==
    LET end == runtime.page + PageBlocks - 1
    IN  IF end < runtime.head THEN end ELSE runtime.head

Uncovered(h) ==
    \/ runtime.cursor = 0
    \/ ~RecoveryLogIsCovered(HasForks, LogCursor(h), LogCursor(runtime.cursor))

(* backfill of one page: its logs, without the covered ones.               *)
PageLogs == {h \in runtime.page..PageEnd : Uncovered(h)}

(* Fetch a page, or persist the first of its logs, or go on after it.      *)
Backfill ==
    /\ runtime.pc = "backfill"
    /\ runtime' = [runtime EXCEPT !.pc = "persist_page", !.todo = PageLogs]
    /\ UNCHANGED <<envVars, faults, leaseVars, queueVars, pump, recovery, store, owed>>

PersistPage ==
    /\ runtime.pc = "persist_page"
    /\ \/ \E h \in runtime.todo :
             /\ \A g \in runtime.todo : h <= g
             /\ runtime' = [runtime EXCEPT !.pc = "persist", !.log = h, !.todo = @ \ {h},
                                           !.back = "persist_page"]
       \/ runtime.todo = {} /\ PageEnd = runtime.head /\ RuntimeGoes("drain")
       \/ /\ runtime.todo = {} /\ PageEnd # runtime.head
          /\ runtime' = [runtime EXCEPT !.pc = "backfill", !.page = PageEnd + 1]
    /\ UNCHANGED <<envVars, faults, leaseVars, queueVars, pump, recovery, store, owed>>

-----------------------------------------------------------------------------
(* persist.rs: log.                                                        *)

(* Submit the log to the writer.                                           *)
Persist ==
    /\ runtime.pc = "persist" /\ store.phase = "idle"
    /\ IF shutdown THEN RuntimeGoes("returned") /\ UNCHANGED store
       ELSE Request(runtime.log) /\ RuntimeGoes("await")
    /\ UNCHANGED <<envVars, faults, leaseVars, queueVars, pump, recovery, owed>>

(* Mutant: a log whose append failed is not tried again.                   *)
AwaitWithoutRetry ==
    /\ runtime.pc = "await"
    /\ \/ /\ shutdown /\ RuntimeGoes("returned")
          /\ UNCHANGED <<ready, recovery, store, owed>>
       \/ /\ ~shutdown /\ store.phase = "answered"
          /\ store' = [store EXCEPT !.phase = "idle"]
          /\ \/ store.reply = "ok" /\ RuntimeGoes(runtime.back)
                /\ UNCHANGED <<ready, recovery, owed>>
             \/ store.reply = "retry" /\ RuntimeGoes(runtime.back) /\ ready' = FALSE
                /\ UNCHANGED <<recovery, owed>>
             \/ store.reply = "refused" /\ Retry(Recover(BlockCursor(runtime.log)))
                /\ ready' = FALSE
    /\ UNCHANGED <<envVars, faults, activity, active, queueVars, pump>>

(* The reply: appended, retried after redis_failure and a pause, or        *)
(* refused, which asks for recovery at the log's block.  A shutdown drops  *)
(* the future and leaves the command to the writer.                        *)
Await ==
    /\ runtime.pc = "await"
    /\ \/ /\ shutdown /\ RuntimeGoes("returned")
          /\ UNCHANGED <<ready, recovery, store, owed>>
       \/ /\ ~shutdown /\ store.phase = "answered"
          /\ store' = [store EXCEPT !.phase = "idle"]
          /\ \/ store.reply = "ok" /\ RuntimeGoes(runtime.back)
                /\ UNCHANGED <<ready, recovery, owed>>
             \/ store.reply = "retry" /\ RuntimeGoes("persist") /\ ready' = FALSE
                /\ UNCHANGED <<recovery, owed>>
             \/ store.reply = "refused" /\ Retry(Recover(BlockCursor(runtime.log)))
                /\ ready' = FALSE
    /\ UNCHANGED <<envVars, faults, activity, active, queueVars, pump>>

-----------------------------------------------------------------------------
(* runtime.rs: handle_update.                                              *)

Dequeue(back) ==
    /\ queue # <<>>
    /\ queue' = Tail(queue) /\ depth' = depth - 1
    /\ runtime' = [runtime EXCEPT !.pc = "handle", !.update = Head(queue), !.back = back]

HandleLog ==
    /\ runtime.pc = "handle" /\ runtime.update.kind = "log"
    /\ runtime' = [runtime EXCEPT !.pc = "persist", !.log = runtime.update.cursor.number]
    /\ UNCHANGED <<envVars, faults, leaseVars, queueVars, pump, recovery, store, owed>>

(* A Gap, a reorg or a removal: unready, then recovery.                    *)
HandleControl ==
    /\ runtime.pc = "handle" /\ runtime.update.kind \in {"gap", "reorg", "removed"}
    /\ ready' = FALSE
    /\ LET update == runtime.update
       IN  Retry(IF update.kind = "gap" /\ update.cursor # None
                 THEN RecoverRequired(update.cursor)
                 ELSE IF update.kind = "removed" /\ ~HasForks THEN Recover(None)
                 ELSE Recover(update.cursor))
    /\ UNCHANGED <<envVars, faults, activity, active, queueVars, pump, store>>

(* A head continues the chain, asks the fork runtime for recovery, or is   *)
(* refused by the journal, an error of recover or of consume_live.         *)
HandleHead ==
    /\ runtime.pc = "handle" /\ runtime.update.kind = "head"
    /\ \/ RuntimeGoes(runtime.back) /\ UNCHANGED <<ready, recovery, owed>>
       \/ HasForks /\ Retry(Recover(runtime.update.cursor)) /\ UNCHANGED ready
       \/ ~HasForks /\ runtime.back = "drain" /\ FailRecovery /\ UNCHANGED owed
       \/ ~HasForks /\ runtime.back = "check" /\ ready' = FALSE
          /\ RuntimeGoes("pause_live") /\ UNCHANGED <<recovery, owed>>
    /\ UNCHANGED <<envVars, faults, activity, active, queueVars, pump, store>>

(* recover: updates queued meanwhile are handled before it ends.           *)
Drain ==
    /\ runtime.pc = "drain"
    /\ \/ Dequeue("drain")
       \/ queue = <<>> /\ RuntimeGoes("drained") /\ UNCHANGED queueVars
    /\ UNCHANGED <<envVars, faults, leaseVars, pump, recovery, store, owed>>

Drained ==
    /\ runtime.pc = "drained"
    /\ IF active THEN /\ recovery' = Apply(Continue) /\ RuntimeGoes("check")
                      /\ owed' = {}
       ELSE Retry(Recover(None))
    /\ UNCHANGED <<envVars, faults, leaseVars, queueVars, pump, store>>

-----------------------------------------------------------------------------
(* publish_ready_if: compare, store, compare again.                        *)

Check ==
    /\ runtime.pc = "check"
    /\ RuntimeGoes(IF active /\ depth = 0 /\ store.depth = 0 THEN "publish" ELSE "live")
    /\ UNCHANGED <<envVars, faults, leaseVars, queueVars, pump, recovery, store, owed>>

LeaseHeld == activity = runtime.lease

ComparePublish ==
    /\ runtime.pc = "publish"
    /\ IF LeaseHeld THEN RuntimeGoes("store") /\ UNCHANGED <<recovery, owed>>
       ELSE Retry(Recover(None))
    /\ UNCHANGED <<envVars, faults, leaseVars, queueVars, pump, store>>

StoreReady ==
    /\ runtime.pc = "store" /\ ready' = TRUE /\ RuntimeGoes("confirm")
    /\ UNCHANGED <<envVars, faults, activity, active, queueVars, pump, recovery, store, owed>>

(* Mutant: what was stored is not confirmed.                               *)
ConfirmSkipped ==
    /\ runtime.pc = "confirm" /\ RuntimeGoes("live") /\ UNCHANGED <<recovery, owed>>
    /\ UNCHANGED <<envVars, faults, leaseVars, queueVars, pump, store>>

ConfirmReady ==
    /\ \/ /\ runtime.pc = "confirm" /\ RuntimeGoes(IF LeaseHeld THEN "live" ELSE "withdraw")
          /\ UNCHANGED <<ready, recovery, owed>>
       \/ runtime.pc = "withdraw" /\ ready' = FALSE /\ Retry(Recover(None))
    /\ UNCHANGED <<envVars, faults, activity, active, queueVars, pump, store>>

(* consume_live: the next update; a closed channel ends the worker.        *)
Live ==
    /\ runtime.pc = "live"
    /\ \/ ~shutdown /\ Dequeue("check")
       \/ shutdown /\ RuntimeGoes("returned") /\ UNCHANGED queueVars
       \/ queue = <<>> /\ pump.pc = "stopped" /\ RuntimeGoes("returned")
          /\ UNCHANGED queueVars
    /\ UNCHANGED <<envVars, faults, leaseVars, pump, recovery, store, owed>>

(* run: readiness is withdrawn and the pump aborted.                       *)
Return ==
    /\ runtime.pc = "returned" /\ ready' = FALSE /\ RuntimeGoes("stopped")
    /\ UNCHANGED <<envVars, faults, activity, active, queueVars, pump, recovery, store, owed>>

RuntimeNext ==
    \/ InitializeStore \/ LoopTop \/ WaitUntilActive \/ Pause \/ SourceLease
    \/ Reconcile \/ ReadHead \/ ReadHeadFails \/ Backfill \/ PersistPage
    \/ Persist \/ Await \/ HandleLog \/ HandleControl \/ HandleHead \/ Drain \/ Drained
    \/ Check \/ ComparePublish \/ StoreReady \/ ConfirmReady \/ Live \/ Return

-----------------------------------------------------------------------------

(* main: a signal or the end of the worker stops the service; the worker   *)
(* is joined, and the writer finishes what it was handed.                  *)
StopServing ==
    /\ main = "serving" /\ main' = "joining"
    /\ shutdown' = TRUE /\ ready' = FALSE
    /\ UNCHANGED <<chain, faults, activity, active, queueVars, pump, workVars>>

JoinWorker ==
    /\ main = "joining" /\ runtime.pc = "stopped" /\ main' = "writer"
    /\ UNCHANGED <<chain, shutdown, faults, leaseVars, queueVars, pump, workVars>>

JoinRedis ==
    /\ main = "writer" /\ store.phase \in {"idle", "answered"} /\ main' = "exited"
    /\ UNCHANGED <<chain, shutdown, faults, leaseVars, queueVars, pump, workVars>>

(* The environment: the chain grows.                                       *)
NewBlock ==
    /\ chain < MaxHeight /\ chain' = chain + 1
    /\ UNCHANGED <<shutdown, main, faults, leaseVars, queueVars, pump, workVars>>

Next == PumpNext \/ WriterNext \/ RuntimeNext \/ NewBlock
        \/ StopServing \/ JoinWorker \/ JoinRedis

(* Tasks and the writer thread are scheduled; providers and Redis answer,  *)
(* and not always with a failure.  Faults themselves are never fair.       *)
Spec == Init /\ [][Next]_vars

FairSpec ==
    /\ Spec
    /\ WF_vars(PumpNext /\ NoFault) /\ WF_vars(WriterNext /\ NoFault)
    /\ WF_vars(RuntimeNext /\ NoFault) /\ WF_vars(NewBlock)
    /\ WF_vars(runtime.pc = "stopped" /\ StopServing) /\ WF_vars(JoinWorker)
    /\ WF_vars(JoinRedis)

-----------------------------------------------------------------------------

TypeOK ==
    /\ chain \in 1..MaxHeight /\ faults \in 0..MaxFaults
    /\ {shutdown, active, ready} \subseteq BOOLEAN /\ activity \in Nat
    /\ queue \in Seq(Update) /\ Len(queue) <= QueueBound
    /\ depth \in Len(queue)..(Len(queue) + 1)
    /\ store.durable \subseteq Height /\ store.cursor \in 0..MaxHeight
    /\ store.depth = IF store.phase \in {"queued", "executed"} THEN 1 ELSE 0

(* Between a store of readiness and its confirmation, and between a        *)
(* revocation and its effect on the flag, ready is about to be corrected.  *)
Settled == runtime.pc \notin {"confirm", "withdraw"} /\ pump.pc # "unready"

(* A settled readiness flag belongs to the subscription the last completed *)
(* recovery started under: publish_ready_if and mark_inactive leave no     *)
(* flag behind that was earned before a disconnect.                        *)
ReadyHoldsLease == ready /\ Settled => LeaseHeld /\ activity % 2 = 1

(* While the worker is ready and neither shutting down nor about to revoke *)
(* that, every block's log is durable or still on its way to the runtime:  *)
(* recoveries that read current heads covered all that was missed.         *)
ReadyIsContinuous ==
    ready /\ Settled /\ ~shutdown /\ pump.pc # "revoke" /\ ~runtime.stale =>
        \A h \in 1..chain :
            \/ h \in store.durable \/ h >= pump.feed
            \/ Log(h) = pump.pending /\ pump.pc \in {"send", "saturated", "blocked", "push"}
            \/ \E i \in DOMAIN queue : queue[i] = Log(h)
            \/ runtime.pc = "handle" /\ runtime.update = Log(h)
            \/ runtime.pc \in {"persist", "await"} /\ runtime.log = h

(* Both together: readiness, as pump and drive loop publish it, is never   *)
(* left over from another subscription and never hides a lost log.         *)
ReadinessHolds == ReadyHoldsLease /\ ReadyIsContinuous

(* The recovery cursor never passes a log that is not durable: backfill    *)
(* starts at the cursor, so a log behind it would be lost for good.        *)
CursorIsComplete ==
    ~runtime.stale => \A h \in Height : h <= store.cursor => h \in store.durable

(* A recovery reads a head that covers every cursor reported as missing    *)
(* since the last completed one, also when the provider lags.              *)
RecoveryCoversOwed ==
    runtime.pc \in {"backfill", "persist_page"} =>
        \A c \in owed : HeadCovers(c, BlockCursor(runtime.head)) = "covered"

(* Both together: what recovery reads and where it starts leave no log     *)
(* behind (runtime.rs recover, persist.rs).                                *)
RecoveryLosesNothing == CursorIsComplete /\ RecoveryCoversOwed

(* The pump waits for a queue slot to report a Gap, and the drive loop for *)
(* the pump to be active before it takes anything from the queue.          *)
Stalled == pump.pc = "blocked" /\ pump.ended /\ runtime.pc = "wait" /\ ~active

(* Once failures stop, the worker becomes ready with every log durable,    *)
(* and stays so, unless it was shut down, its pump died, a recovery was    *)
(* answered with an old head, or pump and drive loop wait for each other:  *)
(* nothing else keeps it from catching up.                                 *)
CatchesUp ==
    \/ <>(shutdown \/ pump.then = "stopped")
    \/ <>[](ready /\ store.durable = 1..chain)
    \/ <>[](Stalled \/ runtime.stale)

(* A shutdown ends the tasks whatever they wait for and the process exits  *)
(* unready; a pump that died on its own takes the process down with it.    *)
ShutdownEnds ==
    (shutdown \/ pump.then = "stopped") ~>
        [](main = "exited" /\ pump.pc \in {"off", "stopped"} /\ ~ready)

(* Both together: the worker catches up, or ends once told to (drive,      *)
(* main.rs).                                                               *)
CatchesUpOrEnds == CatchesUp /\ ShutdownEnds

(* What pump.rs:174-176 says: once a receiver observes inactivity, no      *)
(* lease can publish Ready.  Refuted: the lease is compared before and     *)
(* after the flag is stored, which is true in between.                     *)
InactiveIsUnready == ~active => ~ready

=============================================================================
