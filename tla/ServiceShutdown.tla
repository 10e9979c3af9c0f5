--------------------------- MODULE ServiceShutdown ---------------------------
(***************************************************************************)
(* The quote indexer service from serving to process end: the client's two *)
(* phase shutdown (source first, then the reducer, which drains its queue) *)
(* shared by concurrent callers, the periodic and final checkpoint writes  *)
(* behind one gate, and the compare-and-set of checkpoints in Redis.       *)
(*                                                                         *)
(* A checkpoint is the number of updates reduced into it; Cursors gives    *)
(* the position each number stands for.  What reduction and recovery do to *)
(* the state is modelled in QuoteIndexing; here a recovery either brings   *)
(* the state up to all accepted updates or is cut short by cancellation.   *)
(* A write runs on a blocking thread: dropping the future that waits for   *)
(* it does not stop it.                                                    *)
(***************************************************************************)
EXTENDS Integers, Sequences, FiniteSets

CONSTANTS
    Owner,        \* callers of shutdown_gracefully_with_checkpoint
    Service,      \* the one that is the service's run()
    Cursors,      \* the cursor after each update: [block, log, commitment]
    MaxQueue, MaxFaults

Task == {"source_pump", "freshness", "reducer"}

VARIABLES
    tasks,      \* each task: "running", "done" or, once its handle is taken, "joined"
    stuck,      \* tasks that do not notice cancellation
    aborted,    \* tasks whose handle was aborted
    client,     \* cancellation flags, admission, queue and reducer
    owner,      \* each caller of shutdown
    shut,       \* RuntimeTasks: the lock, forced_abort and completion
    service,    \* run(): its position and its deadline
    ckpt,       \* the checkpoint loop and the gate around writes
    redis, writes,
    faults

vars == <<tasks, stuck, aborted, client, owner, shut, service, ckpt, redis, writes, faults>>

None == "none"
Total == Len(Cursors)
Ok(n) == [ok |-> TRUE, at |-> n]
Failed == [ok |-> FALSE, at |-> 0]
Pending == [ok |-> FALSE, at |-> -1]

ASSUME ServiceShutdownAssumption ==
    /\ Service \in Owner /\ None \notin Owner
    /\ MaxQueue \in Nat \ {0} /\ MaxFaults \in Nat
    /\ Cursors \in Seq([block : Nat, log : Nat, commitment : Nat]) /\ Cursors # <<>>
-----------------------------------------------------------------------------
(* The checkpoint store *)

\* checkpoint_order(): block, position kind, log and commitment, compared as
\* fixed-width text.
CheckpointOrder(n) ==
    LET c == Cursors[n]
    IN  <<c.block, IF c.log = 0 THEN 0 ELSE 1, c.log, c.commitment>>

Precedes(a, b) ==
    \E i \in DOMAIN a : a[i] < b[i] /\ \A j \in 1..(i - 1) : a[j] = b[j]

\* A write that replaces whatever is stored.
StoreAlways(current, n) == n

\* The script: an empty key (or a value without an order) or a strictly later order is stored, anything
\* else, a conflicting value at the same position included, is left alone.
Store(current, n) ==
    IF current = 0 \/ Precedes(CheckpointOrder(current), CheckpointOrder(n)) THEN n ELSE current
-----------------------------------------------------------------------------
(* The client's tasks *)

Running(t) == tasks[t] = "running"
Finish(t) == tasks' = [tasks EXCEPT ![t] = "done"]
IsReady == ~client.stopping /\ ~client.recovering

\* supervise_task(): whichever way a task ends, admission stops; a panic, and an
\* end nobody asked for, are also reported as events.
Supervised(panicked) ==
    client' = [client EXCEPT !.stopping = TRUE, !.panicked = @ \/ panicked,
                             !.reported = @ \/ panicked \/ ~client.cancel]

Accept ==
    /\ Running("source_pump") /\ Running("reducer")
    /\ client.queue < MaxQueue /\ client.accepted < Total
    /\ client' = [client EXCEPT !.queue = @ + 1, !.accepted = @ + 1]
    /\ UNCHANGED <<tasks, stuck, aborted, owner, shut, service, ckpt, redis, writes, faults>>

\* The pump and the watchdog return when they notice cancellation, the pump
\* also when nobody receives from it.
StopCancelled(t) ==
    /\ t # "reducer"
    /\ Running(t) /\ t \notin stuck
    /\ client.cancel \/ (t = "source_pump" /\ ~Running("reducer"))
    /\ Finish(t)
    /\ Supervised(FALSE)
    /\ UNCHANGED <<stuck, aborted, owner, shut, service, ckpt, redis, writes, faults>>

Reduce ==
    /\ Running("reducer") /\ "reducer" \notin stuck
    /\ ~client.recovering /\ client.valid /\ client.queue > 0
    /\ client' = [client EXCEPT !.queue = @ - 1, !.reduced = @ + 1]
    /\ UNCHANGED <<tasks, stuck, aborted, owner, shut, service, ckpt, redis, writes, faults>>

\* A transition fails: recovery while serving, an invalid state while draining.
TransitionFails ==
    /\ faults < MaxFaults
    /\ faults' = faults + 1
    /\ Running("reducer") /\ "reducer" \notin stuck
    /\ ~client.recovering /\ client.valid /\ client.queue > 0
    /\ client' = IF client.reducerCancel THEN [client EXCEPT !.valid = FALSE]
                 ELSE [client EXCEPT !.recovering = TRUE]
    /\ UNCHANGED <<tasks, stuck, aborted, owner, shut, service, ckpt, redis, writes>>

\* A recovered state is installed.  Recovery ends only if admission can be
\* granted again; otherwise it is tried again.
Recover ==
    /\ Running("reducer") /\ client.recovering
    /\ client' = [client EXCEPT !.recovering = client.stopping \/ ~Running("source_pump"),
                                !.queue = 0, !.reduced = client.accepted]
    /\ UNCHANGED <<tasks, stuck, aborted, owner, shut, service, ckpt, redis, writes, faults>>

\* The reducer returns: cancelled, from the middle of a recovery or when the
\* queue is drained and its sender gone; or because the sender is gone.
StopReducer ==
    /\ Running("reducer") /\ "reducer" \notin stuck
    /\ \/ client.recovering /\ (client.reducerCancel \/ ~Running("source_pump"))
       \/ /\ ~client.recovering
          /\ ~Running("source_pump")
          /\ client.queue = 0 \/ ~client.valid
    /\ Finish("reducer")
    /\ Supervised(FALSE)
    /\ UNCHANGED <<stuck, aborted, owner, shut, service, ckpt, redis, writes, faults>>

\* A task panics.
Panic(t) ==
    /\ faults < MaxFaults
    /\ faults' = faults + 1
    /\ Running(t)
    /\ Finish(t)
    /\ Supervised(TRUE)
    /\ UNCHANGED <<stuck, aborted, owner, shut, service, ckpt, redis, writes>>

\* An aborted task ends at its next await.
StopAborted(t) ==
    /\ t \in aborted /\ Running(t)
    /\ Finish(t)
    /\ UNCHANGED <<stuck, aborted, client, owner, shut, service, ckpt, redis, writes, faults>>
-----------------------------------------------------------------------------
(* shutdown_gracefully_with_checkpoint *)

Phase(o) == owner[o].phase
GoTo(o, phase) == owner' = [owner EXCEPT ![o].phase = phase]

\* The lock is released with the outcome that later callers will get.
FinishShutdown(o, outcome) ==
    /\ shut' = [shut EXCEPT !.holder = None, !.completion = outcome]
    /\ owner' = [owner EXCEPT ![o] = [phase |-> "returned", result |-> outcome]]

\* begin_shutdown() and the source's cancellation precede the lock.
BeginShutdown(o) ==
    /\ Phase(o) = "idle"
    /\ o = Service => service.at = "client"
    /\ client' = [client EXCEPT !.stopping = TRUE, !.cancel = TRUE]
    /\ GoTo(o, "lock")
    /\ UNCHANGED <<tasks, stuck, aborted, shut, service, ckpt, redis, writes, faults>>

AbortRemaining == aborted' = aborted \union {t \in Task : tasks[t] # "joined"}

\* The lock, then the cached outcome, the rest of a forced abort, or the joins.
LockTasks(o) ==
    /\ Phase(o) = "lock" /\ shut.holder = None
    /\ \/ /\ shut.completion # Pending
          /\ owner' = [owner EXCEPT ![o] = [phase |-> "returned", result |-> shut.completion]]
          /\ UNCHANGED <<shut, client, aborted>>
       \/ /\ shut.completion = Pending /\ shut.forced
          /\ shut' = [shut EXCEPT !.holder = o]
          /\ client' = [client EXCEPT !.reducerCancel = TRUE]
          /\ AbortRemaining
          /\ GoTo(o, "aborting")
       \/ /\ shut.completion = Pending /\ ~shut.forced
          /\ shut' = [shut EXCEPT !.holder = o]
          /\ GoTo(o, "joining")
          /\ UNCHANGED <<client, aborted>>
    /\ UNCHANGED <<tasks, stuck, service, ckpt, redis, writes, faults>>

\* join_slot(): the handle is taken only after the await, so a caller dropped
\* while waiting leaves it for the next one.
JoinSlot(t) == tasks[t] = "done" /\ tasks' = [tasks EXCEPT ![t] = "joined"]

JoinSource(o) ==
    /\ Phase(o) = "joining"
    /\ \/ JoinSlot("source_pump")
       \/ tasks["source_pump"] = "joined" /\ JoinSlot("freshness")
    /\ UNCHANGED <<stuck, aborted, client, owner, shut, service, ckpt, redis, writes, faults>>

CancelReducer(o) ==
    /\ Phase(o) = "joining"
    /\ tasks["source_pump"] = "joined" /\ tasks["freshness"] = "joined"
    /\ ~client.reducerCancel
    /\ client' = [client EXCEPT !.reducerCancel = TRUE]
    /\ UNCHANGED <<tasks, stuck, aborted, owner, shut, service, ckpt, redis, writes, faults>>

\* The reducer is joined and the published state captured.
JoinReducer(o) ==
    /\ Phase(o) = "joining"
    /\ client.reducerCancel
    /\ tasks["source_pump"] = "joined" /\ tasks["freshness"] = "joined"
    /\ \/ JoinSlot("reducer")
       \/ tasks["reducer"] = "joined" /\ UNCHANGED tasks
    /\ FinishShutdown(o, Ok(client.reduced))
    /\ UNCHANGED <<stuck, aborted, client, service, ckpt, redis, writes, faults>>

\* The deadline passes: whatever is left is aborted.
TimeOut(o) ==
    /\ Phase(o) = "joining"
    /\ o = Service => service.expired
    /\ shut' = [shut EXCEPT !.forced = TRUE]
    /\ client' = [client EXCEPT !.reducerCancel = TRUE]
    /\ AbortRemaining
    /\ GoTo(o, "aborting")
    /\ UNCHANGED <<tasks, stuck, service, ckpt, redis, writes, faults>>

JoinAborted(o) ==
    /\ Phase(o) = "aborting"
    /\ \A t \in Task : ~Running(t)
    /\ tasks' = [t \in Task |-> "joined"]
    /\ FinishShutdown(o, Failed)
    /\ UNCHANGED <<stuck, aborted, client, service, ckpt, redis, writes, faults>>

\* A caller other than run() may be dropped at any await; its lock goes too.
DropOwner(o) ==
    /\ o # Service
    /\ Phase(o) \in {"lock", "joining", "aborting"}
    /\ GoTo(o, "dropped")
    /\ shut' = [shut EXCEPT !.holder = IF @ = o THEN None ELSE @]
    /\ UNCHANGED <<tasks, stuck, aborted, client, service, ckpt, redis, writes, faults>>
-----------------------------------------------------------------------------
(* Periodic checkpoints *)

\* flush_client(): the gate, the snapshot if ready, the write it waits for.
FlushPeriodic ==
    /\ ckpt.loop = "waiting" /\ ckpt.gate = None
    /\ IsReady
    /\ ckpt' = [ckpt EXCEPT !.loop = "writing", !.gate = "loop"]
    /\ writes' = writes \union {[by |-> "loop", at |-> client.reduced]}
    /\ UNCHANGED <<tasks, stuck, aborted, client, owner, shut, service, redis, faults>>

\* The writer that waits for w goes on; a detached write has none.
Answered(w, lost) ==
    ckpt' = [ckpt EXCEPT !.lost = lost,
                         !.gate = IF @ = w.by THEN None ELSE @,
                         !.loop = IF w.by = "loop" /\ @ = "writing" THEN "waiting" ELSE @]

\* A blocking thread completes its write, or fails it, before or after Redis
\* has done it.
CompleteWrite(w) ==
    /\ w \in writes
    /\ writes' = writes \ {w}
    /\ \/ redis' = Store(redis, w.at) /\ Answered(w, ckpt.lost) /\ UNCHANGED faults
       \/ /\ faults < MaxFaults /\ faults' = faults + 1
          /\ Answered(w, TRUE) /\ redis' \in {redis, Store(redis, w.at)}
    /\ UNCHANGED <<tasks, stuck, aborted, client, owner, shut, service>>

StopLoop ==
    /\ service.at # "serving"
    /\ ckpt.loop = "waiting"
    /\ ckpt' = [ckpt EXCEPT !.loop = "gone"]
    /\ UNCHANGED <<tasks, stuck, aborted, client, owner, shut, service, redis, writes, faults>>

\* Another replica of the service writes to the same key.
OtherReplica ==
    /\ faults < MaxFaults
    /\ faults' = faults + 1
    /\ \E n \in 1..Total : redis' = Store(redis, n)
    /\ UNCHANGED <<tasks, stuck, aborted, client, owner, shut, service, ckpt, writes>>
-----------------------------------------------------------------------------
(* run() *)

At(s) == service.at = s
Deadline ==
    /\ ~At("serving") /\ ~service.expired
    /\ service' = [service EXCEPT !.expired = TRUE]
    /\ UNCHANGED <<tasks, stuck, aborted, client, owner, shut, ckpt, redis, writes, faults>>

\* Admission stops and the checkpoint loop is told, whatever the reason.
BeginStop ==
    /\ At("serving")
    /\ service' = [service EXCEPT !.at = "loop"]
    /\ client' = [client EXCEPT !.stopping = TRUE]
    /\ UNCHANGED <<tasks, stuck, aborted, owner, shut, ckpt, redis, writes, faults>>

\* A signal, or the end of the HTTP task.
Signal == BeginStop

\* A task that panicked goes unnoticed.
RuntimeFailureExceptPanics == client.reported /\ ~client.panicked /\ BeginStop

\* wait_for_runtime_failure(): a task of the client reported its end.
RuntimeFailure == client.reported /\ BeginStop

\* The checkpoint loop is joined, or aborted at the deadline: its gate opens
\* while its write may still run.
JoinLoop ==
    /\ At("loop")
    /\ \/ ckpt.loop = "gone" /\ UNCHANGED ckpt
          /\ service' = [service EXCEPT !.at = "client"]
       \/ /\ service.expired /\ ckpt.loop # "gone"
          /\ ckpt' = [ckpt EXCEPT !.loop = "gone", !.gate = IF @ = "loop" THEN None ELSE @]
          /\ service' = [service EXCEPT !.at = "client"]
    /\ UNCHANGED <<tasks, stuck, aborted, client, owner, shut, redis, writes, faults>>

\* The final state goes the way of periodic ones, which need a ready client.
FlushFinalIfReady ==
    /\ At("client") /\ Phase(Service) = "returned"
    /\ ~IsReady
    /\ service' = [service EXCEPT !.at = "api"]
    /\ UNCHANGED <<tasks, stuck, aborted, client, owner, shut, ckpt, redis, writes, faults>>

\* The final state is written through the same gate.
FlushFinal ==
    /\ At("client") /\ Phase(Service) = "returned"
    /\ LET result == owner[Service].result
       IN  IF ~result.ok
           THEN /\ service' = [service EXCEPT !.at = "api"]
                /\ UNCHANGED <<ckpt, writes>>
           ELSE /\ ckpt.gate = None
                /\ ckpt' = [ckpt EXCEPT !.gate = "final"]
                /\ writes' = writes \union {[by |-> "final", at |-> result.at]}
                /\ service' = [service EXCEPT !.at = "final"]
    /\ UNCHANGED <<tasks, stuck, aborted, client, owner, shut, redis, faults>>

\* The write is waited for until the deadline.
JoinFinal ==
    /\ At("final")
    /\ \/ ckpt.gate = None /\ UNCHANGED ckpt
          /\ service' = [service EXCEPT !.at = "api"]
       \/ /\ ckpt.gate = "final" /\ service.expired
          /\ ckpt' = [ckpt EXCEPT !.gate = None]
          /\ service' = [service EXCEPT !.at = "api"]
    /\ UNCHANGED <<tasks, stuck, aborted, client, owner, shut, redis, writes, faults>>

\* The HTTP task is joined, or aborted at the deadline.  The process takes a
\* write that was left behind with it.
EndProcess ==
    /\ At("api")
    /\ service' = [service EXCEPT !.at = "ended"]
    /\ writes' = {}
    /\ UNCHANGED <<tasks, stuck, aborted, client, owner, shut, ckpt, redis, faults>>

Init ==
    /\ tasks = [t \in Task |-> "running"]
    /\ stuck \in SUBSET {"source_pump", "reducer"}
    /\ aborted = {}
    /\ client = [cancel |-> FALSE, reducerCancel |-> FALSE, stopping |-> FALSE,
                 reported |-> FALSE, recovering |-> FALSE, valid |-> TRUE, panicked |-> FALSE,
                 queue |-> 0, accepted |-> 1, reduced |-> 1]
    /\ owner = [o \in Owner |-> [phase |-> "idle", result |-> Pending]]
    /\ shut = [holder |-> None, forced |-> FALSE, completion |-> Pending]
    /\ service = [at |-> "serving", expired |-> FALSE]
    /\ ckpt = [loop |-> "waiting", gate |-> None, lost |-> FALSE]
    /\ redis = 0 /\ writes = {} /\ faults = 0

TaskNext ==
    \/ Accept \/ Reduce \/ TransitionFails \/ Recover \/ StopReducer
    \/ \E t \in Task : StopCancelled(t) \/ Panic(t) \/ StopAborted(t)

OwnerNext(o) ==
    \/ BeginShutdown(o) \/ LockTasks(o) \/ JoinSource(o) \/ CancelReducer(o) \/ JoinReducer(o)
    \/ TimeOut(o) \/ JoinAborted(o) \/ DropOwner(o)

ServiceNext ==
    \/ FlushPeriodic \/ StopLoop \/ OtherReplica \/ \E w \in writes : CompleteWrite(w)
    \/ Deadline \/ Signal \/ RuntimeFailure \/ JoinLoop \/ FlushFinal \/ JoinFinal \/ EndProcess

Done == At("ended") /\ UNCHANGED vars

Next == TaskNext \/ (\E o \in Owner : OwnerNext(o)) \/ ServiceNext \/ Done

Spec == Init /\ [][Next]_vars

\* Tasks, timers and blocking threads make progress; nobody has to fail,
\* accept updates, ask for shutdown or be dropped.
FairSpec ==
    /\ Spec
    /\ WF_vars(Reduce) /\ WF_vars(StopReducer)
    /\ \A t \in Task : WF_vars(StopCancelled(t)) /\ WF_vars(StopAborted(t))
    /\ \A o \in Owner :
          /\ WF_vars(LockTasks(o)) /\ WF_vars(JoinSource(o)) /\ WF_vars(CancelReducer(o))
          /\ WF_vars(JoinReducer(o)) /\ WF_vars(TimeOut(o)) /\ WF_vars(JoinAborted(o))
    /\ WF_vars(BeginShutdown(Service))
    /\ WF_vars(RuntimeFailure) /\ WF_vars(StopLoop) /\ WF_vars(Deadline) /\ WF_vars(JoinLoop) /\ WF_vars(FlushFinal)
    /\ WF_vars(JoinFinal) /\ WF_vars(EndProcess)
    /\ WF_vars(\E w \in writes : CompleteWrite(w))
-----------------------------------------------------------------------------
(* Properties *)

\* Types, and the lock's owner: whoever joins tasks holds the lock, and the
\* gate is held by a writer that is still waiting for its write.
TypeOK ==
    /\ tasks \in [Task -> {"running", "done", "joined"}]
    /\ client.queue \in 0..MaxQueue /\ client.reduced <= client.accepted
    /\ \A o \in Owner : Phase(o) \in {"joining", "aborting"} <=> shut.holder = o
    /\ ckpt.gate \in {None, "loop", "final"}
    /\ ckpt.gate # None => \E w \in writes : w.by = ckpt.gate
    /\ redis \in 0..Total

\* A checkpoint in Redis is never replaced by one at an earlier position, by
\* whatever order the loop's write, the final write, a write left behind by an
\* aborted loop and another replica's writes reach Redis.
RedisNeverRegresses ==
    [][redis # 0 => ~Precedes(CheckpointOrder(redis'), CheckpointOrder(redis))]_vars

\* A caller gets a checkpoint only when every task has stopped and the reducer
\* has drained what the pump handed over, or could not: its recovery was cut
\* short or its state became invalid (reducer_cancel follows the pump's join).
FinalIsDrained ==
    (shut.completion # Pending /\ shut.completion.ok) =>
        /\ \A t \in Task : tasks[t] = "joined"
        /\ client.queue = 0 \/ client.recovering \/ ~client.valid \/ client.panicked

\* No task outlives a shutdown call that returned, whichever of several callers
\* it was, whoever was dropped half way and whether it timed out.
NoTaskOutlivesShutdown ==
    \A o \in Owner : Phase(o) = "returned" => \A t \in Task : ~Running(t)

\* What the runbook says of the final checkpoint: it is written only after the
\* accepted updates are drained.  Refuted: a reducer cancelled during a recovery
\* returns without draining.
DrainedBeforeFinal ==
    (shut.completion # Pending /\ shut.completion.ok /\ client.valid /\ ~client.panicked) =>
        client.queue = 0

\* All callers are given the one cached outcome: a second caller never learns
\* of a success the first one did not have, nor captures another state.
OneOutcome ==
    \A o \in Owner : Phase(o) = "returned" => owner[o].result = shut.completion

\* A process whose shutdown succeeds in time leaves in Redis the state its client ended with,
\* or a later one, unless Redis failed: the drain, the capture and the gated
\* write lose nothing between them.
FinalIsStored ==
    (At("ended") /\ owner[Service].result.ok /\ ~service.expired /\ ~ckpt.lost) =>
        /\ redis # 0
        /\ ~Precedes(CheckpointOrder(redis), CheckpointOrder(client.reduced))

\* Once it begins to stop, or a client task ends unasked, the process ends,
\* with tasks that ignore cancellation, callers that hold the lock and writes
\* that outlive their writer.
Ends == (service.at # "serving" \/ client.reported) ~> At("ended")
=============================================================================
