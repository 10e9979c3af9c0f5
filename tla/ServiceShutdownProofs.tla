------------------------ MODULE ServiceShutdownProofs ------------------------
(***************************************************************************)
(* For any number of callers of the client's shutdown: they share one      *)
(* outcome, no task outlives it, and a successful one has drained.  What   *)
(* it captured is in Redis when the process ends, whoever else writes, and *)
(* a stored checkpoint never goes back.                                    *)
(***************************************************************************)
EXTENDS ServiceShutdown, TLAPS

Outcome == [ok : BOOLEAN, at : Int]

Client == [cancel : BOOLEAN, reducerCancel : BOOLEAN, stopping : BOOLEAN, reported : BOOLEAN,
           recovering : BOOLEAN, valid : BOOLEAN, panicked : BOOLEAN,
           queue : Int, accepted : Int, reduced : Int]

(* The types of what the callers of shutdown share.                        *)
SharedTypes ==
    /\ tasks \in [Task -> {"running", "done", "joined"}]
    /\ owner \in [Owner -> [phase : {"idle", "lock", "joining", "aborting", "returned", "dropped"},
                            result : Outcome]]
    /\ client \in Client
    /\ shut \in [holder : Owner \cup {None}, forced : BOOLEAN, completion : Outcome]

(* Whoever joins or aborts tasks holds the lock, before there is an outcome; *)
(* only a forced abort aborts tasks, and nobody then waits for clean ends. *)
LockInv ==
    /\ \A o \in Owner : Phase(o) \in {"joining", "aborting"} =>
          shut.holder = o /\ shut.completion = Pending
    /\ \A o \in Owner : Phase(o) = "joining" => ~shut.forced
    /\ ~shut.forced => aborted = {}

(* An outcome is fixed when every task is joined.                          *)
OutcomeInv ==
    /\ \A o \in Owner : Phase(o) = "returned" =>
          shut.completion # Pending /\ owner[o].result = shut.completion
    /\ shut.completion # Pending => \A t \in Task : tasks[t] = "joined"
    /\ shut.completion # Pending /\ shut.completion.ok => ~shut.forced

(* A reducer that ended by itself left nothing it could have reduced.      *)
DrainInv ==
    ~Running("reducer") /\ ~client.panicked /\ ~shut.forced =>
        client.queue = 0 \/ client.recovering \/ ~client.valid

ShutdownInv == SharedTypes /\ LockInv /\ OutcomeInv /\ DrainInv

shared == <<tasks, aborted, client, owner, shut>>

(* The service as it starts satisfies the invariant.                       *)
LEMMA ShutdownInit == Init => ShutdownInv
  BY ServiceShutdownAssumption
     DEF Init, ShutdownInv, SharedTypes, LockInv, OutcomeInv, DrainInv, Outcome, Pending,
         Client, Running, Phase, Task, None

(* Steps that leave the shared state alone keep the invariant.             *)
LEMMA SharedUnchanged ==
    ASSUME ShutdownInv, UNCHANGED shared
    PROVE  ShutdownInv'
  BY DEF shared, ShutdownInv, SharedTypes, LockInv, OutcomeInv, DrainInv, Running, Phase

(* A task that ends changes nothing the drain depends on but a panic.      *)
LEMMA SupervisedFields ==
    ASSUME client \in Client, NEW p \in BOOLEAN, Supervised(p)
    PROVE  /\ client' \in Client
           /\ client'.panicked = (client.panicked \/ p)
           /\ client'.queue = client.queue
           /\ client'.recovering = client.recovering
           /\ client'.valid = client.valid
  BY Zenon DEF Client, Supervised

(* Accepting, reducing, recovering and cancelling keep the client's type.  *)
LEMMA ClientUpdates ==
    ASSUME client \in Client, NEW b \in BOOLEAN, NEW q \in Int, NEW n \in Int
    PROVE  /\ [client EXCEPT !.queue = q, !.accepted = n] \in Client
           /\ [client EXCEPT !.queue = q, !.reduced = n] \in Client
           /\ [client EXCEPT !.recovering = b, !.queue = q, !.reduced = n] \in Client
           /\ [client EXCEPT !.stopping = b, !.cancel = b] \in Client
           /\ [client EXCEPT !.reducerCancel = b] \in Client
  BY Zenon DEF Client

(* Cancelling leaves what the drain depends on alone.                      *)
LEMMA CancelFields ==
    ASSUME ShutdownInv,
           \/ client' = [client EXCEPT !.stopping = TRUE, !.cancel = TRUE]
           \/ client' = [client EXCEPT !.reducerCancel = TRUE]
    PROVE  /\ client' \in Client
           /\ client'.panicked = client.panicked /\ client'.queue = client.queue
           /\ client'.recovering = client.recovering /\ client'.valid = client.valid
  <1>1. client \in Client
    BY DEF ShutdownInv, SharedTypes
  <1>2. 0 \in Int /\ TRUE \in BOOLEAN
    OBVIOUS
  <1>3. client' \in Client
    BY Zenon, <1>1, <1>2, ClientUpdates
  <1> QED
    BY Zenon, <1>1, <1>3 DEF Client

(* Steps of the tasks themselves: a task only ever ends, and the reducer   *)
(* ends by itself only when it is drained or cannot drain.                 *)
LEMMA TaskStep ==
    ASSUME ShutdownInv, TaskNext
    PROVE  ShutdownInv'
  <1>1. owner' = owner /\ shut' = shut /\ aborted' = aborted
    BY Zenon DEF TaskNext, Accept, Reduce, TransitionFails, Recover, StopReducer, StopCancelled, Panic,
           StopAborted
  <1>2. \/ tasks' = tasks /\ Running("reducer")
        \/ \E t \in Task : Running(t) /\ Finish(t)
    BY Zenon DEF TaskNext, Accept, Reduce, TransitionFails, Recover, StopReducer, StopCancelled, Panic,
           StopAborted, Task
  <1>3. client \in Client /\ tasks \in [Task -> {"running", "done", "joined"}]
    BY DEF ShutdownInv, SharedTypes
  <1>4. tasks' \in [Task -> {"running", "done", "joined"}]
    BY <1>2, <1>3 DEF Finish
  <1>5. LockInv'
    BY <1>1 DEF ShutdownInv, LockInv, Phase
  <1>6. OutcomeInv'
    BY <1>1, <1>2, <1>3 DEF ShutdownInv, OutcomeInv, Phase, Finish, Running, Task
  <1>7. client' \in Client /\ DrainInv'
    <2>1. CASE Accept \/ Reduce \/ TransitionFails \/ Recover
      <3>1. client' \in Client
        <4>1. CASE Accept
          <5>1. client.queue + 1 \in Int /\ client.accepted + 1 \in Int
            BY <1>3 DEF Client
          <5> QED
            BY Zenon, <1>3, <4>1, <5>1, ClientUpdates DEF Accept
        <4>3. CASE Reduce
          <5>1. client.queue - 1 \in Int /\ client.reduced + 1 \in Int
            BY <1>3 DEF Client
          <5> QED
            BY Zenon, <1>3, <4>3, <5>1, ClientUpdates DEF Reduce
        <4>4. CASE TransitionFails
          BY Zenon, <4>4, <1>3 DEF TransitionFails, Client
        <4>2. CASE Recover
          <5>1. PICK b \in BOOLEAN : b = (client.stopping \/ ~Running("source_pump"))
            OBVIOUS
          <5>2. client' = [client EXCEPT !.recovering = b, !.queue = 0, !.reduced = client.accepted]
            BY Zenon, <4>2, <5>1 DEF Recover
          <5>3. 0 \in Int /\ client.accepted \in Int
            BY <1>3 DEF Client
          <5> QED
            BY Zenon, <1>3, <5>2, <5>3, ClientUpdates
        <4> QED
          BY <2>1, <4>1, <4>2, <4>3, <4>4
      <3>2. tasks' = tasks /\ Running("reducer")
        BY <2>1 DEF Accept, Reduce, TransitionFails, Recover
      <3> QED
        BY <3>1, <3>2 DEF DrainInv, Running
    <2>2. CASE StopReducer
      <3>1. /\ Supervised(FALSE)
            /\ client.recovering \/ client.queue = 0 \/ ~client.valid
        BY Zenon, <2>2 DEF StopReducer
      <3> QED
        BY Zenon, <1>3, <3>1, SupervisedFields DEF DrainInv
    <2>3. ASSUME NEW t \in Task, Panic(t) PROVE client' \in Client /\ DrainInv'
      <3>1. Supervised(TRUE)
        BY Zenon, <2>3 DEF Panic
      <3> QED
        BY Zenon, <1>3, <3>1, SupervisedFields DEF DrainInv
    <2>4. ASSUME NEW t \in Task, StopCancelled(t) PROVE client' \in Client /\ DrainInv'
      <3>1. Supervised(FALSE) /\ t # "reducer" /\ Finish(t)
        BY Zenon, <2>4 DEF StopCancelled
      <3>2. tasks'["reducer"] = tasks["reducer"]
        BY <1>3, <3>1 DEF Finish, Task
      <3> QED
        BY Zenon, <1>1, <1>3, <3>1, <3>2, SupervisedFields DEF ShutdownInv, DrainInv, Running
    <2>5. ASSUME NEW t \in Task, StopAborted(t) PROVE client' \in Client /\ DrainInv'
      BY <1>1, <1>3, <2>5 DEF StopAborted, ShutdownInv, LockInv, DrainInv
    <2> QED
      BY <2>1, <2>2, <2>3, <2>4, <2>5 DEF TaskNext
  <1> QED
    BY <1>1, <1>4, <1>5, <1>6, <1>7 DEF ShutdownInv, SharedTypes

(* What a caller of shutdown does with tasks, lock and outcome.            *)
LEMMA OwnerStep ==
    ASSUME ShutdownInv, NEW o \in Owner, OwnerNext(o)
    PROVE  ShutdownInv'
  <1>0. /\ SharedTypes /\ LockInv /\ OutcomeInv /\ DrainInv
        /\ Pending \in Outcome /\ Failed \in Outcome /\ Failed # Pending /\ ~Failed.ok
    BY DEF ShutdownInv, Pending, Failed, Outcome
  <1>1. CASE BeginShutdown(o)
    <2>1. /\ owner' = [owner EXCEPT ![o].phase = "lock"]
          /\ client' = [client EXCEPT !.stopping = TRUE, !.cancel = TRUE]
          /\ UNCHANGED <<tasks, aborted, shut>>
          /\ owner[o].phase = "idle"
      BY <1>1 DEF BeginShutdown, GoTo, Phase
    <2>2. SharedTypes' /\ LockInv'
      BY <1>0, <2>1, CancelFields DEF SharedTypes, LockInv, Phase
    <2>3. OutcomeInv' /\ DrainInv'
      BY <1>0, <2>1, CancelFields DEF SharedTypes, OutcomeInv, DrainInv, Phase, Running
    <2> QED
      BY <2>2, <2>3 DEF ShutdownInv
  <1>2. CASE LockTasks(o)
    <2>1. /\ owner[o].phase = "lock" /\ shut.holder = None /\ tasks' = tasks
      BY <1>2 DEF LockTasks, Phase
    <2>2. \A p \in Owner : Phase(p) \notin {"joining", "aborting"}
      BY <1>0, <2>1, ServiceShutdownAssumption DEF LockInv
    <2>3. CASE /\ shut.completion # Pending
               /\ owner' = [owner EXCEPT ![o] = [phase |-> "returned", result |-> shut.completion]]
               /\ UNCHANGED <<shut, client, aborted>>
      <3>1. SharedTypes' /\ LockInv'
        BY <1>0, <2>1, <2>2, <2>3 DEF SharedTypes, LockInv, Phase
      <3>2. OutcomeInv' /\ DrainInv'
        BY <1>0, <2>1, <2>3 DEF SharedTypes, OutcomeInv, DrainInv, Phase, Running
      <3> QED
        BY <3>1, <3>2 DEF ShutdownInv
    <2>4. CASE /\ shut.completion = Pending /\ shut.forced
               /\ shut' = [shut EXCEPT !.holder = o]
               /\ client' = [client EXCEPT !.reducerCancel = TRUE]
               /\ AbortRemaining
               /\ GoTo(o, "aborting")
      <3>1. SharedTypes' /\ LockInv'
        BY <1>0, <2>1, <2>2, <2>4, CancelFields DEF SharedTypes, LockInv, Phase, GoTo
      <3>2. OutcomeInv' /\ DrainInv'
        BY <1>0, <2>1, <2>4, CancelFields DEF SharedTypes, OutcomeInv, DrainInv, Phase, Running, GoTo
      <3> QED
        BY <3>1, <3>2 DEF ShutdownInv
    <2>5. CASE /\ shut.completion = Pending /\ ~shut.forced
               /\ shut' = [shut EXCEPT !.holder = o]
               /\ GoTo(o, "joining")
               /\ UNCHANGED <<client, aborted>>
      <3>1. SharedTypes' /\ LockInv'
        BY <1>0, <2>1, <2>2, <2>5 DEF SharedTypes, LockInv, Phase, GoTo
      <3>2. OutcomeInv' /\ DrainInv'
        BY <1>0, <2>1, <2>5 DEF SharedTypes, OutcomeInv, DrainInv, Phase, Running, GoTo
      <3> QED
        BY <3>1, <3>2 DEF ShutdownInv
    <2> QED
      BY <1>2, <2>3, <2>4, <2>5 DEF LockTasks
  <1>3. CASE JoinSource(o)
    <2>1. /\ \E t \in Task : t # "reducer" /\ tasks' = [tasks EXCEPT ![t] = "joined"]
          /\ UNCHANGED <<aborted, client, owner, shut>>
      BY <1>3 DEF JoinSource, JoinSlot, Task
    <2>2. SharedTypes' /\ LockInv' /\ OutcomeInv'
      BY <1>0, <2>1 DEF SharedTypes, LockInv, OutcomeInv, Phase
    <2>3. DrainInv'
      BY <1>0, <2>1 DEF SharedTypes, DrainInv, Running, Task
    <2> QED
      BY <2>2, <2>3 DEF ShutdownInv
  <1>4. CASE CancelReducer(o)
    <2>1. /\ client' = [client EXCEPT !.reducerCancel = TRUE]
          /\ UNCHANGED <<tasks, aborted, owner, shut>>
      BY <1>4 DEF CancelReducer
    <2> QED
      BY <1>0, <2>1, CancelFields DEF ShutdownInv, SharedTypes, LockInv, OutcomeInv, DrainInv, Phase, Running
  <1>5. CASE JoinReducer(o)
    <2>1. /\ owner[o].phase = "joining"
          /\ tasks["source_pump"] = "joined" /\ tasks["freshness"] = "joined"
          /\ tasks["reducer"] # "running"
          /\ tasks' = [tasks EXCEPT !["reducer"] = "joined"]
          /\ FinishShutdown(o, Ok(client.reduced))
          /\ UNCHANGED <<aborted, client>>
      BY <1>0, <1>5 DEF JoinReducer, JoinSlot, Phase, SharedTypes, Task
    <2>2. /\ Ok(client.reduced) \in Outcome /\ Ok(client.reduced) # Pending
          /\ shut.holder = o /\ shut.completion = Pending /\ ~shut.forced
      BY <1>0, <2>1 DEF Ok, Outcome, Pending, SharedTypes, Client, LockInv, Phase
    <2> HIDE DEF Ok
    <2>3. SharedTypes' /\ LockInv'
      BY Zenon, <1>0, <2>1, <2>2 DEF SharedTypes, LockInv, FinishShutdown, Phase
    <2>4. OutcomeInv'
      BY <1>0, <2>1, <2>2 DEF SharedTypes, OutcomeInv, FinishShutdown, Phase, Task
    <2>5. DrainInv'
      BY <1>0, <2>1, <2>2 DEF SharedTypes, DrainInv, FinishShutdown, Running
    <2> QED
      BY <2>3, <2>4, <2>5 DEF ShutdownInv
  <1>6. CASE TimeOut(o)
    <2>1. /\ owner[o].phase = "joining"
          /\ shut' = [shut EXCEPT !.forced = TRUE]
          /\ client' = [client EXCEPT !.reducerCancel = TRUE]
          /\ owner' = [owner EXCEPT ![o].phase = "aborting"]
          /\ tasks' = tasks
      BY <1>6 DEF TimeOut, GoTo, Phase
    <2>2. SharedTypes' /\ LockInv'
      BY Zenon, <1>0, <2>1, CancelFields DEF SharedTypes, LockInv, Phase
    <2>3. OutcomeInv' /\ DrainInv'
      BY <1>0, <2>1 DEF SharedTypes, LockInv, OutcomeInv, DrainInv, Phase
    <2> QED
      BY <2>2, <2>3 DEF ShutdownInv
  <1>7. CASE JoinAborted(o)
    <2>1. /\ owner[o].phase = "aborting"
          /\ tasks' = [t \in Task |-> "joined"]
          /\ ~Running("reducer")
          /\ FinishShutdown(o, Failed)
          /\ UNCHANGED <<aborted, client>>
      BY <1>7 DEF JoinAborted, Phase, Task
    <2>2. shut.holder = o /\ shut.completion = Pending
      BY <1>0, <2>1 DEF LockInv, Phase
    <2> HIDE DEF Failed
    <2>3. SharedTypes' /\ LockInv'
      BY Zenon, <1>0, <2>1, <2>2 DEF SharedTypes, LockInv, FinishShutdown, Phase
    <2>4. OutcomeInv'
      BY <1>0, <2>1, <2>2 DEF SharedTypes, OutcomeInv, FinishShutdown, Phase
    <2>5. DrainInv'
      BY <1>0, <2>1 DEF SharedTypes, DrainInv, FinishShutdown, Running
    <2> QED
      BY <2>3, <2>4, <2>5 DEF ShutdownInv
  <1>8. CASE DropOwner(o)
    <2>1. /\ owner' = [owner EXCEPT ![o].phase = "dropped"]
          /\ owner[o].phase # "returned"
          /\ shut' = [shut EXCEPT !.holder = IF shut.holder = o THEN None ELSE shut.holder]
          /\ UNCHANGED <<tasks, aborted, client>>
      BY <1>8 DEF DropOwner, GoTo, Phase
    <2>2. SharedTypes' /\ LockInv'
      BY <1>0, <2>1 DEF SharedTypes, LockInv, Phase
    <2>3. OutcomeInv' /\ DrainInv'
      BY <1>0, <2>1 DEF SharedTypes, OutcomeInv, DrainInv, Phase, Running
    <2> QED
      BY <2>2, <2>3 DEF ShutdownInv
  <1> QED
    BY <1>1, <1>2, <1>3, <1>4, <1>5, <1>6, <1>7, <1>8 DEF OwnerNext

(* The service and its checkpoint writes only stop admission.              *)
LEMMA ServiceStep ==
    ASSUME ShutdownInv, ServiceNext
    PROVE  ShutdownInv'
  <1>1. /\ UNCHANGED <<tasks, aborted, owner, shut>>
        /\ client' = client \/ client' = [client EXCEPT !.stopping = TRUE]
    BY Zenon DEF ServiceNext, FlushPeriodic, StopLoop, OtherReplica, CompleteWrite, Deadline, Signal,
           RuntimeFailure, BeginStop, JoinLoop, FlushFinal, JoinFinal, EndProcess
  <1>2. client \in Client
    BY DEF ShutdownInv, SharedTypes
  <1>3. /\ client' \in Client /\ client'.queue = client.queue /\ client'.valid = client.valid
        /\ client'.recovering = client.recovering /\ client'.panicked = client.panicked
    BY Zenon, <1>1, <1>2 DEF Client
  <1> QED
    BY <1>1, <1>3 DEF ShutdownInv, SharedTypes, LockInv, OutcomeInv, DrainInv, Running, Phase

(* No sequence of steps leaves the invariant.                              *)
THEOREM ShutdownInvariant == Spec => []ShutdownInv
  <1>1. ShutdownInv /\ [Next]_vars => ShutdownInv'
    <2> SUFFICES ASSUME ShutdownInv, [Next]_vars PROVE ShutdownInv'
      OBVIOUS
    <2>1. CASE TaskNext
      BY <2>1, TaskStep
    <2>2. CASE \E o \in Owner : OwnerNext(o)
      BY <2>2, OwnerStep
    <2>3. CASE ServiceNext
      BY <2>3, ServiceStep
    <2>4. CASE UNCHANGED vars
      BY <2>4, SharedUnchanged DEF vars, shared
    <2> QED
      BY <2>1, <2>2, <2>3, <2>4 DEF Next, Done
  <1> QED
    BY <1>1, ShutdownInit, PTL DEF Spec

(* Every caller of shutdown that returns is given the one outcome.         *)
THEOREM ShutdownHasOneOutcome == Spec => []OneOutcome
  <1>1. ShutdownInv => OneOutcome
    BY DEF ShutdownInv, OutcomeInv, OneOutcome
  <1> QED
    BY <1>1, ShutdownInvariant, PTL

(* A returned shutdown leaves no task of the client running.               *)
THEOREM ShutdownStopsEveryTask == Spec => []NoTaskOutlivesShutdown
  <1>1. ShutdownInv => NoTaskOutlivesShutdown
    BY DEF ShutdownInv, OutcomeInv, NoTaskOutlivesShutdown, Running
  <1> QED
    BY <1>1, ShutdownInvariant, PTL

(* A checkpoint handed out by shutdown is of a drained client, unless the  *)
(* reducer was recovering, failed or panicked.                             *)
THEOREM FinalCheckpointIsDrained == Spec => []FinalIsDrained
  <1>1. ShutdownInv => FinalIsDrained
    BY DEF ShutdownInv, OutcomeInv, DrainInv, FinalIsDrained, Running, Task
  <1> QED
    BY <1>1, ShutdownInvariant, PTL

-----------------------------------------------------------------------------
(* The order of checkpoints, and what is stored.                           *)

(* The order of two checkpoints is a strict order.                         *)
LEMMA PrecedesOrder ==
    ASSUME NEW a \in [1..4 -> Nat], NEW b \in [1..4 -> Nat], NEW c \in [1..4 -> Nat]
    PROVE  /\ ~Precedes(a, a)
           /\ Precedes(a, b) /\ Precedes(b, c) => Precedes(a, c)
  <1>1. ~Precedes(a, a)
    BY DEF Precedes
  <1>2. ASSUME Precedes(a, b), Precedes(b, c) PROVE Precedes(a, c)
    <2>1. PICK i \in 1..4 : a[i] < b[i] /\ \A j \in 1..(i - 1) : a[j] = b[j]
      BY <1>2 DEF Precedes
    <2>2. PICK k \in 1..4 : b[k] < c[k] /\ \A j \in 1..(k - 1) : b[j] = c[j]
      BY <1>2 DEF Precedes
    <2>3. CASE i <= k
      <3>1. a[i] < c[i]
        <4>1. CASE i = k
          BY <2>1, <2>2, <4>1
        <4>2. CASE i < k
          <5>1. i \in 1..(k - 1)
            BY <4>2
          <5> QED
            BY <2>1, <2>2, <5>1
        <4> QED
          BY <2>3, <4>1, <4>2
      <3>2. ASSUME NEW j \in 1..(i - 1) PROVE a[j] = c[j]
        <4>1. j \in 1..(k - 1)
          BY <2>3
        <4> QED
          BY <2>1, <2>2, <4>1
      <3> QED
        BY <3>1, <3>2 DEF Precedes
    <2>4. CASE k < i
      <3>1. a[k] < c[k]
        <4>1. k \in 1..(i - 1)
          BY <2>4
        <4> QED
          BY <2>1, <2>2, <4>1
      <3>2. ASSUME NEW j \in 1..(k - 1) PROVE a[j] = c[j]
        <4>1. j \in 1..(i - 1)
          BY <2>4
        <4> QED
          BY <2>1, <2>2, <4>1
      <3> QED
        BY <3>1, <3>2 DEF Precedes
    <2> QED
      BY <2>3, <2>4
  <1> QED
    BY <1>1, <1>2

(* A checkpoint's order is four numbers.                                   *)
LEMMA OrderType ==
    ASSUME NEW n \in 1..Total
    PROVE  CheckpointOrder(n) \in [1..4 -> Nat]
  <1>1. \A S : \A q \in Seq(S) : \A k \in 1..Len(q) : q[k] \in S
    OBVIOUS
  <1>2. Cursors[n] \in [block : Nat, log : Nat, commitment : Nat]
    BY Zenon, <1>1, ServiceShutdownAssumption DEF Total
  <1> QED
    BY <1>2 DEF CheckpointOrder

(* The stored checkpoint is not before n.                                  *)
Covered(stored, n) == stored # 0 /\ ~Precedes(CheckpointOrder(stored), CheckpointOrder(n))

(* The script never goes back, covers what it was given and keeps covering *)
(* what it covered.                                                        *)
LEMMA StoreFacts ==
    ASSUME NEW current \in 0..Total, NEW n \in 1..Total
    PROVE  /\ Store(current, n) \in 1..Total
           /\ current # 0 => ~Precedes(CheckpointOrder(Store(current, n)), CheckpointOrder(current))
           /\ Covered(Store(current, n), n)
           /\ \A m \in 1..Total : Covered(current, m) => Covered(Store(current, n), m)
  <1> DEFINE new == Store(current, n)
  <1>0. Total \in Nat
    BY ServiceShutdownAssumption DEF Total
  <1>1. new = n \/ new = current
    BY DEF Store
  <1>2. new \in 1..Total /\ new # 0
    BY <1>0 DEF Store
  <1>3. \A m \in 1..Total : ~Precedes(CheckpointOrder(m), CheckpointOrder(m))
    BY OrderType, PrecedesOrder
  <1>4. \A m, j, k \in 1..Total :
           /\ Precedes(CheckpointOrder(m), CheckpointOrder(j))
           /\ Precedes(CheckpointOrder(j), CheckpointOrder(k))
           => Precedes(CheckpointOrder(m), CheckpointOrder(k))
    BY OrderType, PrecedesOrder
  <1>5. CASE current = 0 \/ Precedes(CheckpointOrder(current), CheckpointOrder(n))
    <2>1. new = n
      BY <1>5 DEF Store
    <2>2. current # 0 => current \in 1..Total /\ Precedes(CheckpointOrder(current), CheckpointOrder(n))
      BY <1>0, <1>5
    <2> HIDE DEF new
    <2> QED
      BY Zenon, <1>2, <1>3, <1>4, <2>1, <2>2 DEF Covered, new
  <1>6. CASE ~(current = 0 \/ Precedes(CheckpointOrder(current), CheckpointOrder(n)))
    <2>1. new = current
      BY <1>6 DEF Store
    <2> HIDE DEF new
    <2> QED
      BY Zenon, <1>2, <1>3, <1>6, <2>1 DEF Covered, new
  <1> QED
    BY <1>5, <1>6

(* Every accepted update is reduced or waits in the queue.                 *)
CountInv ==
    /\ client.queue \in Nat /\ client.reduced \in Nat \ {0} /\ client.accepted \in 1..Total
    /\ client.reduced + client.queue = client.accepted

(* The types of what the checkpoint writers share.                         *)
StoreTypes ==
    /\ redis \in 0..Total
    /\ writes \subseteq [by : {"loop", "final"}, at : 1..Total]
    /\ ckpt \in [loop : {"waiting", "writing", "gone"}, gate : {None, "loop", "final"}, lost : BOOLEAN]
    /\ service \in [at : {"serving", "loop", "client", "final", "api", "ended"}, expired : BOOLEAN]

(* The outcome of a shutdown is the state the reducer ended with, and      *)
(* run() has it before the final write.                                    *)
CapturedInv ==
    /\ shut.completion # Pending /\ shut.completion.ok => shut.completion.at = client.reduced
    /\ owner[Service].result.ok => Phase(Service) = "returned"
    /\ service.at \in {"final", "api", "ended"} => Phase(Service) = "returned"

(* Between the final write and the process end nothing else holds the      *)
(* gate, and an open gate means that the write was done or lost.           *)
FinalWriteInv ==
    /\ service.at \in {"client", "final", "api", "ended"} => ckpt.loop = "gone"
    /\ \A w \in writes : w.by = "final" =>
          w.at = client.reduced /\ service.at \in {"final", "api", "ended"}
    /\ service.at = "final" => ckpt.gate \in {None, "final"} /\ owner[Service].result.ok
    /\ service.at = "final" /\ ckpt.gate = "final" => [by |-> "final", at |-> client.reduced] \in writes
    /\ \/ service.at = "final" /\ ckpt.gate = None
       \/ service.at \in {"api", "ended"} /\ owner[Service].result.ok
       => service.expired \/ ckpt.lost \/ Covered(redis, client.reduced)

StoredInv == CountInv /\ StoreTypes /\ CapturedInv /\ FinalWriteInv

(* The state the reducer ended with stays, and counts are kept.            *)
LEMMA CountStep ==
    ASSUME ShutdownInv, CountInv, [Next]_vars
    PROVE  /\ CountInv'
           /\ tasks["reducer"] # "running" => client'.reduced = client.reduced
  <1>1. client \in Client /\ Total \in Nat
    BY ServiceShutdownAssumption DEF ShutdownInv, SharedTypes, Total
  <1> DEFINE Kept == UNCHANGED <<client.queue, client.reduced, client.accepted>>
  <1>2. ASSUME Kept PROVE CountInv' /\ client'.reduced = client.reduced
    BY <1>2 DEF CountInv
  <1>3. ASSUME NEW p \in BOOLEAN, Supervised(p) PROVE Kept
    BY <1>1, <1>3 DEF Supervised, Client
  <1>4. CASE Accept
    <2>1. /\ client'.queue = client.queue + 1 /\ client'.accepted = client.accepted + 1
          /\ client'.reduced = client.reduced /\ client.accepted < Total
      BY <1>1, <1>4 DEF Accept, Client
    <2> QED
      BY <1>1, <2>1 DEF CountInv
  <1>5. CASE Reduce
    <2>1. /\ client'.queue = client.queue - 1 /\ client'.accepted = client.accepted
          /\ client'.reduced = client.reduced + 1 /\ client.queue > 0 /\ tasks["reducer"] = "running"
      BY <1>1, <1>5 DEF Reduce, Running, Client
    <2> QED
      BY <1>1, <2>1 DEF CountInv
  <1>6. CASE TransitionFails
    BY <1>1, <1>2, <1>6 DEF TransitionFails, Client
  <1>7. CASE Recover
    <2>1. /\ client'.queue = 0 /\ client'.accepted = client.accepted
          /\ client'.reduced = client.accepted /\ tasks["reducer"] = "running"
      BY <1>1, <1>7 DEF Recover, Running, Client
    <2> QED
      BY <1>1, <2>1 DEF CountInv
  <1>8. CASE StopReducer \/ \E t \in Task : StopCancelled(t) \/ Panic(t) \/ StopAborted(t)
    <2>1. client' = client \/ \E p \in BOOLEAN : Supervised(p)
      BY Zenon, <1>8 DEF StopReducer, StopCancelled, Panic, StopAborted
    <2> QED
      BY <1>2, <1>3, <2>1
  <1>9. CASE (\E o \in Owner : OwnerNext(o)) \/ ServiceNext \/ UNCHANGED vars
    <2>1. \/ client' = client \/ client' = [client EXCEPT !.stopping = TRUE]
          \/ client' = [client EXCEPT !.reducerCancel = TRUE]
          \/ client' = [client EXCEPT !.stopping = TRUE, !.cancel = TRUE]
      BY Zenon, <1>9 DEF OwnerNext, BeginShutdown, LockTasks, JoinSource, CancelReducer, JoinReducer, TimeOut,
             JoinAborted, DropOwner, ServiceNext, FlushPeriodic, StopLoop, OtherReplica, CompleteWrite,
             Deadline, Signal, RuntimeFailure, BeginStop, JoinLoop, FlushFinal, JoinFinal, EndProcess, vars
    <2> QED
      BY Zenon, <1>1, <1>2, <2>1 DEF Client
  <1> QED
    BY Zenon, <1>4, <1>5, <1>6, <1>7, <1>8, <1>9 DEF Next, TaskNext, Done, vars

(* The number of reduced updates is a checkpoint.                          *)
LEMMA ReducedIsCheckpoint ==
    ASSUME CountInv
    PROVE  Total \in Nat /\ client.reduced \in 1..Total
  <1>1. Total \in Nat
    BY ServiceShutdownAssumption DEF Total
  <1> QED
    BY <1>1 DEF CountInv

(* A returned run() keeps its outcome and the state the reducer ended with. *)
LEMMA ReturnedIsFrozen ==
    ASSUME ShutdownInv, CountInv, [Next]_vars, Phase(Service) = "returned"
    PROVE  /\ owner'[Service] = owner[Service]
           /\ client'.reduced = client.reduced
  <1>1. /\ Service \in Owner
        /\ owner \in [Owner -> [phase : {"idle", "lock", "joining", "aborting", "returned", "dropped"},
                               result : Outcome]]
    BY ServiceShutdownAssumption DEF ShutdownInv, SharedTypes
  <1>2. tasks["reducer"] # "running"
    BY <1>1 DEF ShutdownInv, OutcomeInv, Task
  <1>3. \/ owner' = owner
        \/ \E o \in Owner : /\ Phase(o) # "returned"
                           /\ \/ \E p \in {"lock", "joining", "aborting", "dropped"} : GoTo(o, p)
                              \/ \E r : owner' = [owner EXCEPT ![o] = r]
    <2>1. CASE \E o \in Owner : OwnerNext(o)
      BY Zenon, <2>1 DEF OwnerNext, BeginShutdown, LockTasks, JoinSource, CancelReducer, JoinReducer, TimeOut,
             JoinAborted, DropOwner, FinishShutdown
    <2>2. CASE ~\E o \in Owner : OwnerNext(o)
      BY Zenon, <2>2 DEF Next, TaskNext, Accept, Reduce, TransitionFails, Recover, StopReducer,
             StopCancelled, Panic, StopAborted, ServiceNext, FlushPeriodic, StopLoop, OtherReplica,
             CompleteWrite, Deadline, Signal, RuntimeFailure, BeginStop, JoinLoop, FlushFinal, JoinFinal,
             EndProcess, Done, vars
    <2> QED
      BY <2>1, <2>2
  <1>4. owner'[Service] = owner[Service]
    BY <1>1, <1>3 DEF GoTo, Phase
  <1> QED
    BY <1>2, <1>4, CountStep

(* The service as it starts satisfies the invariant of what is stored.     *)
LEMMA StoredInit == Init => StoredInv
  <1> SUFFICES ASSUME Init PROVE StoredInv
    OBVIOUS
  <1>1. Total \in Nat \ {0}
    BY ServiceShutdownAssumption DEF Total
  <1>2. CountInv
    BY <1>1 DEF Init, CountInv
  <1>3. StoreTypes
    BY <1>1 DEF Init, StoreTypes
  <1>4. CapturedInv /\ FinalWriteInv
    BY ServiceShutdownAssumption DEF Init, CapturedInv, FinalWriteInv, Pending, Phase
  <1> QED
    BY <1>2, <1>3, <1>4 DEF StoredInv

(* Callers of shutdown capture the state the reducer ended with.           *)
LEMMA CapturedStep ==
    ASSUME ShutdownInv, StoredInv, [Next]_vars
    PROVE  CapturedInv'
  <1>1. /\ Service \in Owner /\ CountInv /\ StoreTypes /\ CapturedInv /\ OutcomeInv /\ SharedTypes
    BY ServiceShutdownAssumption DEF ShutdownInv, StoredInv
  <1>2. shut.completion # Pending => client'.reduced = client.reduced
    BY <1>1, CountStep DEF OutcomeInv, Task
  <1>3. CASE UNCHANGED <<owner, shut, service>>
    BY <1>1, <1>2, <1>3 DEF CapturedInv, Phase
  <1>4. ASSUME NEW o \in Owner, OwnerNext(o) PROVE CapturedInv'
    <2>1. service' = service
      BY Zenon, <1>4 DEF OwnerNext, BeginShutdown, LockTasks, JoinSource, CancelReducer, JoinReducer, TimeOut,
             JoinAborted, DropOwner
    <2>2. \/ shut'.completion = shut.completion
          \/ shut'.completion = Ok(client.reduced) /\ client' = client
          \/ shut'.completion = Failed
      <3>1. shut \in [holder : Owner \cup {None}, forced : BOOLEAN, completion : Outcome]
        BY <1>1 DEF SharedTypes
      <3>2. \/ shut' = shut \/ \E h : shut' = [shut EXCEPT !.holder = h]
            \/ shut' = [shut EXCEPT !.forced = TRUE]
            \/ FinishShutdown(o, Ok(client.reduced)) /\ client' = client
            \/ FinishShutdown(o, Failed)
        BY Zenon, <1>4 DEF OwnerNext, BeginShutdown, LockTasks, JoinSource, CancelReducer, JoinReducer,
               TimeOut, JoinAborted, DropOwner
      <3> QED
        BY Zenon, <3>1, <3>2 DEF FinishShutdown
    <2>3. \/ owner' = owner
          \/ \E p \in {"lock", "joining", "aborting", "dropped"} : Phase(o) # "returned" /\ GoTo(o, p)
          \/ \E r \in Outcome : owner' = [owner EXCEPT ![o] = [phase |-> "returned", result |-> r]]
      <3>1. shut.completion \in Outcome /\ Ok(client.reduced) \in Outcome /\ Failed \in Outcome
        BY <1>1 DEF SharedTypes, Ok, Failed, Outcome, Client
      <3> QED
        BY Zenon, <1>4, <3>1 DEF OwnerNext, BeginShutdown, LockTasks, JoinSource, CancelReducer, JoinReducer,
               TimeOut, JoinAborted, DropOwner, FinishShutdown
    <2>4. owner'[Service].result.ok => owner'[Service].phase = "returned"
      BY <1>1, <2>3 DEF SharedTypes, CapturedInv, GoTo, Phase
    <2>5. owner[Service].phase = "returned" => owner'[Service].phase = "returned"
      BY <1>1, <2>3 DEF SharedTypes, GoTo, Phase
    <2>6. shut'.completion # Pending /\ shut'.completion.ok => shut'.completion.at = client'.reduced
      BY <1>1, <1>2, <2>2 DEF CapturedInv, Ok, Failed
    <2> QED
      BY <1>1, <2>1, <2>4, <2>5, <2>6 DEF CapturedInv, Phase
  <1>5. CASE ServiceNext
    <2>1. owner' = owner /\ shut' = shut
      BY Zenon, <1>5 DEF ServiceNext, FlushPeriodic, StopLoop, OtherReplica, CompleteWrite, Deadline, Signal,
             RuntimeFailure, BeginStop, JoinLoop, FlushFinal, JoinFinal, EndProcess
    <2>2. \/ service' = service \/ service' = [service EXCEPT !.expired = TRUE]
          \/ \E a \in {"loop", "client"} : service' = [service EXCEPT !.at = a]
          \/ Phase(Service) = "returned"
          \/ service.at \in {"final", "api"}
      BY Zenon, <1>5 DEF ServiceNext, FlushPeriodic, StopLoop, OtherReplica, CompleteWrite, Deadline, Signal,
             RuntimeFailure, BeginStop, JoinLoop, FlushFinal, JoinFinal, EndProcess, At
    <2>3. service'.at \in {"final", "api", "ended"} => Phase(Service) = "returned"
      BY <1>1, <2>2 DEF StoreTypes, CapturedInv
    <2> QED
      BY <1>1, <1>2, <2>1, <2>3 DEF CapturedInv, Phase
  <1>6. CASE TaskNext
    <2>1. UNCHANGED <<owner, shut, service>>
      BY Zenon, <1>6 DEF TaskNext, Accept, Reduce, TransitionFails, Recover, StopReducer, StopCancelled, Panic,
             StopAborted
    <2> QED
      BY <1>3, <2>1
  <1> QED
    BY Zenon, <1>3, <1>4, <1>5, <1>6 DEF Next, Done, vars

(* Steps of others leave the final write as it is.                         *)
LEMMA FinalWriteKept ==
    ASSUME ShutdownInv, StoredInv, [Next]_vars, UNCHANGED <<service, ckpt, redis, writes>>
    PROVE  FinalWriteInv'
  <1>1. CountInv /\ CapturedInv /\ FinalWriteInv
    BY DEF StoredInv
  <1>2. CASE Phase(Service) = "returned"
    <2>1. owner'[Service] = owner[Service] /\ client'.reduced = client.reduced
      BY <1>1, <1>2, ReturnedIsFrozen
    <2> QED
      BY <1>1, <2>1 DEF FinalWriteInv
  <1>3. CASE Phase(Service) # "returned"
    <2>1. service.at \notin {"final", "api", "ended"}
      BY <1>1, <1>3 DEF CapturedInv
    <2> QED
      BY <1>1, <2>1 DEF FinalWriteInv
  <1> QED
    BY <1>2, <1>3

(* A write that completes opens its gate and is then stored, or lost.      *)
LEMMA WriteStep ==
    ASSUME ShutdownInv, StoredInv, NEW w \in writes, CompleteWrite(w)
    PROVE  StoreTypes' /\ FinalWriteInv'
  <1>1. CountInv /\ StoreTypes /\ FinalWriteInv
    BY DEF StoredInv
  <1>2. w.by \in {"loop", "final"} /\ w.at \in 1..Total /\ redis \in 0..Total
    BY <1>1 DEF StoreTypes
  <1>3. PICK lost \in BOOLEAN :
           /\ Answered(w, lost) /\ (ckpt.lost => lost)
           /\ redis' = Store(redis, w.at) \/ (redis' = redis /\ lost)
    BY Zenon, <1>1 DEF CompleteWrite, StoreTypes
  <1>4. /\ redis' \in 0..Total
        /\ Covered(redis, client.reduced) => Covered(redis', client.reduced)
        /\ lost \/ Covered(redis', w.at)
    <2>1. Total \in Nat /\ client.reduced \in 1..Total
      BY <1>1, ReducedIsCheckpoint
    <2>2. Store(redis, w.at) \in 1..Total
      BY Zenon, <1>2, StoreFacts
    <2>3. Store(redis, w.at) \in 0..Total
      BY <2>1, <2>2
    <2> QED
      BY ZenonT(30), <1>2, <1>3, <2>1, <2>3, StoreFacts
  <1>5. /\ ckpt'.lost = lost
        /\ ckpt'.gate = (IF ckpt.gate = w.by THEN None ELSE ckpt.gate)
        /\ ckpt'.loop = (IF w.by = "loop" /\ ckpt.loop = "writing" THEN "waiting" ELSE ckpt.loop)
        /\ ckpt' \in [loop : {"waiting", "writing", "gone"}, gate : {None, "loop", "final"}, lost : BOOLEAN]
    BY Zenon, <1>1, <1>2, <1>3 DEF Answered, StoreTypes
  <1>6. writes' = writes \ {w} /\ UNCHANGED <<client, owner, service>>
    BY DEF CompleteWrite
  <1>7. StoreTypes'
    BY <1>1, <1>4, <1>5, <1>6 DEF StoreTypes
  <1>8. service.at = "final" /\ ckpt'.gate = "final" => [by |-> "final", at |-> client.reduced] \in writes'
    <2> SUFFICES ASSUME service.at = "final", ckpt'.gate = "final"
                 PROVE  [by |-> "final", at |-> client.reduced] \in writes'
      OBVIOUS
    <2>1. w.by # "final" /\ ckpt.gate = "final"
      BY <1>5 DEF None
    <2>2. w # [by |-> "final", at |-> client.reduced]
      BY <2>1
    <2> QED
      BY <1>1, <1>6, <2>1, <2>2 DEF FinalWriteInv
  <1>9. service.at = "final" /\ ckpt'.gate = None => lost \/ service.expired \/ Covered(redis', client.reduced)
    <2> SUFFICES ASSUME service.at = "final", ckpt'.gate = None
                 PROVE  lost \/ service.expired \/ Covered(redis', client.reduced)
      OBVIOUS
    <2>1. CASE ckpt.gate = None
      BY <1>1, <1>3, <1>4, <2>1 DEF FinalWriteInv
    <2>2. CASE ckpt.gate # None
      <3>1. w.by = "final"
        BY <1>1, <1>5, <2>2 DEF FinalWriteInv
      <3> QED
        BY <1>1, <1>4, <3>1 DEF FinalWriteInv
    <2> QED
      BY <2>1, <2>2
  <1>10. service.at \in {"api", "ended"} /\ owner[Service].result.ok =>
           lost \/ service.expired \/ Covered(redis', client.reduced)
    BY <1>1, <1>3, <1>4 DEF FinalWriteInv
  <1>11. /\ service.at \in {"client", "final", "api", "ended"} => ckpt'.loop = "gone"
         /\ service.at = "final" => ckpt'.gate \in {None, "final"}
    BY <1>1, <1>5 DEF FinalWriteInv
  <1> QED
    BY <1>1, <1>5, <1>6, <1>7, <1>8, <1>9, <1>10, <1>11 DEF FinalWriteInv

(* The service's steps keep what is known of the final write.              *)
LEMMA ServiceStored ==
    ASSUME ShutdownInv, StoredInv, ServiceNext
    PROVE  StoreTypes' /\ FinalWriteInv'
  <1>1. /\ CountInv /\ StoreTypes /\ CapturedInv /\ FinalWriteInv /\ Service \in Owner
        /\ Total \in Nat /\ client.reduced \in 1..Total
    BY ServiceShutdownAssumption, ReducedIsCheckpoint DEF StoredInv
  <1>2. owner' = owner /\ client'.reduced = client.reduced
    <2>1. owner' = owner /\ (client' = client \/ client' = [client EXCEPT !.stopping = TRUE])
      BY Zenon DEF ServiceNext, FlushPeriodic, StopLoop, OtherReplica, CompleteWrite, Deadline, Signal,
             RuntimeFailure, BeginStop, JoinLoop, FlushFinal, JoinFinal, EndProcess
    <2>2. client \in Client
      BY DEF ShutdownInv, SharedTypes
    <2> QED
      BY <2>1, <2>2 DEF Client
  <1>3. /\ service \in [at : {"serving", "loop", "client", "final", "api", "ended"}, expired : BOOLEAN]
        /\ ckpt \in [loop : {"waiting", "writing", "gone"}, gate : {None, "loop", "final"}, lost : BOOLEAN]
        /\ writes \subseteq [by : {"loop", "final"}, at : 1..Total]
    BY <1>1 DEF StoreTypes
  <1>4. CASE FlushPeriodic
    <2>1. /\ ckpt.loop = "waiting" /\ service' = service /\ redis' = redis
          /\ ckpt' = [ckpt EXCEPT !.loop = "writing", !.gate = "loop"]
          /\ writes' = writes \union {[by |-> "loop", at |-> client.reduced]}
      BY <1>4 DEF FlushPeriodic
    <2>2. StoreTypes'
      <3>1. [by |-> "loop", at |-> client.reduced] \in [by : {"loop", "final"}, at : 1..Total]
        BY <1>1
      <3>2. ckpt' \in [loop : {"waiting", "writing", "gone"}, gate : {None, "loop", "final"}, lost : BOOLEAN]
        BY Zenon, <1>3, <2>1
      <3> QED
        BY Zenon, <1>1, <2>1, <3>1, <3>2 DEF StoreTypes
    <2>3. service.at \notin {"client", "final", "api", "ended"}
      BY <1>1, <2>1 DEF FinalWriteInv
    <2>4. \A w \in writes' : w.by # "final"
      BY <1>1, <2>1, <2>3 DEF FinalWriteInv
    <2> QED
      BY <2>1, <2>2, <2>3, <2>4 DEF FinalWriteInv
  <1>5. CASE StopLoop
    <2>1. /\ ckpt.loop = "waiting" /\ UNCHANGED <<service, redis, writes>>
          /\ ckpt' = [ckpt EXCEPT !.loop = "gone"]
      BY <1>5 DEF StopLoop
    <2>2. service.at \notin {"client", "final", "api", "ended"}
      BY <1>1, <2>1 DEF FinalWriteInv
    <2>3. StoreTypes'
      BY <1>1, <2>1 DEF StoreTypes
    <2> QED
      BY <1>1, <1>2, <2>1, <2>2, <2>3 DEF FinalWriteInv
  <1>6. CASE OtherReplica
    <2>1. /\ UNCHANGED <<service, ckpt, writes>>
          /\ \E n \in 1..Total : redis' = Store(redis, n)
      BY <1>6 DEF OtherReplica
    <2>2. redis' \in 1..Total /\ (Covered(redis, client.reduced) => Covered(redis', client.reduced))
      <3>1. PICK n \in 1..Total : redis' = Store(redis, n)
        BY <2>1
      <3>2. redis \in 0..Total
        BY <1>1 DEF StoreTypes
      <3> QED
        BY Zenon, <1>1, <3>1, <3>2, StoreFacts
    <2>3. StoreTypes'
      BY <1>1, <2>1, <2>2 DEF StoreTypes
    <2> QED
      BY <1>1, <1>2, <2>1, <2>2, <2>3 DEF FinalWriteInv
  <1>7. CASE \E w \in writes : CompleteWrite(w)
    BY Zenon, <1>7, WriteStep
  <1>8. CASE Deadline
    <2>1. service' = [service EXCEPT !.expired = TRUE] /\ UNCHANGED <<ckpt, redis, writes>>
      BY <1>8 DEF Deadline
    <2>2. StoreTypes' /\ service'.at = service.at /\ service'.expired
      BY Zenon, <1>1, <1>3, <2>1 DEF StoreTypes
    <2> QED
      BY <1>1, <1>2, <2>1, <2>2 DEF FinalWriteInv
  <1>9. CASE BeginStop
    <2>1. /\ service' = [service EXCEPT !.at = "loop"] /\ UNCHANGED <<ckpt, redis, writes>>
          /\ service.at = "serving"
      BY <1>9 DEF BeginStop, At
    <2>2. StoreTypes' /\ service'.at = "loop"
      BY <1>1, <1>3, <2>1 DEF StoreTypes
    <2> QED
      BY <1>1, <1>2, <2>1, <2>2 DEF FinalWriteInv
  <1>10. CASE JoinLoop
    <2>1. /\ service.at = "loop" /\ service' = [service EXCEPT !.at = "client"]
          /\ UNCHANGED <<redis, writes>>
          /\ \/ ckpt.loop = "gone" /\ ckpt' = ckpt
             \/ ckpt' = [ckpt EXCEPT !.loop = "gone", !.gate = IF ckpt.gate = "loop" THEN None ELSE ckpt.gate]
      BY <1>10 DEF JoinLoop, At
    <2>2. service'.at = "client" /\ ckpt'.loop = "gone"
      BY Zenon, <1>3, <2>1
    <2>3. StoreTypes'
      BY Zenon, <1>1, <1>3, <2>1 DEF StoreTypes
    <2> QED
      BY <1>1, <1>2, <2>1, <2>2, <2>3 DEF FinalWriteInv
  <1>11. CASE FlushFinal
    <2>1. /\ service.at = "client" /\ Phase(Service) = "returned" /\ redis' = redis
      BY <1>11 DEF FlushFinal, At
    <2>2. ckpt.loop = "gone" /\ \A w \in writes : w.by # "final"
      BY <1>1, <2>1 DEF FinalWriteInv
    <2>3. CASE ~owner[Service].result.ok
      <3>1. service' = [service EXCEPT !.at = "api"] /\ UNCHANGED <<ckpt, writes>>
        BY <1>11, <2>3 DEF FlushFinal
      <3>2. StoreTypes' /\ service'.at = "api"
        BY <1>1, <1>3, <2>1, <3>1 DEF StoreTypes
      <3> QED
        BY <1>1, <1>2, <2>2, <2>3, <3>1, <3>2 DEF FinalWriteInv
    <2>4. CASE owner[Service].result.ok
      <3>1. owner[Service].result.at = client.reduced
        BY <1>1, <2>1, <2>4 DEF ShutdownInv, OutcomeInv, CapturedInv
      <3>2. /\ ckpt' = [ckpt EXCEPT !.gate = "final"]
            /\ writes' = writes \union {[by |-> "final", at |-> client.reduced]}
            /\ service' = [service EXCEPT !.at = "final"]
        BY <1>11, <2>4, <3>1 DEF FlushFinal
      <3>3. service'.at = "final" /\ ckpt'.gate = "final" /\ ckpt'.loop = "gone"
        BY <1>3, <2>2, <3>2
      <3>4. StoreTypes'
        BY <1>1, <1>3, <2>1, <3>2 DEF StoreTypes
      <3>5. \A w \in writes' : w.by = "final" => w.at = client.reduced
        BY <2>2, <3>2
      <3>6. [by |-> "final", at |-> client.reduced] \in writes'
        BY <3>2
      <3> QED
        BY <1>2, <2>4, <3>3, <3>4, <3>5, <3>6 DEF FinalWriteInv, None
    <2> QED
      BY <2>3, <2>4
  <1>12. CASE JoinFinal
    <2>1. /\ service.at = "final" /\ service' = [service EXCEPT !.at = "api"]
          /\ UNCHANGED <<redis, writes>>
          /\ \/ ckpt.gate = None /\ ckpt' = ckpt
             \/ service.expired /\ ckpt' = [ckpt EXCEPT !.gate = None]
      BY <1>12 DEF JoinFinal, At
    <2>2. /\ service'.at = "api" /\ service'.expired = service.expired
          /\ ckpt'.lost = ckpt.lost /\ ckpt'.loop = ckpt.loop
      BY <1>3, <2>1
    <2>3. StoreTypes'
      BY <1>1, <1>3, <2>1 DEF StoreTypes
    <2>4. service.expired \/ ckpt.lost \/ Covered(redis, client.reduced)
      BY <1>1, <2>1 DEF FinalWriteInv
    <2> QED
      BY <1>1, <1>2, <2>1, <2>2, <2>3, <2>4 DEF FinalWriteInv
  <1>13. CASE EndProcess
    <2>1. /\ service.at = "api" /\ service' = [service EXCEPT !.at = "ended"]
          /\ writes' = {} /\ UNCHANGED <<redis, ckpt>>
      BY <1>13 DEF EndProcess, At
    <2>2. service'.at = "ended" /\ service'.expired = service.expired
      BY <1>3, <2>1
    <2>3. StoreTypes'
      BY <1>1, <1>3, <2>1 DEF StoreTypes
    <2> QED
      BY <1>1, <1>2, <2>1, <2>2, <2>3 DEF FinalWriteInv
  <1> QED
    BY Zenon, <1>4, <1>5, <1>6, <1>7, <1>8, <1>9, <1>10, <1>11, <1>12, <1>13 DEF ServiceNext, Signal, RuntimeFailure

(* Nothing the client, its callers or the service do leaves the invariant  *)
(* of what is captured, written and stored.                                *)
THEOREM StoredInvariant == Spec => []StoredInv
  <1>1. ShutdownInv /\ StoredInv /\ [Next]_vars => StoredInv'
    <2> SUFFICES ASSUME ShutdownInv, StoredInv, [Next]_vars PROVE StoredInv'
      OBVIOUS
    <2>1. CountInv' /\ CapturedInv'
      BY CountStep, CapturedStep DEF StoredInv
    <2>2. StoreTypes' /\ FinalWriteInv'
      <3>1. CASE UNCHANGED <<service, ckpt, redis, writes>>
        <4>1. StoreTypes'
          BY <3>1 DEF StoredInv, StoreTypes
        <4> QED
          BY <3>1, <4>1, FinalWriteKept
      <3>2. CASE ServiceNext
        BY <3>2, ServiceStored
      <3>3. UNCHANGED <<service, ckpt, redis, writes>> \/ ServiceNext
        BY Zenon DEF Next, TaskNext, Accept, Reduce, TransitionFails, Recover, StopReducer,
               StopCancelled, Panic, StopAborted, OwnerNext, BeginShutdown, LockTasks, JoinSource,
               CancelReducer, JoinReducer, TimeOut, JoinAborted, DropOwner, Done, vars
      <3> QED
        BY <3>1, <3>2, <3>3
    <2> QED
      BY <2>1, <2>2 DEF StoredInv
  <1> QED
    BY <1>1, StoredInit, ShutdownInvariant, PTL DEF Spec

(* A shutdown that succeeds in time, with Redis answering, leaves in Redis *)
(* the state the client ended with, or a later one.                        *)
THEOREM FinalCheckpointIsStored == Spec => []FinalIsStored
  <1>1. StoredInv => FinalIsStored
    BY DEF StoredInv, FinalWriteInv, FinalIsStored, Covered, At
  <1> QED
    BY <1>1, StoredInvariant, PTL

(* Whoever writes, and in whatever order the writes arrive, the stored     *)
(* checkpoint is never replaced by an earlier one.                         *)
THEOREM StoredCheckpointNeverRegresses == Spec => RedisNeverRegresses
  <1>1. ASSUME StoredInv, [Next]_vars
        PROVE  redis # 0 => ~Precedes(CheckpointOrder(redis'), CheckpointOrder(redis))
    <2>1. redis \in 0..Total /\ \A w \in writes : w.at \in 1..Total
      BY <1>1 DEF StoredInv, StoreTypes
    <2>2. redis' = redis \/ \E n \in 1..Total : redis' = Store(redis, n)
      <3>1. CASE \E w \in writes : CompleteWrite(w)
        BY Zenon, <2>1, <3>1 DEF CompleteWrite
      <3>2. CASE OtherReplica
        BY Zenon, <3>2 DEF OtherReplica
      <3>3. CASE ~OtherReplica /\ ~\E w \in writes : CompleteWrite(w)
        BY Zenon, <1>1, <3>3 DEF Next, TaskNext, Accept, Reduce, TransitionFails, Recover, StopReducer,
               StopCancelled, Panic, StopAborted, OwnerNext, BeginShutdown, LockTasks, JoinSource,
               CancelReducer, JoinReducer, TimeOut, JoinAborted, DropOwner, ServiceNext, FlushPeriodic,
               StopLoop, Deadline, Signal, RuntimeFailure, BeginStop, JoinLoop, FlushFinal, JoinFinal,
               EndProcess, Done, vars
      <3> QED
        BY <3>1, <3>2, <3>3
    <2>3. \A m \in 1..Total : ~Precedes(CheckpointOrder(m), CheckpointOrder(m))
      BY OrderType, PrecedesOrder
    <2>4. redis # 0 => redis \in 1..Total
      BY <2>1, ServiceShutdownAssumption DEF Total
    <2> QED
      BY Zenon, <2>1, <2>2, <2>3, <2>4, StoreFacts
  <1> QED
    BY <1>1, StoredInvariant, PTL DEF Spec, RedisNeverRegresses

=============================================================================
