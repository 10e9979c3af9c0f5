------------------------ MODULE WorkerRuntimeProofs ------------------------
(***************************************************************************)
(* The event worker's readiness and recovery, for every chain, bound, page *)
(* size and number of faults.                                              *)
(***************************************************************************)
EXTENDS WorkerRuntime, TLAPS

(* A cursor of a source: one execution height comes with a block hash.     *)
FineCursor(c) ==
    /\ c \in [number : Nat, hash : Hash \cup Nat \cup {None}, execution : Nat, order : Nat,
              commitment : Commitment]
    /\ \A h \in Height : c.hash = h => c.execution = h

(* u is the log of height h.                                               *)
IsLog(u, h) == u.kind = "log" /\ u.cursor.number = h

PumpShape ==
    /\ chain \in Height /\ activity \in Nat
    /\ DOMAIN pump = {"pc", "then", "pending", "ended", "feed", "ever", "large"}
    /\ pump.feed \in Nat \ {0} /\ pump.pending \in Update /\ pump.large \subseteq Oversized
    /\ queue \in Seq(Update)

WorkShape ==
    /\ DOMAIN runtime = {"pc", "lease", "attempted", "cursor", "head", "page", "todo", "log",
                         "update", "back", "forks", "stale"}
    /\ runtime.lease \in Nat /\ runtime.cursor \in Nat /\ runtime.head \in Nat
    /\ runtime.page \in Nat /\ runtime.log \in Nat /\ runtime.update \in Update
    /\ runtime.todo \subseteq Nat /\ runtime.back \in {"live", "persist_page", "drain", "check"}
    /\ DOMAIN recovery = {"target", "required", "conflict"}
    /\ DOMAIN store = {"durable", "cursor", "phase", "command", "depth", "reply"}
    /\ store.cursor \in Nat /\ store.command \in Nat

(* What an update says.                                                    *)
LEMMA UpdateFacts ==
    ASSUME NEW u \in Update
    PROVE  /\ u.kind = "log" => u.cursor.number \in Height /\ u = Log(u.cursor.number)
           /\ u.cursor # None => FineCursor(u.cursor)
           /\ u.kind \in {"log", "gap", "head", "reorg", "removed"}
<1> USE WorkerAssumption DEF Height
<1>1. CASE \E h \in Height : u = Log(h)
  BY <1>1 DEF Log, LogCursor, BlockCursor, FineCursor, Commitment, Canonical
<1>2. CASE u \in Notice
  BY Zenon, <1>2 DEF Notice, FineCursor, ChainCursor
<1>3. CASE \E h \in Oversized : u = Gap(LogCursor(h))
  BY <1>3 DEF Gap, LogCursor, BlockCursor, FineCursor, Commitment, Canonical
<1>4. CASE u = Gap(None)
  BY Zenon, <1>4 DEF Gap
<1> QED BY Zenon, <1>1, <1>2, <1>3, <1>4 DEF Update

(* The updates that the pump makes.                                        *)
LEMMA UpdateKinds ==
    /\ Gap(None) \in Update /\ Gap(None).kind = "gap"
    /\ \A h \in Height : Log(h) \in Update /\ Log(h).kind = "log" /\ Log(h).cursor.number = h
    /\ \A h \in Oversized : Gap(Log(h).cursor) \in Update
    /\ Notice \subseteq Update
    /\ \A c : Gap(c).kind = "gap"
<1>1. \A h : Log(h).cursor = LogCursor(h) /\ Log(h).kind = "log" /\ LogCursor(h).number = h
  BY Zenon DEF Log, LogCursor, BlockCursor
<1>2. \A c : Gap(c).kind = "gap"
  BY Zenon DEF Gap
<1> QED BY Zenon, <1>1, <1>2 DEF Update

(* A taken update: the log of the feed, a notice, or a gap.                *)
LEMMA TakeFacts ==
    ASSUME PumpShape, NEW u \in Update, u.kind = "log" \/ u \in Notice \cup {Gap(None)}
    PROVE  /\ NormalizeUpdate(u) \in Update
           /\ NormalizeUpdate(u).kind = "gap" <=> Terminal(u)
           /\ ~Terminal(u) => NormalizeUpdate(u) = u
<1>1. CASE u.kind = "log"
  <2>1. u.cursor.number \in Height /\ u = Log(u.cursor.number) /\ u.kind # "gap"
    BY Zenon, <1>1, UpdateFacts
  <2>2. CASE TooLarge(u)
    <3>1. u.cursor.number \in Oversized
      BY Zenon, <2>2, WorkerAssumption DEF TooLarge, PumpShape
    <3> QED BY Zenon, <2>1, <2>2, <3>1, UpdateKinds DEF NormalizeUpdate, Terminal
  <2>3. CASE ~TooLarge(u)
    BY Zenon, <2>1, <2>3 DEF NormalizeUpdate, Terminal
  <2> QED BY Zenon, <2>2, <2>3
<1>2. CASE u \in Notice \cup {Gap(None)}
  BY Zenon, <1>2, UpdateKinds DEF NormalizeUpdate, Terminal, TooLarge, Notice
<1> QED BY Zenon, <1>1, <1>2

-----------------------------------------------------------------------------
(* Types and frames                                                        *)

(* The activity version grows, and its bit 0 says what it was advanced to. *)
LEMMA AdvanceFacts ==
    ASSUME NEW a \in Nat
    PROVE  /\ Advance(a, TRUE) \in Nat /\ Advance(a, TRUE) > a /\ Advance(a, TRUE) % 2 = 1
           /\ Advance(a, FALSE) \in Nat /\ Advance(a, FALSE) > a /\ Advance(a, FALSE) % 2 = 0
BY DEF Advance

(* A backfill starts at a block of the chain.                              *)
LEMMA FromBlockFacts ==
    ASSUME WorkShape
    PROVE  FromBlock \in Nat /\ FromBlock >= 1 /\ FromBlock <= store.cursor + 1
BY DEF FromBlock, WorkShape

(* A page ends inside the recovery.                                        *)
LEMMA PageEndFacts ==
    ASSUME WorkShape
    PROVE  /\ PageEnd \in Nat /\ PageEnd <= runtime.head
           /\ runtime.page <= runtime.head => runtime.page <= PageEnd
BY WorkerAssumption DEF PageEnd, WorkShape

(* The pump's steps keep the types.                                        *)
LEMMA PumpTypes ==
    ASSUME PumpShape, PumpNext
    PROVE  PumpShape' /\ UNCHANGED <<envVars, workVars>>
<1> USE DEF PumpShape, envVars, queueVars, leaseVars, PumpGoes, MarkInactive
<1>1. CASE Revoke
  BY Zenon, <1>1, AdvanceFacts DEF Revoke, AdvanceSourceActivity
<1>2. CASE Unready
  BY Zenon, <1>2 DEF Unready
<1>3. CASE Deactivate
  BY Zenon, <1>3 DEF Deactivate
<1>4. CASE PumpExits
  BY Zenon, <1>4 DEF PumpExits
<1>5. CASE PumpTop
  BY Zenon, <1>5 DEF PumpTop
<1>6. CASE Subscribe
  <2>1. Gap(None) \in Update
    BY Zenon, UpdateKinds
  <2>2. chain + 1 \in Nat \ {0}
    BY DEF Height
  <2> QED BY Zenon, <1>6, <2>1, <2>2 DEF Subscribe
<1>7. CASE SourceConnected
  BY Zenon, <1>7, AdvanceFacts DEF SourceConnected, AdvanceSourceActivity
<1>8. CASE Activate
  BY Zenon, <1>8 DEF Activate
<1>9. CASE Consume
  <2>1. ASSUME NEW u \in Update, NEW f \in Nat \ {0}, u.kind = "log" \/ u \in Notice \cup {Gap(None)}, Take(u, f)
        PROVE  PumpShape' /\ UNCHANGED <<envVars, workVars>>
    <3>1. NormalizeUpdate(u) \in Update
      BY Zenon, <2>1, TakeFacts
    <3> QED BY Zenon, <1>9, <2>1, <3>1 DEF Consume, Take
  <2>2. CASE pump.feed <= chain /\ Take(Log(pump.feed), pump.feed + 1)
    <3>1. pump.feed \in Height
      BY <2>2, WorkerAssumption DEF Height
    <3> QED BY <2>1, <2>2, <3>1, UpdateKinds
  <2>3. CASE \E u \in Notice \cup {Gap(None)} : Take(u, pump.feed)
    BY Zenon, <2>1, <2>3, UpdateKinds
  <2> QED BY Zenon, <1>9, <2>2, <2>3 DEF Consume
<1>10. CASE Reserve
  BY Zenon, <1>10 DEF Reserve
<1>11. CASE Saturated
  BY Zenon, <1>11 DEF Saturated
<1>12. CASE Push
  <2>1. queue' \in Seq(Update)
    BY <1>12 DEF Push
  <2> QED BY Zenon, <1>12, <2>1 DEF Push
<1> QED BY Zenon, <1>1, <1>2, <1>3, <1>4, <1>5, <1>6, <1>7, <1>8, <1>9, <1>10, <1>11, <1>12 DEF PumpNext

(* The runtime's steps keep the types, and leave the pump and its lease    *)
(* alone: they start the pump and take updates from its queue.             *)
LEMMA RuntimeTypes ==
    ASSUME PumpShape, WorkShape, RuntimeNext
    PROVE  /\ WorkShape'
           /\ UNCHANGED <<envVars, activity, active>>
           /\ pump' = pump \/ InitializeStore
           /\ queue' = queue \/ (queue # <<>> /\ queue' = Tail(queue))
<1> DEFINE Framed == /\ UNCHANGED <<envVars, activity, active>>
                     /\ pump' = pump \/ InitializeStore
                     /\ queue' = queue \/ (queue # <<>> /\ queue' = Tail(queue))
<1>p. Framed
  BY Zenon DEF RuntimeNext, envVars, queueVars, leaseVars, InitializeStore, LoopTop, WaitUntilActive, Pause,
         SourceLease, Reconcile, ReadHead, ReadHeadFails, Backfill, PersistPage, Persist, Await,
         HandleLog, HandleControl, HandleHead, Drain, Drained, Check, ComparePublish, StoreReady,
         ConfirmReady, Live, Return, Dequeue
<1> HIDE DEF Framed
<1> SUFFICES WorkShape'
  BY Zenon, <1>p DEF Framed
<1> USE DEF WorkShape, RuntimeGoes
<1>d. \A t : DOMAIN Apply(t) = {"target", "required", "conflict"}
  BY Zenon DEF Apply, MergeRequired
<1>f. ASSUME FailRecovery, UNCHANGED store PROVE WorkShape'
  BY Zenon, <1>f DEF FailRecovery
<1>r. ASSUME NEW t, Retry(t), UNCHANGED store \/ store' = [store EXCEPT !.phase = "idle"]
      PROVE  WorkShape'
  BY Zenon, <1>r, <1>d DEF Retry
<1>q. ASSUME NEW back \in {"drain", "check"}, Dequeue(back), UNCHANGED <<recovery, store>> PROVE WorkShape'
  <2>1. Head(queue) \in Update
    BY <1>q DEF Dequeue, PumpShape
  <2> QED BY Zenon, <1>q, <2>1 DEF Dequeue
<1>1. CASE InitializeStore
  BY <1>1 DEF InitializeStore
<1>2. CASE LoopTop
  BY Zenon, <1>2 DEF LoopTop
<1>3. CASE WaitUntilActive
  BY Zenon, <1>3 DEF WaitUntilActive
<1>4. CASE Pause
  BY Zenon, <1>4 DEF Pause
<1>5. CASE SourceLease
  <2>1. activity \in Nat
    BY Zenon DEF PumpShape
  <2>2. \/ runtime' = [runtime EXCEPT !.pc = "leased", !.lease = activity]
        \/ runtime' = [runtime EXCEPT !.pc = "reconcile", !.attempted = recovery.target]
        \/ runtime' = [runtime EXCEPT !.pc = "top"]
    BY Zenon, <1>5 DEF SourceLease
  <2>3. UNCHANGED store /\ (UNCHANGED recovery \/ recovery' = [recovery EXCEPT !.target = None])
    BY Zenon, <1>5 DEF SourceLease
  <2> QED BY Zenon, <2>1, <2>2, <2>3
<1>6. CASE Reconcile
  BY Zenon, <1>6, <1>f DEF Reconcile
<1>7. CASE ReadHead
  <2>1. PICK h \in 0..chain : IF HeadAccepted(h)
             THEN /\ runtime' = [runtime EXCEPT !.pc = "backfill", !.head = h,
                                    !.page = FromBlock, !.cursor = store.cursor,
                                    !.stale = @ \/ h < chain]
                  /\ UNCHANGED <<ready, recovery>>
             ELSE FailRecovery
    BY Zenon, <1>7 DEF ReadHead
  <2>2. CASE HeadAccepted(h)
    <3>1. h \in Nat
      OBVIOUS
    <3> QED BY Zenon, <1>7, <2>1, <2>2, <3>1, FromBlockFacts DEF ReadHead
  <2> QED BY Zenon, <1>7, <1>f, <2>1, <2>2 DEF ReadHead
<1>8. CASE ReadHeadFails
  BY Zenon, <1>8, <1>f DEF ReadHeadFails
<1>9. CASE Backfill
  <2>1. PageLogs \subseteq Nat
    BY PageEndFacts DEF PageLogs
  <2> QED BY Zenon, <1>9, <2>1 DEF Backfill
<1>10. CASE PersistPage
  <2>1. PageEnd + 1 \in Nat
    BY PageEndFacts
  <2>2. ASSUME NEW h \in runtime.todo,
               runtime' = [runtime EXCEPT !.pc = "persist", !.log = h, !.todo = @ \ {h}, !.back = "persist_page"]
        PROVE  WorkShape'
    <3>1. h \in Nat /\ runtime.todo \ {h} \subseteq Nat
      BY Zenon
    <3> QED BY Zenon, <1>10, <2>2, <3>1 DEF PersistPage
  <2>3. ASSUME RuntimeGoes("drain") PROVE WorkShape'
    BY Zenon, <1>10, <2>3 DEF PersistPage
  <2>4. ASSUME runtime' = [runtime EXCEPT !.pc = "backfill", !.page = PageEnd + 1] PROVE WorkShape'
    BY Zenon, <1>10, <2>1, <2>4 DEF PersistPage
  <2> QED BY Zenon, <1>10, <2>2, <2>3, <2>4 DEF PersistPage
<1>11. CASE Persist
  <2>1. \/ UNCHANGED store
        \/ store' = [store EXCEPT !.command = runtime.log, !.phase = "queued", !.depth = store.depth + 1]
    BY Zenon, <1>11 DEF Persist, Request
  <2>2. \E pc \in {"returned", "await"} : runtime' = [runtime EXCEPT !.pc = pc]
    BY Zenon, <1>11 DEF Persist
  <2> QED BY Zenon, <1>11, <2>1, <2>2 DEF Persist
<1>12. CASE Await
  BY <1>12, <1>r DEF Await
<1>13. CASE HandleLog
  BY <1>13, UpdateFacts DEF HandleLog, Height
<1>14. CASE HandleControl
  BY Zenon, <1>14, <1>r DEF HandleControl
<1>15. CASE HandleHead
  BY Zenon, <1>15, <1>f, <1>r DEF HandleHead
<1>16. CASE Drain
  BY Zenon, <1>16, <1>q DEF Drain
<1>17. CASE Drained
  BY Zenon, <1>17, <1>d, <1>r DEF Drained
<1>18. CASE Check
  BY Zenon, <1>18 DEF Check
<1>19. CASE ComparePublish
  BY Zenon, <1>19, <1>r DEF ComparePublish
<1>20. CASE StoreReady
  BY Zenon, <1>20 DEF StoreReady
<1>21. CASE ConfirmReady
  BY Zenon, <1>21, <1>r DEF ConfirmReady
<1>22. CASE Live
  BY Zenon, <1>22, <1>q DEF Live
<1>23. CASE Return
  BY Zenon, <1>23 DEF Return
<1> QED BY Zenon, <1>1, <1>2, <1>3, <1>4, <1>5, <1>6, <1>7, <1>8, <1>9, <1>10, <1>11, <1>12, <1>13, <1>14,
           <1>15, <1>16, <1>17, <1>18, <1>19, <1>20, <1>21, <1>22, <1>23 DEF RuntimeNext

(* An append only adds to the store, and never lowers its cursor.          *)
LEMMA AppendFacts ==
    ASSUME WorkShape, NEW s, NEW q, NEW r,
           s = [AppendLog(store.command) EXCEPT !.phase = q, !.reply = r]
    PROVE  /\ DOMAIN s = DOMAIN store /\ s.durable = store.durable \cup {store.command}
           /\ s.cursor \in Nat /\ s.command = store.command /\ s.phase = q /\ s.reply = r
           /\ s.cursor = IF store.command > store.cursor THEN store.command ELSE store.cursor
BY Zenon DEF AppendLog, WorkShape

(* What the writer does.                                                   *)
LEMMA WriterFacts ==
    ASSUME WorkShape, WriterNext
    PROVE  /\ UNCHANGED <<envVars, leaseVars, queueVars, pump, runtime, recovery, owed>>
           /\ DOMAIN store' = DOMAIN store /\ store'.command = store.command
           /\ \/ /\ store.phase = "queued" /\ store'.phase = "executed"
                 /\ store'.durable = store.durable \cup {store.command}
                 /\ store'.cursor = IF store.command > store.cursor THEN store.command ELSE store.cursor
              \/ /\ store.phase = "queued" /\ store'.phase = "executed" /\ store'.reply # "ok"
                 /\ store'.durable = store.durable /\ store'.cursor = store.cursor
              \/ /\ store.phase = "executed" /\ store'.phase = "answered" /\ store'.reply = store.reply
                 /\ store'.durable = store.durable /\ store'.cursor = store.cursor
<1>1. CASE Respond
  BY Zenon, <1>1 DEF Respond, WorkShape
<1>2. CASE Execute
  <2>1. ASSUME NEW r, store' = [AppendLog(store.command) EXCEPT !.phase = "executed", !.reply = r]
        PROVE  /\ DOMAIN store' = DOMAIN store /\ store'.command = store.command
               /\ store'.phase = "executed" /\ store'.durable = store.durable \cup {store.command}
               /\ store'.cursor = IF store.command > store.cursor THEN store.command ELSE store.cursor
    BY Zenon, <2>1, AppendFacts
  <2>2. ASSUME NEW r \in {"retry", "refused"}, store' = [store EXCEPT !.phase = "executed", !.reply = r]
        PROVE  /\ DOMAIN store' = DOMAIN store /\ store'.command = store.command
               /\ store'.phase = "executed" /\ store'.reply # "ok"
               /\ store'.durable = store.durable /\ store'.cursor = store.cursor
    BY Zenon, <2>2 DEF WorkShape
  <2> QED BY Zenon, <1>2, <2>1, <2>2 DEF Execute
<1> QED BY Zenon, <1>1, <1>2 DEF WriterNext

(* The rest: the environment and main.                                     *)
Outside == NewBlock \/ StopServing \/ JoinWorker \/ JoinRedis \/ UNCHANGED vars

(* What a step from outside keeps.                                         *)
LEMMA OutsideFacts ==
    ASSUME PumpShape, Outside
    PROVE  /\ UNCHANGED <<activity, active, queue, pump, workVars>>
           /\ chain' \in Height /\ chain' >= chain
           /\ ready' => ready
           /\ shutdown => shutdown'
<1>1. CASE NewBlock
  BY <1>1, WorkerAssumption DEF NewBlock, PumpShape, Height, leaseVars, queueVars
<1>2. CASE StopServing \/ JoinWorker \/ JoinRedis \/ UNCHANGED vars
  BY <1>2 DEF StopServing, JoinWorker, JoinRedis, vars, envVars, leaseVars, queueVars, PumpShape, Height
<1> QED BY Zenon, <1>1, <1>2 DEF Outside

(* Every step is one of the pump's, of the writer's, of the runtime's, or  *)
(* from outside.                                                           *)
LEMMA Steps ==
    [Next]_vars => PumpNext \/ WriterNext \/ RuntimeNext \/ Outside
BY Zenon DEF Next, Outside

Shape == PumpShape /\ WorkShape

(* Every step keeps the shape, and the chain only grows.                   *)
LEMMA ShapeStep ==
    ASSUME Shape, [Next]_vars
    PROVE  Shape' /\ chain' >= chain
<1> USE DEF Shape
<1>0. chain \in Nat
  BY DEF PumpShape, Height
<1>1. CASE PumpNext
  <2>1. PumpShape' /\ UNCHANGED <<envVars, workVars>>
    BY Zenon, <1>1, PumpTypes
  <2> QED BY <1>0, <2>1 DEF envVars, workVars, WorkShape
<1>2. CASE WriterNext
  <2>1. store'.cursor \in Nat
    BY Zenon, <1>2, WriterFacts DEF WorkShape
  <2> QED BY <1>0, <1>2, <2>1, WriterFacts DEF envVars, leaseVars, queueVars, WorkShape, PumpShape
<1>3. CASE RuntimeNext
  <2>1. /\ WorkShape' /\ UNCHANGED <<envVars, activity, active>>
        /\ pump' = pump \/ InitializeStore
        /\ queue' = queue \/ (queue # <<>> /\ queue' = Tail(queue))
    BY Zenon, <1>3, RuntimeTypes
  <2>2. queue' \in Seq(Update)
    BY <2>1 DEF PumpShape
  <2>3. pump' = pump \/ pump' = [pump EXCEPT !.pc = "top"]
    BY Zenon, <2>1 DEF InitializeStore, PumpGoes
  <2> QED BY <1>0, <2>1, <2>2, <2>3 DEF PumpShape, envVars
<1>4. CASE Outside
  BY Zenon, <1>4, OutsideFacts DEF PumpShape, WorkShape, workVars
<1> QED BY Zenon, <1>1, <1>2, <1>3, <1>4, Steps

-----------------------------------------------------------------------------
(* The pump and its lease                                                  *)

Sending == {"send", "saturated", "blocked", "push"}
Leaving == {"revoke", "unready", "deactivate"}

(* The lease is active from the connection of a subscription until it is   *)
(* revoked, an ended one has a Gap to send, and the watch channel follows. *)
PumpInv ==
    /\ pump.then \in {"top", "subscribe", "sleep", "send", "stopped"}
    /\ pump.pc \in Leaving => pump.then # "top"
    /\ pump.pc \in {"activate", "consume"} => activity % 2 = 1
    /\ pump.pc \in Sending => (activity % 2 = 1 <=> ~pump.ended)
    /\ activity % 2 = 1 => pump.pc \in {"activate", "consume", "revoke"} \cup Sending
    /\ pump.pc \in Sending \/ (pump.pc \in Leaving /\ pump.then = "send") =>
          (pump.ended <=> pump.pending.kind = "gap")
    /\ pump.pc \in Leaving /\ pump.then = "send" => pump.ended
    /\ active => \/ pump.pc = "consume"
                 \/ pump.pc \in Sending /\ ~pump.ended
                 \/ pump.pc \in Leaving /\ pump.then \in {"send", "stopped"}
    /\ pump.pc \in {"connect", "activate"} => pump.ever
    /\ ~pump.ever => ~active /\ runtime.pc \in {"start", "top", "wait", "returned", "stopped"}
    /\ runtime.pc = "start" => pump.pc = "off"

(* What the pump takes has happened.                                       *)
FeedInv ==
    /\ pump.feed <= chain + 1
    /\ \A h : IsLog(pump.pending, h) => h <= chain
    /\ \A i \in 1..Len(queue) : \A h : IsLog(queue[i], h) => h <= chain

(* The pump keeps its invariant.                                           *)
LEMMA PumpInvByPump ==
    ASSUME Shape, PumpInv, PumpNext
    PROVE  PumpInv'
<1> USE DEF PumpInv, Sending, Leaving, PumpGoes, MarkInactive
<1>0. /\ DOMAIN pump = {"pc", "then", "pending", "ended", "feed", "ever", "large"}
      /\ activity \in Nat
  BY Zenon DEF Shape, PumpShape
<1>r. UNCHANGED runtime
  BY Zenon, PumpTypes DEF Shape, workVars
<1>1. CASE Revoke
  <2>1. activity' % 2 = 0
    BY Zenon, <1>0, <1>1, AdvanceFacts DEF Revoke, AdvanceSourceActivity
  <2> QED BY <1>0, <1>1, <1>r, <2>1 DEF Revoke
<1>2. CASE Unready
  BY Zenon, <1>0, <1>2, <1>r DEF Unready
<1>3. CASE Deactivate
  BY Zenon, <1>0, <1>3, <1>r DEF Deactivate
<1>4. CASE PumpExits
  BY Zenon, <1>0, <1>4, <1>r DEF PumpExits, leaseVars
<1>5. CASE PumpTop
  BY Zenon, <1>0, <1>5, <1>r DEF PumpTop, leaseVars
<1>6. CASE Subscribe
  BY Zenon, <1>0, <1>6, <1>r, UpdateKinds DEF Subscribe, leaseVars
<1>7. CASE SourceConnected
  <2>1. activity' % 2 = 1
    BY Zenon, <1>0, <1>7, AdvanceFacts DEF SourceConnected, AdvanceSourceActivity
  <2> QED BY Zenon, <1>0, <1>7, <1>r, <2>1 DEF SourceConnected
<1>8. CASE Activate
  BY Zenon, <1>0, <1>8, <1>r DEF Activate
<1>9. CASE Consume
  <2>1. PICK u \in Update, f \in Nat : Take(u, f) /\ (NormalizeUpdate(u).kind = "gap" <=> Terminal(u))
    <3>1. CASE pump.feed <= chain /\ Take(Log(pump.feed), pump.feed + 1)
      <4>1. pump.feed \in Height /\ pump.feed + 1 \in Nat
        BY <3>1, WorkerAssumption DEF Shape, PumpShape, Height
      <4> QED BY Zenon, <3>1, <4>1, UpdateKinds, TakeFacts DEF Shape
    <3>2. CASE \E u \in Notice \cup {Gap(None)} : Take(u, pump.feed)
      <4>1. pump.feed \in Nat
        BY Zenon DEF Shape, PumpShape
      <4> QED BY Zenon, <3>2, <4>1, UpdateKinds, TakeFacts DEF Shape
    <3> QED BY Zenon, <1>9, <3>1, <3>2 DEF Consume
  <2>2. pump.pc = "consume" /\ UNCHANGED leaseVars
    BY Zenon, <1>9 DEF Consume
  <2> QED BY Zenon, <1>0, <1>r, <2>1, <2>2 DEF Take, leaseVars
<1>10. CASE Reserve
  BY Zenon, <1>0, <1>10, <1>r DEF Reserve, leaseVars
<1>11. CASE Saturated
  BY Zenon, <1>0, <1>11, <1>r DEF Saturated
<1>12. CASE Push
  BY Zenon, <1>0, <1>12, <1>r DEF Push, leaseVars
<1> QED BY SMTT(30), <1>1, <1>2, <1>3, <1>4, <1>5, <1>6, <1>7, <1>8, <1>9, <1>10, <1>11, <1>12 DEF PumpNext

(* Where the runtime starts from.                                          *)
LEMMA RuntimeStarts ==
    ASSUME Shape, RuntimeNext
    PROVE  /\ runtime'.pc = "start" => runtime.pc = "start" /\ pump' = pump
           /\ runtime.pc \in {"start", "top", "wait", "returned", "stopped"} /\ ~active =>
                 runtime'.pc \in {"start", "top", "wait", "returned", "stopped"}
<1> USE DEF RuntimeGoes
<1>0. /\ DOMAIN runtime = {"pc", "lease", "attempted", "cursor", "head", "page", "todo", "log",
                         "update", "back", "forks", "stale"}
      /\ runtime.back \in {"live", "persist_page", "drain", "check"}
  BY Zenon DEF Shape, WorkShape
<1>1. CASE runtime.pc \in {"start", "top", "wait", "returned", "stopped"}
  BY Zenon, <1>0, <1>1 DEF RuntimeNext, InitializeStore, LoopTop, WaitUntilActive, Pause,
         SourceLease, Reconcile, ReadHead, ReadHeadFails, Backfill, PersistPage, Persist, Await,
         HandleLog, HandleControl, HandleHead, Drain, Drained, Check, ComparePublish, StoreReady,
         ConfirmReady, Live, Return
<1>2. CASE runtime.pc \notin {"start", "top", "wait", "returned", "stopped"}
  BY Zenon, <1>0, <1>2 DEF RuntimeNext, InitializeStore, LoopTop, WaitUntilActive, Pause,
         SourceLease, Reconcile, ReadHead, ReadHeadFails, Backfill, PersistPage, Persist, Await,
         HandleLog, HandleControl, HandleHead, Drain, Drained, Check, ComparePublish, StoreReady,
         ConfirmReady, Live, Return, Dequeue, FailRecovery, Retry
<1> QED BY Zenon, <1>1, <1>2

(* So does every step.                                                     *)
LEMMA PumpInvStep ==
    ASSUME Shape, PumpInv, [Next]_vars
    PROVE  PumpInv'
<1>1. CASE PumpNext
  BY Zenon, <1>1, PumpInvByPump
<1>2. CASE WriterNext
  BY <1>2, WriterFacts DEF PumpInv, Shape, leaseVars
<1>3. CASE RuntimeNext
  <2>1. UNCHANGED <<activity, active>> /\ (pump' = pump \/ InitializeStore)
    BY Zenon, <1>3, RuntimeTypes DEF Shape
  <2>2. CASE pump' = pump
    BY Zenon, <1>3, <2>1, <2>2, RuntimeStarts DEF PumpInv
  <2>3. CASE pump' # pump
    <3>1. runtime.pc = "start" /\ pump' = [pump EXCEPT !.pc = "top"] /\ runtime'.pc = "top"
      BY Zenon, <2>1, <2>3 DEF InitializeStore, PumpGoes, RuntimeGoes, Shape, WorkShape
    <3> QED BY Zenon, <2>1, <3>1 DEF PumpInv, Sending, Leaving, Shape, PumpShape
  <2> QED BY Zenon, <2>2, <2>3
<1>4. CASE Outside
  BY <1>4, OutsideFacts DEF PumpInv, Shape, workVars
<1> QED BY Zenon, <1>1, <1>2, <1>3, <1>4, Steps

(* Every step takes only what has happened.                                *)
LEMMA FeedStep ==
    ASSUME Shape, FeedInv, [Next]_vars
    PROVE  FeedInv'
<1> USE DEF FeedInv
<1>0. /\ DOMAIN pump = {"pc", "then", "pending", "ended", "feed", "ever", "large"}
      /\ chain \in Nat /\ chain' \in Nat /\ chain' >= chain /\ pump.feed \in Nat
      /\ queue \in Seq(Update) /\ pump.pending \in Update /\ Len(queue) \in Nat
  BY ShapeStep DEF Shape, PumpShape, Height
<1>l. \A u \in Update : \A h : IsLog(u, h) => h \in Nat
  BY UpdateFacts DEF IsLog, Height
<1>q. \A i \in 1..Len(queue) : queue[i] \in Update
  BY <1>0
<1>a. \A i \in 1..Len(queue) : \A h : IsLog(queue[i], h) => h <= chain'
  BY <1>0, <1>l, <1>q
<1>b. \A h : IsLog(pump.pending, h) => h <= chain'
  BY <1>0, <1>l
<1>c. pump.feed <= chain' + 1
  BY <1>0
<1> HIDE DEF FeedInv
<1>p. ASSUME pump'.feed = pump.feed, pump'.pending = pump.pending, queue' = queue PROVE FeedInv'
  BY Zenon, <1>a, <1>b, <1>c, <1>p DEF FeedInv
<1>1. CASE PumpNext
  <2>1. UNCHANGED chain
    BY Zenon, <1>1, PumpTypes DEF Shape, envVars
  <2>2. CASE Revoke \/ Unready \/ Deactivate \/ PumpExits \/ PumpTop \/ SourceConnected \/ Activate \/ Reserve \/ Saturated
    BY Zenon, <1>0, <1>p, <2>2 DEF Revoke, Unready, Deactivate, PumpExits, PumpTop, SourceConnected, Activate,
                            Reserve, Saturated, PumpGoes, MarkInactive, queueVars
  <2>3. CASE Subscribe
    <3>1. Gap(None).kind # "log"
      BY Zenon, UpdateKinds
    <3>2. UNCHANGED queue /\ pump'.feed \in {pump.feed, chain + 1} /\ pump'.pending \in {pump.pending, Gap(None)}
      BY Zenon, <1>0, <2>3 DEF Subscribe, MarkInactive, queueVars
    <3>3. \A h : ~IsLog(Gap(None), h)
      BY Zenon, <3>1 DEF IsLog
    <3>4. pump'.feed <= chain' + 1
      BY <1>0, <1>c, <2>1, <3>2
    <3> QED BY Zenon, <1>a, <1>b, <3>2, <3>3, <3>4 DEF FeedInv
  <2>4. CASE Consume
    <3>1. UNCHANGED queue
      BY Zenon, <2>4 DEF Consume, queueVars
    <3>2. ASSUME NEW u \in Update, NEW f \in Nat, f <= chain + 1, u.kind = "log" \/ u \in Notice \cup {Gap(None)},
                 \A h : IsLog(u, h) => h <= chain, Take(u, f)
          PROVE  FeedInv'
      <4>1. pump'.pending = NormalizeUpdate(u) /\ pump'.feed = f
        BY Zenon, <1>0, <3>2 DEF Take
      <4>2. \A h : IsLog(NormalizeUpdate(u), h) => h <= chain
        BY Zenon, <3>2, UpdateKinds DEF NormalizeUpdate, IsLog
      <4> QED BY Zenon, <1>a, <2>1, <3>1, <3>2, <4>1, <4>2 DEF FeedInv
    <3>3. CASE pump.feed <= chain /\ Take(Log(pump.feed), pump.feed + 1)
      <4>1. pump.feed \in Height
        BY <3>3, WorkerAssumption DEF Shape, PumpShape, Height
      <4>2. Log(pump.feed) \in Update /\ Log(pump.feed).kind = "log" /\ Log(pump.feed).cursor.number = pump.feed
        BY Zenon, <4>1, UpdateKinds
      <4> QED BY <1>0, <3>2, <3>3, <4>2 DEF IsLog
    <3>4. CASE \E u \in Notice \cup {Gap(None)} : Take(u, pump.feed)
      <4>1. PICK u \in Notice \cup {Gap(None)} : Take(u, pump.feed)
        BY Zenon, <3>4
      <4>2. u \in Update /\ u.kind # "log"
        BY Zenon, UpdateKinds DEF Notice
      <4> QED BY Zenon, <1>0, <1>c, <2>1, <3>2, <4>1, <4>2 DEF IsLog
    <3> QED BY Zenon, <2>4, <3>3, <3>4 DEF Consume
  <2>5. CASE Push
    <3>1. queue' = Append(queue, pump.pending) /\ pump'.feed = pump.feed /\ pump'.pending = pump.pending
      BY Zenon, <1>0, <2>5 DEF Push, MarkInactive, PumpGoes
    <3>2. Len(queue') = Len(queue) + 1 /\ \A i \in 1..Len(queue') : queue'[i] = IF i = Len(queue) + 1 THEN pump.pending ELSE queue[i]
      BY <1>0, <3>1
    <3>3. \A i \in 1..Len(queue') : i # Len(queue) + 1 => i \in 1..Len(queue)
      BY <1>0, <3>2
    <3>4. \A i \in 1..Len(queue') : \A h : IsLog(queue'[i], h) => h <= chain'
      BY Zenon, <1>a, <1>b, <3>2, <3>3
    <3> QED BY Zenon, <1>b, <1>c, <3>1, <3>4 DEF FeedInv
  <2> QED BY Zenon, <1>1, <2>2, <2>3, <2>4, <2>5 DEF PumpNext
<1>2. CASE WriterNext
  BY Zenon, <1>2, <1>p, WriterFacts DEF Shape, queueVars
<1>3. CASE RuntimeNext
  <2>1. (pump' = pump \/ InitializeStore) /\ (queue' = queue \/ (queue # <<>> /\ queue' = Tail(queue)))
    BY Zenon, <1>3, RuntimeTypes DEF Shape
  <2>2. pump'.feed = pump.feed /\ pump'.pending = pump.pending
    BY Zenon, <1>0, <2>1 DEF InitializeStore, PumpGoes
  <2>3. CASE queue # <<>> /\ queue' = Tail(queue)
    <3>1. Len(queue') = Len(queue) - 1 /\ \A i \in 1..Len(queue') : queue'[i] = queue[i + 1] /\ i + 1 \in 1..Len(queue)
      BY <1>0, <2>3
    <3> QED BY Zenon, <1>a, <1>b, <1>c, <2>2, <3>1 DEF FeedInv
  <2> QED BY Zenon, <1>p, <2>1, <2>2, <2>3
<1>4. CASE Outside
  BY Zenon, <1>4, <1>p, OutsideFacts DEF Shape
<1> QED BY Zenon, <1>1, <1>2, <1>3, <1>4, Steps

-----------------------------------------------------------------------------
(* The runtime and the lease it holds                                      *)

Handling == runtime.pc \in {"handle", "persist", "await"}

(* From the activity watch to the head that is read.                       *)
Engaged == runtime.pc \in {"lease", "leased", "reconcile", "head"}

(* Backfill up to that head.                                               *)
Recovering ==
    \/ runtime.pc \in {"backfill", "persist_page"}
    \/ runtime.pc \in {"persist", "await"} /\ runtime.back = "persist_page"

(* Updates queued meanwhile.                                               *)
Draining ==
    \/ runtime.pc = "drain"
    \/ Handling /\ runtime.back = "drain"

(* After a recovery, until the loop starts over.                           *)
Serving ==
    \/ runtime.pc \in {"drained", "check", "publish", "store", "confirm", "withdraw", "live"}
    \/ Handling /\ runtime.back = "check"
    \/ runtime.pc = "top" /\ ready

(* Readiness is stored only after a recovery under an active lease, and    *)
(* what a revoked lease left of it is about to be withdrawn.               *)
LeaseInv ==
    /\ runtime.lease <= activity
    /\ Recovering \/ Draining \/ Serving \/ ready \/ runtime.pc \in {"reconcile", "head"} =>
          runtime.lease % 2 = 1
    /\ runtime.pc \in {"start", "wait", "pause", "pause_live", "drained", "stopped"}
       \/ Engaged \/ Recovering \/ Draining => ~ready
    /\ runtime.pc = "returned" /\ ready => shutdown \/ pump.pc = "stopped"
    /\ runtime.pc = "handle" => runtime.back \in {"drain", "check"}
    /\ runtime.pc \in {"persist", "await"} => runtime.back \in {"persist_page", "drain", "check"}
    /\ ready /\ Settled => LeaseHeld

(* The pump keeps readiness bound to its lease.                            *)
LEMMA LeaseByPump ==
    ASSUME Shape, PumpInv, LeaseInv, PumpNext
    PROVE  LeaseInv'
<1> USE DEF LeaseInv, Settled, LeaseHeld, PumpGoes, MarkInactive
<1>0. /\ DOMAIN pump = {"pc", "then", "pending", "ended", "feed", "ever", "large"}
      /\ activity \in Nat /\ runtime.lease \in Nat
  BY Zenon DEF Shape, PumpShape, WorkShape
<1>r. UNCHANGED <<runtime, shutdown>>
  BY Zenon, PumpTypes DEF Shape, workVars, envVars
<1>s. /\ Engaged' <=> Engaged
      /\ Recovering' <=> Recovering
      /\ Draining' <=> Draining
      /\ Serving' /\ ~Serving => ready'
  BY Zenon, <1>r DEF Engaged, Recovering, Draining, Serving, Handling
<1>1. CASE Revoke
  <2>1. activity' \in Nat /\ activity' > activity
    BY Zenon, <1>0, <1>1, AdvanceFacts DEF Revoke, AdvanceSourceActivity
  <2> QED BY <1>0, <1>1, <1>r, <1>s, <2>1 DEF Revoke
<1>2. CASE Unready
  BY Zenon, <1>0, <1>2, <1>r, <1>s DEF Unready
<1>7. CASE SourceConnected
  <2>1. activity' \in Nat /\ activity' > activity
    BY Zenon, <1>0, <1>7, AdvanceFacts DEF SourceConnected, AdvanceSourceActivity
  <2>2. activity % 2 # 1
    BY Zenon, <1>7 DEF PumpInv, Sending, SourceConnected
  <2> QED BY <1>0, <1>7, <1>r, <1>s, <2>1, <2>2 DEF SourceConnected
<1>p. ASSUME UNCHANGED activity, ready' = ready \/ ready' = FALSE, pump.pc \notin {"unready", "stopped"} PROVE LeaseInv'
  BY Zenon, <1>p, <1>r, <1>s
<1>3. CASE Deactivate \/ PumpExits \/ PumpTop \/ Subscribe \/ Activate \/ Consume \/ Reserve \/ Saturated \/ Push
  <2> HIDE DEF LeaseInv, Settled, LeaseHeld
  <2> QED BY Zenon, <1>3, <1>p DEF Deactivate, PumpExits, PumpTop, Subscribe, Activate, Consume, Reserve, Saturated, Push, leaseVars
<1> QED BY Zenon, <1>1, <1>2, <1>3, <1>7 DEF PumpNext

(* So does the runtime.                                                    *)
LEMMA LeaseByRuntime ==
    ASSUME Shape, LeaseInv, RuntimeNext
    PROVE  LeaseInv'
<1> USE DEF LeaseInv, Settled, LeaseHeld, RuntimeGoes, Engaged, Recovering, Draining, Serving, Handling
<1>0. /\ DOMAIN runtime = {"pc", "lease", "attempted", "cursor", "head", "page", "todo", "log",
                           "update", "back", "forks", "stale"}
      /\ runtime.lease \in Nat /\ activity \in Nat
  BY Zenon DEF Shape, WorkShape, PumpShape
<1>p. UNCHANGED <<activity, shutdown>> /\ (pump' = pump \/ InitializeStore)
  BY Zenon, RuntimeTypes DEF Shape, envVars
<1>f. ASSUME FailRecovery, pump' = pump PROVE LeaseInv'
  BY Zenon, <1>0, <1>p, <1>f DEF FailRecovery
<1>r. ASSUME NEW t, Retry(t), ready' = FALSE, pump' = pump PROVE LeaseInv'
  BY Zenon, <1>0, <1>p, <1>r DEF Retry
<1>q. ASSUME NEW back \in {"drain", "check"}, Dequeue(back), ready' = ready, pump' = pump,
             runtime.pc = IF back = "drain" THEN "drain" ELSE "live"
      PROVE  LeaseInv'
  BY Zenon, <1>0, <1>p, <1>q DEF Dequeue
<1>1. CASE InitializeStore
  BY Zenon, <1>0, <1>1, <1>p DEF InitializeStore, leaseVars
<1> SUFFICES ASSUME pump' = pump PROVE LeaseInv'
  BY Zenon, <1>p, <1>1
<1>2. CASE LoopTop
  BY Zenon, <1>0, <1>2, <1>p DEF LoopTop
<1>3. CASE WaitUntilActive
  BY Zenon, <1>0, <1>3, <1>p DEF WaitUntilActive, leaseVars
<1>4. CASE Pause
  BY Zenon, <1>0, <1>4, <1>p DEF Pause, leaseVars
<1>5. CASE SourceLease
  <2>1. UNCHANGED ready /\ ~ready
    BY Zenon, <1>5 DEF SourceLease, leaseVars
  <2>2. \/ runtime'.pc = "leased" /\ runtime'.lease = activity
        \/ runtime'.pc = "reconcile" /\ runtime'.lease = runtime.lease /\ runtime.lease % 2 = 1
        \/ runtime'.pc = "top" /\ runtime'.lease = runtime.lease
    BY Zenon, <1>0, <1>5 DEF SourceLease
  <2> QED BY <1>0, <1>p, <2>1, <2>2
<1>6. CASE Reconcile
  BY <1>0, <1>6, <1>p, <1>f DEF Reconcile
<1>7. CASE ReadHead
  <2>1. FailRecovery \/ (runtime'.pc = "backfill" /\ runtime'.lease = runtime.lease /\ runtime'.back = runtime.back /\ UNCHANGED ready)
    BY Zenon, <1>0, <1>7 DEF ReadHead
  <2> QED BY <1>0, <1>7, <1>p, <1>f, <2>1 DEF ReadHead
<1>8. CASE ReadHeadFails
  BY Zenon, <1>8, <1>f DEF ReadHeadFails
<1>9. CASE Backfill
  BY Zenon, <1>0, <1>9, <1>p DEF Backfill, leaseVars
<1>10. CASE PersistPage
  <2>1. UNCHANGED ready /\ ~ready /\ runtime.lease % 2 = 1
    BY Zenon, <1>10 DEF PersistPage, leaseVars
  <2>2. /\ runtime'.lease = runtime.lease
        /\ runtime'.pc \in {"drain", "backfill"} \/ (runtime'.pc = "persist" /\ runtime'.back = "persist_page")
    BY Zenon, <1>0, <1>10 DEF PersistPage
  <2> QED BY Zenon, <1>0, <1>p, <2>1, <2>2
<1>11. CASE Persist
  BY Zenon, <1>0, <1>11, <1>p DEF Persist, leaseVars
<1>12. CASE Await
  <2>1. \/ runtime'.pc = "returned" /\ shutdown /\ UNCHANGED ready
        \/ runtime'.pc = runtime.back /\ UNCHANGED ready
        \/ runtime'.pc = "persist" /\ ready' = FALSE
        \/ ready' = FALSE /\ Retry(Recover(BlockCursor(runtime.log)))
    BY Zenon, <1>0, <1>12 DEF Await
  <2>2. runtime.pc = "await" /\ runtime'.lease = runtime.lease /\ runtime'.back = runtime.back
    BY Zenon, <1>0, <1>12 DEF Await, Retry
  <2>3. CASE ready' = FALSE /\ Retry(Recover(BlockCursor(runtime.log)))
    BY Zenon, <1>r, <2>3
  <2>4. CASE runtime'.pc = "returned" /\ shutdown /\ UNCHANGED ready
    BY Zenon, <1>0, <1>p, <2>2, <2>4
  <2>5. CASE runtime'.pc = runtime.back /\ UNCHANGED ready
    BY Zenon, <1>0, <1>p, <2>2, <2>5
  <2>6. CASE runtime'.pc = "persist" /\ ready' = FALSE
    BY Zenon, <1>0, <1>p, <2>2, <2>6
  <2> QED BY Zenon, <2>1, <2>3, <2>4, <2>5, <2>6
<1>13. CASE HandleLog
  BY Zenon, <1>0, <1>13, <1>p DEF HandleLog, leaseVars
<1>14. CASE HandleControl
  BY Zenon, <1>14, <1>r DEF HandleControl
<1>15. CASE HandleHead
  BY <1>0, <1>15, <1>p, <1>f DEF HandleHead, Retry
<1>16. CASE Drain
  BY Zenon, <1>0, <1>16, <1>p, <1>q DEF Drain, leaseVars
<1>17. CASE Drained
  BY Zenon, <1>0, <1>17, <1>p DEF Drained, Retry, leaseVars
<1>18. CASE Check
  BY Zenon, <1>0, <1>18, <1>p DEF Check, leaseVars
<1>19. CASE ComparePublish
  BY Zenon, <1>0, <1>19, <1>p DEF ComparePublish, Retry, leaseVars
<1>20. CASE StoreReady
  BY Zenon, <1>0, <1>20, <1>p DEF StoreReady
<1>21. CASE ConfirmReady
  <2>1. CASE runtime.pc = "confirm" /\ UNCHANGED ready
    <3>1. runtime'.lease = runtime.lease /\ runtime'.pc = IF LeaseHeld THEN "live" ELSE "withdraw"
      BY Zenon, <1>0, <1>21, <2>1 DEF ConfirmReady
    <3> QED BY Zenon, <1>0, <1>p, <2>1, <3>1
  <2> QED BY Zenon, <1>21, <1>r, <2>1 DEF ConfirmReady
<1>22. CASE Live
  BY Zenon, <1>0, <1>22, <1>p, <1>q DEF Live, leaseVars
<1>23. CASE Return
  BY Zenon, <1>0, <1>23, <1>p DEF Return
<1> QED BY Zenon, <1>1, <1>2, <1>3, <1>4, <1>5, <1>6, <1>7, <1>8, <1>9, <1>10, <1>11, <1>12, <1>13, <1>14,
           <1>15, <1>16, <1>17, <1>18, <1>19, <1>20, <1>21, <1>22, <1>23 DEF RuntimeNext

(* So does every step.                                                     *)
LEMMA LeaseStep ==
    ASSUME Shape, PumpInv, LeaseInv, [Next]_vars
    PROVE  LeaseInv'
<1>2. CASE WriterNext
  BY <1>2, WriterFacts DEF LeaseInv, Settled, LeaseHeld, Engaged, Recovering, Draining, Serving, Handling,
                           Shape, leaseVars, envVars
<1>4. CASE Outside
  <2>1. UNCHANGED <<activity, pump, runtime>> /\ (ready' => ready) /\ (shutdown => shutdown')
    BY Zenon, <1>4, OutsideFacts DEF Shape, workVars
  <2> QED BY Zenon, <2>1 DEF LeaseInv, Settled, LeaseHeld, Engaged, Recovering, Draining, Serving, Handling
<1> QED BY Zenon, <1>2, <1>4, LeaseByPump, LeaseByRuntime, Steps

-----------------------------------------------------------------------------
(* The steps of the runtime by what they do to the stream of updates       *)

Working == Engaged \/ Recovering \/ Draining \/ Serving

Kept ==
    /\ queue' = queue /\ runtime'.stale = runtime.stale
    /\ store'.durable = store.durable /\ store'.cursor = store.cursor
    /\ store'.command = store.command /\ store'.reply = store.reply
    /\ store'.phase = store.phase \/ store'.phase = "idle"

(* The loop starts over, waits or ends.                                    *)
Leaves == Kept /\ ~Working' /\ runtime'.pc \notin {"handle", "persist", "await"}

(* A recovery starts, while the subscription is active, and goes on.       *)
Engages == Kept /\ Engaged' /\ (Engaged \/ (runtime.pc = "wait" /\ active))

(* The head it was answered with is accepted.                              *)
Accepts ==
    /\ Engaged /\ queue' = queue /\ store' = store /\ runtime'.pc = "backfill"
    /\ \E h \in 0..chain :
          /\ HeadAccepted(h) /\ runtime'.head = h /\ runtime'.page = FromBlock
          /\ runtime'.cursor = store.cursor /\ runtime'.stale = (runtime.stale \/ h < chain)

(* A log of the page, or of the stream, is submitted.                      *)
Submits ==
    /\ runtime.pc = "persist" /\ runtime'.pc = "await" /\ store.phase = "idle"
    /\ store'.phase = "queued" /\ store'.command = runtime.log
    /\ store'.durable = store.durable /\ store'.cursor = store.cursor

(* It is appended, or tried again.                                         *)
Answered ==
    /\ runtime.pc = "await" /\ store.phase = "answered"
    /\ \/ store.reply = "ok" /\ runtime'.pc = runtime.back
       \/ runtime'.pc = "persist"
    /\ store'.durable = store.durable /\ store'.cursor = store.cursor
    /\ store'.phase = "idle"

(* The rest of a round: no update is taken and no log is persisted.        *)
Goes ==
    /\ Kept /\ runtime'.lease = runtime.lease /\ runtime.pc \notin {"persist", "await"}
    /\ runtime'.pc \notin {"handle", "persist", "await"}
    /\ runtime.pc = "handle" => runtime.update.kind = "head"
    /\ \/ Draining /\ Draining'
       \/ Serving /\ Serving'
       \/ Draining /\ Serving' /\ runtime.pc = "drain" /\ queue = <<>>

(* The next update is taken.                                               *)
Takes ==
    /\ runtime.pc \in {"drain", "live"} /\ queue # <<>> /\ queue' = Tail(queue)
    /\ runtime'.pc = "handle" /\ runtime'.update = Head(queue)
    /\ runtime'.back = IF runtime.pc = "drain" THEN "drain" ELSE "check"
    /\ runtime'.stale = runtime.stale /\ runtime'.lease = runtime.lease /\ store' = store

(* What the moves keep besides.                                            *)
SameRound ==
    /\ queue' = queue /\ runtime'.stale = runtime.stale /\ runtime'.log = runtime.log
    /\ runtime'.head = runtime.head /\ runtime'.page = runtime.page
    /\ runtime'.cursor = runtime.cursor /\ runtime'.todo = runtime.todo
    /\ runtime'.back = runtime.back /\ runtime'.lease = runtime.lease

Moves ==
    \/ Leaves \/ Engages \/ Accepts \/ Goes \/ Takes
    \/ SameRound /\ Submits
    \/ SameRound /\ Answered
    \/ Backfill \/ PersistPage \/ HandleLog

(* Every step of the runtime is one of these, and what it leaves alone.    *)
LEMMA RuntimeMoves ==
    ASSUME Shape, LeaseInv, RuntimeNext
    PROVE  Moves
<1> USE DEF RuntimeGoes, Engaged, Recovering, Draining, Serving, Handling, Working, Kept
<1>0. /\ DOMAIN runtime = {"pc", "lease", "attempted", "cursor", "head", "page", "todo", "log",
                           "update", "back", "forks", "stale"}
      /\ DOMAIN store = {"durable", "cursor", "phase", "command", "depth", "reply"}
  BY Zenon DEF Shape, WorkShape
<1>f. ASSUME FailRecovery, UNCHANGED <<queue, store>> PROVE Leaves
  BY Zenon, <1>0, <1>f DEF FailRecovery, Leaves
<1>r. ASSUME NEW t, Retry(t), ready' = FALSE, UNCHANGED queue, UNCHANGED store \/ store' = [store EXCEPT !.phase = "idle"]
      PROVE  Leaves
  BY Zenon, <1>0, <1>r DEF Retry, Leaves
<1>q. ASSUME NEW back, Dequeue(back), runtime.pc \in {"drain", "live"}, UNCHANGED store,
             back = IF runtime.pc = "drain" THEN "drain" ELSE "check"
      PROVE  Takes
  BY Zenon, <1>0, <1>q DEF Dequeue, Takes
<1>1. CASE InitializeStore
  BY <1>0, <1>1 DEF InitializeStore, queueVars, leaseVars, Leaves, Moves, LeaseInv
<1>2. CASE LoopTop
  BY Zenon, <1>0, <1>2 DEF LoopTop, queueVars, Leaves, Moves
<1>3. CASE WaitUntilActive
  BY <1>0, <1>3 DEF WaitUntilActive, queueVars, Leaves, Engages, Moves
<1>4. CASE Pause
  BY Zenon, <1>0, <1>4 DEF Pause, queueVars, leaseVars, Leaves, Moves, LeaseInv
<1>5. CASE SourceLease
  BY Zenon, <1>0, <1>5 DEF SourceLease, queueVars, leaseVars, Leaves, Engages, Moves, LeaseInv
<1>6. CASE Reconcile
  BY Zenon, <1>0, <1>6, <1>f DEF Reconcile, queueVars, Leaves, Engages, Moves
<1>7. CASE ReadHead
  <2>1. PICK h \in 0..chain : IF HeadAccepted(h)
             THEN /\ runtime' = [runtime EXCEPT !.pc = "backfill", !.head = h,
                                    !.page = FromBlock, !.cursor = store.cursor,
                                    !.stale = @ \/ h < chain]
                  /\ UNCHANGED <<ready, recovery>>
             ELSE FailRecovery
    BY Zenon, <1>7 DEF ReadHead
  <2>2. UNCHANGED <<queue, store>> /\ Engaged
    BY Zenon, <1>7 DEF ReadHead, queueVars
  <2>3. CASE HeadAccepted(h)
    <3>1. Accepts
      BY Zenon, <1>0, <2>1, <2>2, <2>3 DEF Accepts
    <3> QED BY Zenon, <3>1 DEF Moves
  <2> QED BY Zenon, <1>f, <2>1, <2>2, <2>3 DEF Moves
<1>8. CASE ReadHeadFails
  BY Zenon, <1>8, <1>f DEF ReadHeadFails, queueVars, Moves
<1>9. CASE Backfill \/ PersistPage \/ HandleLog
  BY Zenon, <1>9 DEF Moves
<1>11. CASE Persist
  <2>1. CASE shutdown
    BY Zenon, <1>0, <1>11, <2>1 DEF Persist, queueVars, Leaves, Moves
  <2>2. CASE ~shutdown
    <3>1. SameRound /\ Submits
      BY Zenon, <1>0, <1>11, <2>2 DEF Persist, Request, queueVars, SameRound, Submits
    <3> QED BY Zenon, <3>1 DEF Moves
  <2> QED BY Zenon, <2>1, <2>2
<1>12. CASE Await
  <2>1. CASE shutdown /\ RuntimeGoes("returned") /\ UNCHANGED store
    BY Zenon, <1>0, <1>12, <2>1 DEF Await, queueVars, Leaves, Moves
  <2>2. CASE /\ store.phase = "answered" /\ store' = [store EXCEPT !.phase = "idle"]
             /\ \/ store.reply = "ok" /\ RuntimeGoes(runtime.back)
                \/ RuntimeGoes("persist")
    <3>1. SameRound /\ Answered
      BY Zenon, <1>0, <1>12, <2>2 DEF Await, queueVars, SameRound, Answered
    <3> QED BY Zenon, <3>1 DEF Moves
  <2>3. CASE /\ store' = [store EXCEPT !.phase = "idle"] /\ ready' = FALSE
             /\ Retry(Recover(BlockCursor(runtime.log)))
    BY Zenon, <1>12, <1>r, <2>3 DEF Await, queueVars, Moves
  <2> QED BY Zenon, <1>12, <2>1, <2>2, <2>3 DEF Await
<1>14. CASE HandleControl
  BY Zenon, <1>14, <1>r DEF HandleControl, queueVars, Moves
<1>15. CASE HandleHead
  <2>1. UNCHANGED <<queue, store>> /\ runtime.pc = "handle" /\ runtime.update.kind = "head"
    BY Zenon, <1>15 DEF HandleHead, queueVars
  <2>2. CASE RuntimeGoes(runtime.back) /\ UNCHANGED ready
    <3>1. Goes
      BY Zenon, <1>0, <2>1, <2>2 DEF Goes, LeaseInv
    <3> QED BY Zenon, <3>1 DEF Moves
  <2>3. CASE RuntimeGoes("top") /\ UNCHANGED ready
    <3>1. Goes \/ Leaves
      BY Zenon, <1>0, <2>1, <2>3 DEF Goes, Leaves, LeaseInv
    <3> QED BY Zenon, <3>1 DEF Moves
  <2>4. CASE FailRecovery
    BY Zenon, <1>f, <2>1, <2>4 DEF Moves
  <2>5. CASE RuntimeGoes("pause_live")
    BY Zenon, <1>0, <2>1, <2>5 DEF Leaves, Moves
  <2> QED BY Zenon, <1>15, <2>2, <2>3, <2>4, <2>5 DEF HandleHead, Retry
<1>16. CASE Drain
  <2>1. CASE Dequeue("drain")
    BY Zenon, <1>16, <1>q, <2>1 DEF Drain, Moves
  <2>2. CASE queue = <<>> /\ RuntimeGoes("drained") /\ UNCHANGED queueVars
    <3>1. Goes
      BY Zenon, <1>0, <1>16, <2>2 DEF Drain, Goes, queueVars
    <3> QED BY Zenon, <3>1 DEF Moves
  <2> QED BY Zenon, <1>16, <2>1, <2>2 DEF Drain
<1>17. CASE Drained
  BY Zenon, <1>0, <1>17 DEF Drained, Retry, queueVars, leaseVars, Goes, Leaves, Moves, LeaseInv
<1>18. CASE Check
  BY Zenon, <1>0, <1>18 DEF Check, queueVars, leaseVars, Goes, Moves
<1>19. CASE ComparePublish
  BY Zenon, <1>0, <1>19 DEF ComparePublish, Retry, queueVars, leaseVars, Goes, Leaves, Moves
<1>20. CASE StoreReady
  BY Zenon, <1>0, <1>20 DEF StoreReady, queueVars, Goes, Moves
<1>21. CASE ConfirmReady
  <2>1. CASE runtime.pc = "confirm" /\ RuntimeGoes(IF LeaseHeld THEN "live" ELSE "withdraw")
    <3>1. Goes
      BY Zenon, <1>0, <1>21, <2>1 DEF ConfirmReady, queueVars, Goes
    <3> QED BY Zenon, <3>1 DEF Moves
  <2> QED BY Zenon, <1>21, <1>r, <2>1 DEF ConfirmReady, queueVars, Moves
<1>22. CASE Live
  <2>1. CASE Dequeue("check")
    BY Zenon, <1>22, <1>q, <2>1 DEF Live, Moves
  <2>2. CASE RuntimeGoes("returned") /\ UNCHANGED queueVars
    BY Zenon, <1>0, <1>22, <2>2 DEF Live, queueVars, Leaves, Moves
  <2> QED BY Zenon, <1>22, <2>1, <2>2 DEF Live
<1>23. CASE Return
  BY Zenon, <1>0, <1>23 DEF Return, queueVars, Leaves, Moves
<1> QED BY Zenon, <1>1, <1>2, <1>3, <1>4, <1>5, <1>6, <1>7, <1>8, <1>9, <1>11, <1>12, <1>14,
           <1>15, <1>16, <1>17, <1>18, <1>19, <1>20, <1>21, <1>22, <1>23 DEF RuntimeNext

-----------------------------------------------------------------------------
(* Gaps between subscriptions                                              *)

(* A Gap is handled, or among the first n updates of the queue.            *)
GapTo(n) ==
    \/ runtime.pc = "handle" /\ runtime.update.kind = "gap"
    \/ \E i \in 1..n : queue[i].kind = "gap"

GapAhead == GapTo(Len(queue))

(* The pump has no subscription that the runtime was told of, and no Gap   *)
(* to send.                                                                *)
Detached ==
    \/ pump.pc \in {"sleep", "top", "subscribe", "connect", "activate"}
    \/ pump.pc \in Leaving /\ pump.then \in {"sleep", "subscribe"}

(* Whoever works under an earlier subscription has its Gap ahead, and who  *)
(* drained the queue under the current one has none.                       *)
GapInv ==
    /\ Serving /\ LeaseHeld => ~GapAhead
    /\ Working /\ Detached => GapAhead

(* The pump sends the Gap of every subscription it leaves.                 *)
LEMMA GapByPump ==
    ASSUME Shape, PumpInv, LeaseInv, GapInv, PumpNext
    PROVE  GapInv'
<1> USE DEF PumpGoes, MarkInactive
<1>0. /\ DOMAIN pump = {"pc", "then", "pending", "ended", "feed", "ever", "large"}
      /\ activity \in Nat /\ runtime.lease \in Nat /\ queue \in Seq(Update) /\ Len(queue) \in Nat
  BY DEF Shape, PumpShape, WorkShape
<1>r. UNCHANGED runtime
  BY Zenon, PumpTypes DEF Shape, workVars
<1>a. ready' => ready
  BY Zenon DEF PumpNext, Revoke, Unready, Deactivate, PumpExits, PumpTop, Subscribe, SourceConnected, Activate,
         Consume, Reserve, Saturated, Push, leaseVars
<1>w. (Serving' => Serving) /\ (Working' => Working)
  BY Zenon, <1>r, <1>a DEF Serving, Working, Engaged, Recovering, Draining, Handling
<1>h. LeaseHeld' => LeaseHeld \/ activity' = runtime.lease
  BY Zenon, <1>r DEF LeaseHeld
<1>1. CASE Push
  <2>1. queue' = Append(queue, pump.pending) /\ UNCHANGED activity /\ pump.pc = "push"
    BY Zenon, <1>1 DEF Push, leaseVars
  <2>2. Len(queue') = Len(queue) + 1 /\ queue'[Len(queue) + 1] = pump.pending
        /\ \A i \in 1..Len(queue) : queue'[i] = queue[i]
    BY <1>0, <2>1
  <2>3. GapAhead' <=> GapAhead \/ pump.pending.kind = "gap"
    BY <1>0, <1>r, <2>2 DEF GapAhead, GapTo
  <2>4. CASE pump.ended
    <3>1. pump.pending.kind = "gap" /\ activity % 2 # 1
      BY Zenon, <2>1, <2>4 DEF PumpInv, Sending
    <3>2. Serving => ~LeaseHeld
      BY Zenon, <3>1 DEF LeaseInv, LeaseHeld
    <3> QED BY Zenon, <1>r, <1>w, <2>1, <2>3, <3>1, <3>2 DEF GapInv, LeaseHeld
  <2>5. CASE ~pump.ended
    <3>1. pump.pending.kind # "gap" /\ pump'.pc = "consume"
      BY Zenon, <1>0, <1>1, <2>1, <2>5 DEF PumpInv, Sending, Push
    <3> QED BY Zenon, <1>r, <1>w, <2>1, <2>3, <3>1 DEF GapInv, LeaseHeld, Detached, Leaving
  <2> QED BY Zenon, <2>4, <2>5
<1>2. CASE ~Push
  <2>1. UNCHANGED queue
    BY Zenon, <1>2 DEF PumpNext, Revoke, Unready, Deactivate, PumpExits, PumpTop, Subscribe, SourceConnected,
                Activate, Consume, Reserve, Saturated, queueVars
  <2>2. GapAhead' <=> GapAhead
    BY Zenon, <1>r, <2>1 DEF GapAhead, GapTo
  <2>3. LeaseHeld' => LeaseHeld
    <3>1. CASE Revoke \/ SourceConnected
      <4>1. activity' > activity /\ activity' \in Nat
        BY Zenon, <1>0, <3>1, AdvanceFacts DEF Revoke, SourceConnected, AdvanceSourceActivity
      <4> QED BY <1>0, <1>h, <4>1 DEF LeaseInv
    <3>2. CASE ~(Revoke \/ SourceConnected)
      BY Zenon, <1>2, <1>r, <3>2 DEF LeaseHeld, PumpNext, Unready, Deactivate, PumpExits, PumpTop, Subscribe,
                        Activate, Consume, Reserve, Saturated, leaseVars
    <3> QED BY Zenon, <3>1, <3>2
  <2>4. Detached' => Detached
    BY Zenon, <1>0, <1>2 DEF Detached, Leaving, PumpInv, Sending, PumpNext, Revoke, Unready, Deactivate, PumpExits, PumpTop, Subscribe,
                      SourceConnected, Activate, Consume, Take, Reserve, Saturated
  <2> QED BY Zenon, <1>w, <2>2, <2>3, <2>4 DEF GapInv
<1> QED BY Zenon, <1>1, <1>2

(* Taking an update takes a Gap, or leaves the ones behind it.             *)
LEMMA TakenGap ==
    ASSUME Shape, Takes, NEW n \in Nat, n < Len(queue)
    PROVE  GapTo(n)' <=> GapTo(n + 1)
<1>1. /\ queue \in Seq(Update) /\ queue # <<>> /\ queue' = Tail(queue) /\ runtime'.pc = "handle"
      /\ runtime'.update = queue[1] /\ runtime.pc # "handle"
  BY DEF Shape, PumpShape, Takes
<1>2. Len(queue) \in Nat /\ \A i \in 1..n : queue'[i] = queue[i + 1]
  BY <1>1
<1>3. ASSUME GapTo(n)' PROVE GapTo(n + 1)
  <2>1. CASE queue[1].kind = "gap"
    BY <2>1 DEF GapTo
  <2>2. ASSUME NEW i \in 1..n, queue'[i].kind = "gap" PROVE GapTo(n + 1)
    <3>1. i + 1 \in 1..(n + 1) /\ queue[i + 1].kind = "gap"
      BY <1>2, <2>2
    <3> QED BY Zenon, <3>1 DEF GapTo
  <2> QED BY Zenon, <1>1, <1>3, <2>1, <2>2 DEF GapTo
<1>4. ASSUME GapTo(n + 1) PROVE GapTo(n)'
  <2>1. PICK i \in 1..(n + 1) : queue[i].kind = "gap"
    BY Zenon, <1>1, <1>4 DEF GapTo
  <2>2. CASE i = 1
    BY Zenon, <1>1, <2>1, <2>2 DEF GapTo
  <2>3. CASE i # 1
    <3>1. i - 1 \in 1..n /\ queue'[i - 1] = queue[(i - 1) + 1] /\ (i - 1) + 1 = i
      BY <1>2, <2>3
    <3> QED BY Zenon, <2>1, <3>1 DEF GapTo
  <2> QED BY Zenon, <2>2, <2>3
<1> QED BY Zenon, <1>3, <1>4

(* The runtime handles every Gap before it is ready again.                 *)
LEMMA GapByRuntime ==
    ASSUME Shape, PumpInv, LeaseInv, GapInv, RuntimeNext
    PROVE  GapInv'
<1>0. /\ DOMAIN runtime = {"pc", "lease", "attempted", "cursor", "head", "page", "todo", "log",
                           "update", "back", "forks", "stale"}
      /\ queue \in Seq(Update) /\ Len(queue) \in Nat
  BY DEF Shape, WorkShape, PumpShape
<1>1. CASE InitializeStore
  <2>1. ~Working'
    BY Zenon, <1>0, <1>1 DEF InitializeStore, RuntimeGoes, leaseVars, Working, Engaged, Recovering, Draining, Serving, Handling, LeaseInv
  <2> QED BY Zenon, <2>1 DEF GapInv, Working
<1> SUFFICES ASSUME pump' = pump PROVE GapInv'
  BY Zenon, <1>1, RuntimeTypes DEF Shape
<1>p. UNCHANGED <<pump, activity>> /\ runtime.lease \in Nat
  BY Zenon, RuntimeTypes DEF Shape, WorkShape
<1>d. Detached' <=> Detached
  BY Zenon, <1>p DEF Detached
<1>g. ASSUME Working, Serving' => Serving /\ (LeaseHeld' => LeaseHeld), GapAhead' <=> GapAhead PROVE GapInv'
  BY Zenon, <1>d, <1>g DEF GapInv
<1>s. ASSUME queue' = queue, runtime.pc = "handle" => runtime.update.kind # "gap",
             runtime'.pc = "handle" => runtime'.update.kind # "gap"
      PROVE  GapAhead' <=> GapAhead
  BY Zenon, <1>s DEF GapAhead, GapTo
<1>2. CASE Leaves
  BY Zenon, <1>2 DEF Leaves, GapInv, Working
<1>3. CASE Engages
  <2>1. ~Serving' /\ runtime.pc # "handle" /\ runtime'.pc # "handle" /\ queue' = queue
    BY Zenon, <1>3 DEF Engages, Kept, Engaged, Serving, Handling
  <2>2. Detached => Working
    BY Zenon, <1>3 DEF Engages, Working, PumpInv, Detached, Sending, Leaving
  <2>3. GapAhead' <=> GapAhead
    BY Zenon, <1>s, <2>1
  <2> QED BY Zenon, <1>d, <2>1, <2>2, <2>3 DEF GapInv
<1>4. CASE Accepts \/ Backfill \/ PersistPage
  <2>1. ~Serving' /\ Working /\ runtime.pc # "handle" /\ runtime'.pc # "handle" /\ queue' = queue
    BY Zenon, <1>0, <1>4 DEF Accepts, Backfill, PersistPage, RuntimeGoes, queueVars, Working, Engaged, Recovering, Serving, Handling
  <2>2. GapAhead' <=> GapAhead
    BY Zenon, <1>s, <2>1
  <2> QED BY Zenon, <1>g, <2>1, <2>2
<1>5. CASE Goes
  <2>1. GapAhead' <=> GapAhead
    BY Zenon, <1>5, <1>s DEF Goes, Kept
  <2>2. CASE Serving' /\ ~Serving
    <3>1. ~GapAhead
      BY <1>0, <1>5, <2>2 DEF Goes, GapAhead, GapTo, Draining, Serving, Handling
    <3>2. Working
      BY Zenon, <1>5, <2>2 DEF Goes, Working
    <3> QED BY Zenon, <1>d, <2>1, <3>1, <3>2 DEF GapInv
  <2>3. CASE ~(Serving' /\ ~Serving)
    <3>1. Working /\ (LeaseHeld' => LeaseHeld)
      BY Zenon, <1>5, <1>p DEF Goes, Working, LeaseHeld
    <3> QED BY Zenon, <1>g, <2>1, <2>3, <3>1
  <2> QED BY Zenon, <2>2, <2>3
<1>6. CASE Takes
  <2>1. queue # <<>> /\ queue' = Tail(queue)
    BY Zenon, <1>6 DEF Takes
  <2>2. PICK n \in Nat : n + 1 = Len(queue) /\ n = Len(queue')
    BY <1>0, <2>1
  <2>3. GapTo(n)' <=> GapTo(n + 1)
    BY <1>6, <2>2, TakenGap
  <2>4. GapAhead' <=> GapAhead
    BY Zenon, <2>2, <2>3 DEF GapAhead, GapTo
  <2>5. Working /\ (LeaseHeld' => LeaseHeld) /\ (Serving' => Serving)
    BY Zenon, <1>6, <1>p DEF Takes, Working, Draining, Serving, Handling, LeaseHeld
  <2> QED BY Zenon, <1>g, <2>4, <2>5
<1>7. CASE SameRound /\ (Submits \/ Answered)
  <2>1. runtime.pc # "handle" /\ runtime'.pc # "handle" /\ queue' = queue
    BY Zenon, <1>7 DEF SameRound, Submits, Answered, LeaseInv
  <2>2. GapAhead' <=> GapAhead
    BY Zenon, <1>s, <2>1
  <2>3. Working /\ (LeaseHeld' => LeaseHeld) /\ (Serving' => Serving)
    BY Zenon, <1>7, <1>p DEF SameRound, Submits, Answered, LeaseInv, Working, Recovering, Draining, Serving, Handling, LeaseHeld
  <2> QED BY Zenon, <1>g, <2>2, <2>3
<1>8. CASE HandleLog
  <2>1. runtime.update.kind # "gap" /\ runtime'.pc # "handle" /\ queue' = queue
    BY Zenon, <1>0, <1>8 DEF HandleLog, queueVars
  <2>2. GapAhead' <=> GapAhead
    BY Zenon, <1>s, <2>1
  <2>3. Working /\ (LeaseHeld' => LeaseHeld) /\ (Serving' => Serving)
    BY Zenon, <1>0, <1>8, <1>p DEF HandleLog, LeaseInv, Working, Draining, Serving, Handling, LeaseHeld
  <2> QED BY Zenon, <1>g, <2>2, <2>3
<1> QED BY Zenon, <1>2, <1>3, <1>4, <1>5, <1>6, <1>7, <1>8, RuntimeMoves DEF Moves

(* Every step keeps the Gaps ahead.                                        *)
LEMMA GapStep ==
    ASSUME Shape, PumpInv, LeaseInv, GapInv, [Next]_vars
    PROVE  GapInv'
<1>1. CASE WriterNext \/ Outside
  <2>1. UNCHANGED <<activity, queue, pump, runtime>> /\ (ready' => ready)
    BY <1>1, WriterFacts, OutsideFacts DEF Shape, workVars, leaseVars, queueVars
  <2> QED BY Zenon, <2>1 DEF GapInv, LeaseHeld, GapAhead, GapTo, Detached, Working, Engaged, Recovering, Draining, Serving, Handling
<1> QED BY Zenon, <1>1, GapByPump, GapByRuntime, Steps

-----------------------------------------------------------------------------
(* The stream of updates                                                   *)

(* Height g is durable, about to be recovered, or in the runtime's hands.  *)
Ahead(g) ==
    \/ g \in store.durable
    \/ Recovering /\ g <= runtime.head
    \/ runtime.pc = "handle" /\ IsLog(runtime.update, g)
    \/ runtime.pc \in {"persist", "await"} /\ runtime.log = g

(* ... or among the first n updates of the queue.                          *)
Known(g, n) == Ahead(g) \/ \E j \in 1..n : IsLog(queue[j], g)

(* Up to the first Gap, the queue, the update that is sent and those to    *)
(* come leave no height out.                                               *)
QueueOrder ==
    \A i \in 1..Len(queue) : \A h : IsLog(queue[i], h) /\ ~GapTo(i) =>
        \A g \in Height : g < h => Known(g, i - 1)

PendingOrder ==
    pump.pc \in Sending /\ ~GapAhead =>
        \A h : IsLog(pump.pending, h) => \A g \in Height : g < h => Known(g, Len(queue))

FeedOrder ==
    /\ \/ pump.pc \in {"connect", "activate", "consume"}
       \/ pump.pc \in Sending /\ ~pump.ended
    /\ ~GapAhead
    => \A g \in Height : g < pump.feed =>
          Known(g, Len(queue)) \/ (pump.pc \in Sending /\ IsLog(pump.pending, g))

Streams == ~runtime.stale /\ (Recovering \/ Draining \/ Serving)

StreamInv == Streams => QueueOrder /\ PendingOrder /\ FeedOrder

(* Every height below h is durable.                                        *)
Below(h) == \A g \in Height : g < h => g \in store.durable

StoreInv ==
    /\ runtime.pc = "await" => store.phase # "idle" /\ store.command = runtime.log
    /\ store.phase \in {"executed", "answered"} /\ store.reply = "ok" =>
          store.command \in store.durable

(* A page of the recovery: what is below it is durable, and its heights    *)
(* are durable or still to be persisted.                                   *)
PageInv ==
    /\ 1 <= runtime.page /\ runtime.page <= runtime.head /\ runtime.head <= chain
    /\ runtime.cursor <= store.cursor /\ Below(runtime.page)
    /\ runtime.pc # "backfill" =>
          /\ runtime.todo \subseteq 1..PageEnd
          /\ \A g \in Height : g <= PageEnd =>
                \/ g \in store.durable \/ g \in runtime.todo
                \/ runtime.pc \in {"persist", "await"} /\ g = runtime.log

(* Logs are persisted in order.                                            *)
PersistInv ==
    ~runtime.stale =>
        /\ runtime.pc = "handle" => \A h : IsLog(runtime.update, h) => Below(h)
        /\ runtime.pc \in {"persist", "await"} => Below(runtime.log)
        /\ store.phase = "queued" => Below(store.command)
        /\ Below(store.cursor + 1)
        /\ Recovering => PageInv

(* An answer of the writer tells what is durable.                          *)
LEMMA StoreStep ==
    ASSUME Shape, LeaseInv, StoreInv, [Next]_vars
    PROVE  StoreInv'
<1> USE DEF StoreInv
<1>0. /\ DOMAIN runtime = {"pc", "lease", "attempted", "cursor", "head", "page", "todo", "log",
                           "update", "back", "forks", "stale"}
      /\ runtime.back # "await"
  BY Zenon DEF Shape, WorkShape
<1>1. CASE PumpNext \/ Outside
  BY Zenon, <1>1, PumpTypes, OutsideFacts DEF Shape, workVars
<1>2. CASE WriterNext
  <2>1. UNCHANGED runtime
    BY Zenon, <1>2, WriterFacts DEF Shape
  <2> QED BY Zenon, <1>2, <2>1, WriterFacts DEF Shape
<1>3. CASE RuntimeNext
  <2>1. CASE Leaves \/ Engages \/ Goes
    BY Zenon, <2>1 DEF Leaves, Engages, Engaged, Goes, Kept
  <2>2. CASE Accepts \/ Takes
    BY Zenon, <2>2 DEF Accepts, Takes
  <2>3. CASE SameRound /\ (Submits \/ Answered)
    BY Zenon, <1>0, <2>3 DEF SameRound, Submits, Answered
  <2>4. CASE Backfill \/ PersistPage \/ HandleLog
    BY Zenon, <1>0, <2>4 DEF Backfill, PersistPage, HandleLog, RuntimeGoes
  <2> QED BY Zenon, <1>3, <2>1, <2>2, <2>3, <2>4, RuntimeMoves DEF Moves
<1> QED BY Zenon, <1>1, <1>2, <1>3, Steps

(* The runtime persists in order.                                          *)
LEMMA PersistByRuntime ==
    ASSUME Shape, LeaseInv, StoreInv, StreamInv, PersistInv, RuntimeNext
    PROVE  PersistInv'
<1>0. /\ DOMAIN runtime = {"pc", "lease", "attempted", "cursor", "head", "page", "todo", "log",
                           "update", "back", "forks", "stale"}
      /\ queue \in Seq(Update) /\ Len(queue) \in Nat /\ chain \in Nat
      /\ store.cursor \in Nat /\ store.command \in Nat
  BY DEF Shape, WorkShape, PumpShape, Height
<1>c. chain' = chain
  BY Zenon, RuntimeTypes DEF Shape, envVars
<1>b. ASSUME store'.durable = store.durable, NEW h PROVE Below(h)' <=> Below(h)
  BY Zenon, <1>b DEF Below
<1>1. CASE Leaves \/ Engages \/ Goes
  <2>1. /\ ~Recovering' /\ runtime'.pc \notin {"handle", "persist", "await"} /\ Kept
    BY Zenon, <1>1 DEF Leaves, Engages, Goes, Kept, Working, Engaged, Recovering, Draining, Serving, Handling
  <2> QED BY Zenon, <2>1 DEF PersistInv, Kept, Below
<1>2. CASE Accepts
  <2>1. PICK h \in 0..chain :
          /\ HeadAccepted(h) /\ runtime'.head = h /\ runtime'.page = FromBlock
          /\ runtime'.cursor = store.cursor /\ runtime'.stale = (runtime.stale \/ h < chain)
    BY Zenon, <1>2 DEF Accepts
  <2>2. FromBlock \in Nat /\ FromBlock >= 1 /\ FromBlock <= store.cursor + 1 /\ FromBlock <= h
    BY Zenon, <2>1, FromBlockFacts DEF Shape, HeadAccepted
  <2>3. runtime'.pc = "backfill" /\ store' = store
    BY Zenon, <1>2 DEF Accepts
  <2>4. ASSUME ~runtime.stale PROVE Below(FromBlock)
    BY <1>0, <2>2, <2>4 DEF PersistInv, Below, Height
  <2>5. ~runtime'.stale => ~runtime.stale
    BY Zenon, <2>1
  <2>6. ASSUME ~runtime.stale PROVE PageInv'
    <3>1. Below(runtime.page)'
      BY Zenon, <2>1, <2>3, <2>4, <2>6 DEF Below
    <3>2. 1 <= runtime'.page /\ runtime'.page <= runtime'.head /\ runtime'.head <= chain'
      BY <1>0, <1>c, <2>1, <2>2
    <3>3. runtime'.cursor <= store'.cursor
      BY <1>0, <2>1, <2>3
    <3> QED BY Zenon, <2>3, <3>1, <3>2, <3>3 DEF PageInv
  <2> QED BY Zenon, <2>3, <2>5, <2>6 DEF PersistInv, Below
<1>3. CASE Takes
  <2>1. /\ runtime.pc \in {"drain", "live"} /\ queue # <<>> /\ runtime'.pc = "handle"
        /\ runtime'.update = queue[1] /\ store' = store /\ runtime'.stale = runtime.stale
        /\ runtime'.back \in {"drain", "check"}
    BY <1>0, <1>3 DEF Takes
  <2>2. ASSUME ~runtime.stale, NEW h, IsLog(queue[1], h) PROVE Below(h)
    <3>1. QueueOrder
      BY Zenon, <2>1, <2>2 DEF StreamInv, Streams, Draining, Serving
    <3>2. 1 \in 1..Len(queue)
      BY <1>0, <2>1
    <3>3. ~GapTo(1)
      BY <2>1, <2>2 DEF GapTo, IsLog
    <3>4. \A g \in Height : g < h => Known(g, 0)
      BY <2>2, <3>1, <3>2, <3>3 DEF QueueOrder
    <3>5. ~Recovering
      BY Zenon, <2>1 DEF Recovering
    <3> QED BY <2>1, <3>4, <3>5 DEF Known, Ahead, Below
  <2>3. ~Recovering'
    BY Zenon, <2>1 DEF Recovering
  <2> QED BY Zenon, <2>1, <2>2, <2>3 DEF PersistInv, Below
<1>4. CASE SameRound /\ (Submits \/ Answered)
  <2>1. store'.durable = store.durable /\ store'.cursor = store.cursor /\ SameRound
    BY Zenon, <1>4 DEF Submits, Answered
  <2>2. PageEnd' = PageEnd
    BY Zenon, <2>1 DEF PageEnd, SameRound
  <2>3. CASE Submits
    <3>1. runtime'.pc = "await" /\ runtime.pc = "persist" /\ store'.command = runtime.log /\ runtime'.log = runtime.log
          /\ runtime'.stale = runtime.stale /\ (Recovering' => Recovering)
      BY Zenon, <1>4, <2>3 DEF SameRound, Submits, Recovering
    <3>2. ASSUME PageInv PROVE PageInv'
      BY Zenon, <1>c, <2>1, <2>2, <3>1, <3>2 DEF PageInv, SameRound, Below
    <3> QED BY Zenon, <2>1, <3>1, <3>2 DEF PersistInv, Below
  <2>4. CASE Answered
    <3>1. /\ runtime.pc = "await" /\ store'.phase = "idle" /\ runtime'.stale = runtime.stale
          /\ runtime'.log = runtime.log /\ runtime'.back = runtime.back
          /\ runtime'.pc = "persist" \/ (runtime'.pc = runtime.back /\ runtime.log \in store.durable)
      BY Zenon, <1>4, <2>4 DEF SameRound, Answered, StoreInv
    <3>2. runtime.back \in {"persist_page", "drain", "check"}
      BY Zenon, <3>1 DEF LeaseInv
    <3>3. Recovering' => Recovering
      BY Zenon, <3>1, <3>2 DEF Recovering
    <3>4. ASSUME PageInv PROVE PageInv'
      BY Zenon, <1>c, <2>1, <2>2, <3>1, <3>2, <3>4 DEF PageInv, SameRound, Below
    <3> QED BY Zenon, <2>1, <3>1, <3>2, <3>3, <3>4 DEF PersistInv, Below
  <2> QED BY Zenon, <1>4, <2>3, <2>4
<1>5. CASE Backfill
  <2>1. /\ runtime.pc = "backfill" /\ runtime'.pc = "persist_page" /\ runtime'.todo = PageLogs /\ store' = store
        /\ runtime'.page = runtime.page /\ runtime'.head = runtime.head /\ runtime'.cursor = runtime.cursor
        /\ runtime'.stale = runtime.stale
    BY Zenon, <1>0, <1>5 DEF Backfill
  <2>2. PageEnd' = PageEnd /\ PageEnd \in Nat
    BY Zenon, <2>1, PageEndFacts DEF PageEnd, Shape
  <2>3. ASSUME ~runtime.stale PROVE PageInv'
    <3>1. PageInv /\ Below(store.cursor + 1) /\ runtime.page \in Nat /\ runtime.cursor \in Nat
      BY Zenon, <2>1, <2>3 DEF PersistInv, Recovering, Shape, WorkShape
    <3>2. PageLogs \subseteq 1..PageEnd
      BY <2>2, <3>1 DEF PageLogs, PageInv
    <3>3. ASSUME NEW g \in Height, g <= PageEnd, g \notin PageLogs PROVE g \in store.durable
      <4>0. g \in Nat
        BY DEF Height
      <4>1. CASE g < runtime.page
        BY Zenon, <3>1, <4>1 DEF PageInv, Below
      <4>2. CASE ~(g < runtime.page)
        <5>1. ~Uncovered(g)
          BY <2>2, <3>1, <3>3, <4>0, <4>2 DEF PageLogs
        <5>2. RecoveryLogIsCovered(HasForks, LogCursor(g), LogCursor(runtime.cursor))
          BY Zenon, <5>1 DEF Uncovered
        <5>3. g <= runtime.cursor
          BY <3>1, <4>0, <5>2 DEF RecoveryLogIsCovered, LogCursor, BlockCursor
        <5> QED BY <1>0, <3>1, <4>0, <5>3 DEF PageInv, Below
      <4> QED BY Zenon, <4>1, <4>2
    <3> QED BY Zenon, <1>c, <2>1, <2>2, <3>1, <3>2, <3>3 DEF PageInv, Below
  <2> QED BY Zenon, <2>1, <2>3 DEF PersistInv, Below
<1>6. CASE PersistPage
  <2>1. runtime.pc = "persist_page" /\ store' = store /\ Recovering
    BY Zenon, <1>6 DEF PersistPage, Recovering
  <2>2. PageEnd \in Nat /\ PageEnd <= runtime.head /\ runtime.page \in Nat /\ runtime.head \in Nat
    BY Zenon, PageEndFacts DEF Shape, WorkShape
  <2>3. ASSUME NEW h \in runtime.todo, \A g \in runtime.todo : h <= g,
               runtime' = [runtime EXCEPT !.pc = "persist", !.log = h, !.todo = @ \ {h}, !.back = "persist_page"]
        PROVE  PersistInv'
    <3>1. /\ runtime'.pc = "persist" /\ runtime'.log = h /\ runtime'.todo = runtime.todo \ {h}
          /\ runtime'.page = runtime.page /\ runtime'.head = runtime.head /\ runtime'.cursor = runtime.cursor
          /\ runtime'.stale = runtime.stale
      BY Zenon, <1>0, <2>3
    <3>2. PageEnd' = PageEnd
      BY Zenon, <3>1 DEF PageEnd
    <3>3. ASSUME ~runtime.stale PROVE PageInv' /\ Below(h)
      <4>1. PageInv
        BY Zenon, <2>1, <3>3 DEF PersistInv
      <4>2. PageInv'
        BY Zenon, <1>c, <2>1, <3>1, <3>2, <4>1 DEF PageInv, Below
      <4>3. ASSUME NEW g \in Height, g < h PROVE g \in store.durable
        <5>1. g \notin runtime.todo /\ g <= PageEnd /\ g \in Nat
          BY <2>1, <2>2, <2>3, <4>1, <4>3 DEF PageInv, Height
        <5> QED BY Zenon, <2>1, <4>1, <5>1 DEF PageInv
      <4> QED BY Zenon, <4>2, <4>3 DEF Below
    <3> QED BY SMTT(30), <2>1, <3>1, <3>3 DEF PersistInv, Below
  <2>4. ASSUME runtime.todo = {}, PageEnd = runtime.head, RuntimeGoes("drain") PROVE PersistInv'
    <3>1. runtime'.pc = "drain" /\ runtime'.stale = runtime.stale /\ ~Recovering'
      BY Zenon, <1>0, <2>4 DEF RuntimeGoes, Recovering
    <3> QED BY Zenon, <2>1, <3>1 DEF PersistInv, Below
  <2>5. ASSUME runtime.todo = {}, PageEnd # runtime.head, runtime' = [runtime EXCEPT !.pc = "backfill", !.page = PageEnd + 1]
        PROVE  PersistInv'
    <3>1. /\ runtime'.pc = "backfill" /\ runtime'.page = PageEnd + 1 /\ runtime'.head = runtime.head
          /\ runtime'.cursor = runtime.cursor /\ runtime'.stale = runtime.stale
      BY Zenon, <1>0, <2>5
    <3>2. ASSUME ~runtime.stale PROVE PageInv'
      <4>1. PageInv
        BY Zenon, <2>1, <3>2 DEF PersistInv
      <4>2. Below(PageEnd + 1)
        BY <2>1, <2>2, <2>5, <4>1 DEF PageInv, Below, Height
      <4>3. 1 <= PageEnd + 1 /\ PageEnd + 1 <= runtime.head
        BY <2>2, <2>5
      <4> QED BY Zenon, <1>c, <2>1, <3>1, <4>1, <4>2, <4>3 DEF PageInv, Below
    <3> QED BY Zenon, <2>1, <3>1, <3>2 DEF PersistInv, Below
  <2> QED BY Zenon, <1>6, <2>3, <2>4, <2>5 DEF PersistPage
<1>7. CASE HandleLog
  <2>1. /\ runtime.pc = "handle" /\ runtime'.pc = "persist" /\ runtime'.log = runtime.update.cursor.number
        /\ runtime'.stale = runtime.stale /\ runtime'.back = runtime.back /\ store' = store
        /\ IsLog(runtime.update, runtime.update.cursor.number)
    BY Zenon, <1>0, <1>7 DEF HandleLog, IsLog
  <2>2. ~Recovering'
    BY Zenon, <2>1 DEF Recovering, LeaseInv
  <2> QED BY Zenon, <2>1, <2>2 DEF PersistInv, Below
<1> QED BY Zenon, <1>1, <1>2, <1>3, <1>4, <1>5, <1>6, <1>7, RuntimeMoves DEF Moves

(* So does every step.                                                     *)
LEMMA PersistStep ==
    ASSUME Shape, LeaseInv, StoreInv, StreamInv, PersistInv, [Next]_vars
    PROVE  PersistInv'
<1>0. chain \in Nat /\ chain' \in Nat /\ chain' >= chain /\ store.cursor \in Nat /\ store.command \in Nat
      /\ runtime.head \in Nat /\ runtime.cursor \in Nat
  <2>1. Shape' /\ chain' >= chain
    BY Zenon, ShapeStep
  <2>2. chain' \in Nat
    BY <2>1 DEF Shape, PumpShape, Height
  <2>3. chain \in Nat
    BY DEF Shape, PumpShape, Height
  <2> QED BY Zenon, <2>1, <2>2, <2>3 DEF Shape, WorkShape
<1>1. CASE PumpNext \/ Outside
  <2>1. UNCHANGED <<runtime, store>>
    BY Zenon, <1>1, PumpTypes, OutsideFacts DEF Shape, workVars
  <2>2. PageEnd' = PageEnd
    BY Zenon, <2>1 DEF PageEnd
  <2>3. PageInv => PageInv'
    BY <1>0, <2>1, <2>2 DEF PageInv, Below
  <2> QED BY SMTT(30), <2>1, <2>3 DEF PersistInv, Below, Recovering
<1>2. CASE WriterNext
  <2>1. UNCHANGED <<runtime, chain>> /\ store'.command = store.command
    BY Zenon, <1>2, WriterFacts DEF Shape, envVars
  <2>2. PageEnd' = PageEnd
    BY Zenon, <2>1 DEF PageEnd
  <2>3. \A g : g \in store.durable => g \in store'.durable
    BY Zenon, <1>2, WriterFacts DEF Shape
  <2>4. store'.cursor \in Nat /\ store'.cursor >= store.cursor /\ store'.phase # "queued"
    BY <1>0, <1>2, WriterFacts DEF Shape
  <2>5. PageInv => PageInv'
    BY <1>0, <2>1, <2>2, <2>3, <2>4 DEF PageInv, Below
  <2>6. ASSUME ~runtime.stale PROVE Below(store.cursor + 1)'
    <3>1. Below(store.cursor + 1) /\ (store.phase = "queued" => Below(store.command))
      BY Zenon, <2>6 DEF PersistInv
    <3>2. CASE store'.cursor = store.cursor
      BY Zenon, <2>3, <3>1, <3>2 DEF Below
    <3>3. CASE store'.cursor # store.cursor
      <4>1. store'.cursor = store.command /\ store.phase = "queued" /\ store.command \in store'.durable
        BY Zenon, <1>2, <3>3, WriterFacts DEF Shape
      <4> QED BY <1>0, <2>3, <3>1, <4>1 DEF Below, Height
    <3> QED BY Zenon, <3>2, <3>3
  <2> QED BY Zenon, <2>1, <2>3, <2>4, <2>5, <2>6 DEF PersistInv, Below, Recovering
<1>3. CASE RuntimeNext
  BY Zenon, <1>3, PersistByRuntime
<1> QED BY Zenon, <1>1, <1>2, <1>3, Steps

(* Steps that leave the pump and the queue alone and lose no height.       *)
LEMMA StreamKept ==
    ASSUME StreamInv, Streams' => Streams, UNCHANGED <<pump, queue>>,
           runtime.pc = "handle" /\ runtime.update.kind = "gap" =>
              runtime'.pc = "handle" /\ runtime'.update.kind = "gap",
           Streams' => \A g \in Height : Ahead(g) => Ahead(g)'
    PROVE  StreamInv'
<1> SUFFICES ASSUME Streams' PROVE QueueOrder' /\ PendingOrder' /\ FeedOrder'
  BY Zenon DEF StreamInv
<1>1. \A n : GapTo(n) => GapTo(n)'
  BY Zenon DEF GapTo
<1>2. \A n : \A g \in Height : Known(g, n) => Known(g, n)'
  BY Zenon DEF Known
<1>3. GapAhead => GapAhead'
  BY Zenon, <1>1 DEF GapAhead, GapTo
<1>4. QueueOrder /\ PendingOrder /\ FeedOrder
  BY Zenon DEF StreamInv
<1>5. \A g \in Height : Known(g, Len(queue)) => Known(g, Len(queue))'
  BY Zenon DEF Known
<1>6. QueueOrder'
  BY Zenon, <1>1, <1>2, <1>4 DEF QueueOrder
<1>7. PendingOrder'
  BY Zenon, <1>3, <1>4, <1>5 DEF PendingOrder
<1>8. FeedOrder'
  BY Zenon, <1>3, <1>4, <1>5 DEF FeedOrder
<1> QED BY Zenon, <1>6, <1>7, <1>8

(* Taking an update leaves what was known known.                           *)
LEMMA TakenKnown ==
    ASSUME Shape, Takes, NEW n \in Nat, n < Len(queue), NEW g \in Height, Known(g, n + 1)
    PROVE  Known(g, n)'
<1>1. /\ queue \in Seq(Update) /\ queue # <<>> /\ queue' = Tail(queue) /\ runtime'.pc = "handle"
      /\ runtime'.update = queue[1] /\ runtime.pc \in {"drain", "live"} /\ store' = store
  BY DEF Shape, PumpShape, Takes
<1>2. Len(queue) \in Nat /\ \A i \in 1..n : queue'[i] = queue[i + 1]
  BY <1>1
<1>3. CASE g \in store.durable
  BY Zenon, <1>1, <1>3 DEF Known, Ahead
<1>4. ASSUME NEW j \in 1..(n + 1), IsLog(queue[j], g) PROVE Known(g, n)'
  <2>1. CASE j = 1
    BY Zenon, <1>1, <1>4, <2>1 DEF Known, Ahead, IsLog
  <2>2. CASE j # 1
    <3>1. j - 1 \in 1..n /\ queue'[j - 1] = queue[(j - 1) + 1] /\ (j - 1) + 1 = j
      BY <1>2, <2>2
    <3> QED BY Zenon, <1>4, <3>1 DEF Known, IsLog
  <2> QED BY Zenon, <2>1, <2>2
<1> QED BY Zenon, <1>1, <1>3, <1>4 DEF Known, Ahead, Recovering

(* Taking an update leaves no height out.                                  *)
LEMMA StreamByTake ==
    ASSUME Shape, StreamInv, Takes, UNCHANGED pump
    PROVE  StreamInv'
<1>1. Streams' => Streams
  BY Zenon DEF Takes, Streams, Draining, Serving, Recovering, Handling
<1> SUFFICES ASSUME Streams PROVE QueueOrder' /\ PendingOrder' /\ FeedOrder'
  BY Zenon, <1>1 DEF StreamInv
<1>2. QueueOrder /\ PendingOrder /\ FeedOrder
  BY Zenon DEF StreamInv
<1>3. /\ queue \in Seq(Update) /\ queue # <<>> /\ queue' = Tail(queue)
  BY Zenon DEF Shape, PumpShape, Takes
<1>4. PICK n \in Nat : n + 1 = Len(queue) /\ n = Len(queue')
  BY <1>3
<1>5. \A i \in 1..n : queue'[i] = queue[i + 1] /\ i + 1 \in 1..Len(queue) /\ i < Len(queue) /\ i \in Nat
                      /\ i - 1 \in Nat /\ (i - 1) + 1 = i /\ (i + 1) - 1 = i /\ i - 1 < Len(queue)
  BY <1>3, <1>4
<1>6. (GapAhead' <=> GapAhead) /\ \A g \in Height : Known(g, Len(queue)) => Known(g, Len(queue))'
  <2>1. GapTo(n)' <=> GapTo(n + 1)
    BY <1>4, TakenGap
  <2>2. \A g \in Height : Known(g, n + 1) => Known(g, n)'
    BY <1>4, TakenKnown
  <2> QED BY Zenon, <1>4, <2>1, <2>2 DEF GapAhead, GapTo, Known
<1>7. QueueOrder'
  <2> SUFFICES ASSUME NEW i \in 1..n, NEW h, IsLog(queue'[i], h), ~GapTo(i)', NEW g \in Height, g < h
               PROVE  Known(g, i - 1)'
    BY Zenon, <1>4 DEF QueueOrder, IsLog
  <2>1. IsLog(queue[i + 1], h) /\ ~GapTo(i + 1)
    BY Zenon, <1>5, TakenGap DEF IsLog
  <2>2. Known(g, i)
    BY Zenon, <1>2, <1>5, <2>1 DEF QueueOrder
  <2> QED BY Zenon, <1>5, <2>2, TakenKnown
<1>8. PendingOrder' /\ FeedOrder'
  BY Zenon, <1>2, <1>6 DEF PendingOrder, FeedOrder
<1> QED BY Zenon, <1>7, <1>8

(* The runtime leaves no height out.                                       *)
LEMMA StreamByRuntime ==
    ASSUME Shape, FeedInv, LeaseInv, StoreInv, PersistInv, StreamInv, RuntimeNext
    PROVE  StreamInv'
<1>0. /\ DOMAIN runtime = {"pc", "lease", "attempted", "cursor", "head", "page", "todo", "log",
                           "update", "back", "forks", "stale"}
      /\ chain \in Nat /\ runtime.head \in Nat /\ pump.feed \in Nat
  BY DEF Shape, WorkShape, PumpShape, Height
<1>1. CASE InitializeStore
  <2>1. ~Streams'
    BY Zenon, <1>0, <1>1 DEF InitializeStore, RuntimeGoes, leaseVars, Streams, Recovering, Draining, Serving, Handling, LeaseInv
  <2> QED BY Zenon, <2>1 DEF StreamInv
<1> SUFFICES ASSUME pump' = pump PROVE StreamInv'
  BY Zenon, <1>1, RuntimeTypes DEF Shape
<1>2. CASE Leaves \/ Engages
  <2>1. ~Streams'
    BY Zenon, <1>2 DEF Leaves, Engages, Engaged, Working, Streams, Recovering, Draining, Serving, Handling
  <2> QED BY Zenon, <2>1 DEF StreamInv
<1>3. CASE Accepts
  <2>1. queue' = queue /\ runtime'.pc = "backfill" /\ (~runtime'.stale => runtime'.head = chain)
    <3>1. PICK h \in 0..chain : runtime'.head = h /\ runtime'.stale = (runtime.stale \/ h < chain)
      BY Zenon, <1>3 DEF Accepts
    <3>2. ~(h < chain) => h = chain
      BY <1>0
    <3>3. ~runtime'.stale => ~(h < chain)
      BY Zenon, <3>1
    <3> QED BY Zenon, <1>3, <3>1, <3>2, <3>3 DEF Accepts
  <2> SUFFICES ASSUME ~runtime'.stale PROVE QueueOrder' /\ PendingOrder' /\ FeedOrder'
    BY Zenon DEF StreamInv, Streams
  <2>2. \A g \in Height : g <= chain => Ahead(g)'
    BY Zenon, <2>1 DEF Ahead, Recovering
  <2>3. \A n : \A g \in Height : g <= chain => Known(g, n)'
    BY Zenon, <2>2 DEF Known
  <2>4. \A g \in Height : g <= chain => Known(g, Len(queue))'
    BY Zenon, <2>2 DEF Known
  <2>5. \A u \in Update : \A h : IsLog(u, h) => h \in Nat
    BY UpdateFacts DEF IsLog, Height
  <2>6. pump.pending \in Update /\ \A i \in 1..Len(queue) : queue[i] \in Update
    BY DEF Shape, PumpShape
  <2>7. \A g \in Height : g \in Nat
    BY DEF Height
  <2>8. QueueOrder'
    <3> SUFFICES ASSUME NEW i \in 1..Len(queue), NEW h, IsLog(queue[i], h), NEW g \in Height, g < h
                 PROVE  Known(g, i - 1)'
      BY Zenon, <2>1 DEF QueueOrder, IsLog
    <3>1. h \in Nat /\ h <= chain /\ g \in Nat
      BY Zenon, <2>5, <2>6, <2>7 DEF FeedInv
    <3>2. g <= chain
      BY <1>0, <3>1
    <3> QED BY Zenon, <2>3, <3>2
  <2>9. PendingOrder'
    BY <1>0, <2>4, <2>5, <2>6, <2>7 DEF PendingOrder, FeedInv
  <2>10. FeedOrder'
    <3>1. pump.feed - 1 <= chain /\ \A g \in Height : g < pump.feed => g <= chain
      BY <1>0, <2>7 DEF FeedInv
    <3> QED BY Zenon, <2>4, <3>1 DEF FeedOrder
  <2> QED BY Zenon, <2>8, <2>9, <2>10
<1>4. CASE Goes
  <2>1. Streams' => Streams
    BY Zenon, <1>4 DEF Goes, Kept, Streams, Recovering, Draining, Serving, Handling
  <2>2. \A g \in Height : Ahead(g) => Ahead(g)'
    BY Zenon, <1>4 DEF Goes, Kept, Ahead, IsLog, Recovering, Draining, Serving, Handling
  <2>3. queue' = queue /\ (runtime.pc = "handle" => runtime.update.kind # "gap")
    BY Zenon, <1>4 DEF Goes, Kept
  <2> QED BY Zenon, <2>1, <2>2, <2>3, StreamKept
<1>5. CASE Takes
  BY Zenon, <1>5, StreamByTake
<1>6. CASE SameRound /\ (Submits \/ Answered)
  <2>1. Streams' => Streams
    BY Zenon, <1>6 DEF SameRound, Submits, Answered, Streams, Recovering, Draining, Serving, Handling, LeaseInv
  <2>2. \A g \in Height : Ahead(g) => Ahead(g)'
    BY SMTT(30), <1>6 DEF SameRound, Submits, Answered, Ahead, Recovering, StoreInv
  <2>3. queue' = queue /\ runtime.pc # "handle"
    BY SMTT(30), <1>6 DEF SameRound, Submits, Answered
  <2> QED BY Zenon, <2>1, <2>2, <2>3, StreamKept
<1>7. CASE Backfill
  <2>1. (Streams' => Streams) /\ queue' = queue /\ runtime.pc # "handle"
    BY Zenon, <1>0, <1>7 DEF Backfill, Streams, Recovering, queueVars
  <2>2. \A g \in Height : Ahead(g) => Ahead(g)'
    BY Zenon, <1>0, <1>7 DEF Backfill, Ahead, Recovering
  <2> QED BY Zenon, <2>1, <2>2, StreamKept
<1>8. CASE PersistPage
  <2>1. (Streams' => Streams) /\ queue' = queue /\ runtime.pc # "handle"
    BY Zenon, <1>0, <1>8 DEF PersistPage, RuntimeGoes, Streams, Recovering, queueVars
  <2>2. ASSUME Streams, NEW g \in Height, Ahead(g) PROVE Ahead(g)'
    <3>1. runtime.pc = "persist_page" /\ store' = store
      BY Zenon, <1>8 DEF PersistPage
    <3>2. CASE g \in store.durable
      BY Zenon, <3>1, <3>2 DEF Ahead
    <3>3. CASE g <= runtime.head /\ g \notin store.durable
      <4>1. PageInv
        BY Zenon, <2>2, <3>1 DEF PersistInv, Streams, Recovering
      <4>2. runtime.todo # {} \/ PageEnd # runtime.head
        BY Zenon, <3>1, <3>3, <4>1 DEF PageInv
      <4>3. Recovering' /\ runtime'.head = runtime.head
        BY Zenon, <1>0, <1>8, <4>2 DEF PersistPage, Recovering
      <4> QED BY Zenon, <3>3, <4>3 DEF Ahead
    <3> QED BY SMTT(30), <2>2, <3>1, <3>2, <3>3 DEF Ahead
  <2> QED BY Zenon, <2>1, <2>2, StreamKept
<1>9. CASE HandleLog
  <2>1. Streams' => Streams
    BY Zenon, <1>0, <1>9 DEF HandleLog, Streams, Recovering, Draining, Serving, Handling, LeaseInv
  <2>2. \A g \in Height : Ahead(g) => Ahead(g)'
    BY Zenon, <1>0, <1>9 DEF HandleLog, Ahead, Recovering, IsLog
  <2>3. queue' = queue /\ runtime.update.kind # "gap"
    BY Zenon, <1>9 DEF HandleLog, queueVars
  <2> QED BY Zenon, <2>1, <2>2, <2>3, StreamKept
<1> QED BY Zenon, <1>2, <1>3, <1>4, <1>5, <1>6, <1>7, <1>8, <1>9, RuntimeMoves DEF Moves

(* The pump leaves no height out before a Gap.                             *)
LEMMA StreamByPump ==
    ASSUME Shape, PumpInv, LeaseInv, GapInv, StreamInv, PumpNext
    PROVE  StreamInv'
<1> USE DEF PumpGoes, MarkInactive
<1>0. /\ DOMAIN pump = {"pc", "then", "pending", "ended", "feed", "ever", "large"}
      /\ queue \in Seq(Update) /\ Len(queue) \in Nat /\ pump.pending \in Update /\ pump.feed \in Nat
  BY DEF Shape, PumpShape
<1>r. runtime' = runtime /\ store' = store
  BY Zenon, PumpTypes DEF Shape, workVars
<1>a. ready' => ready
  BY Zenon DEF PumpNext, Revoke, Unready, Deactivate, PumpExits, PumpTop, Subscribe, SourceConnected, Activate,
         Consume, Reserve, Saturated, Push, leaseVars
<1>s. Streams' => Streams
  BY Zenon, <1>r, <1>a DEF Streams, Serving, Recovering, Draining, Handling
<1> SUFFICES ASSUME Streams PROVE QueueOrder' /\ PendingOrder' /\ FeedOrder'
  BY Zenon, <1>s DEF StreamInv
<1>o. QueueOrder /\ PendingOrder /\ FeedOrder
  BY Zenon DEF StreamInv
<1>d. Detached => GapAhead
  BY Zenon DEF GapInv, Streams, Working
<1>g. \A g : Ahead(g) <=> Ahead(g)'
  BY Zenon, <1>r DEF Ahead, Recovering
<1>1. CASE Push
  <2>1. /\ queue' = Append(queue, pump.pending) /\ pump.pc = "push" /\ pump'.feed = pump.feed
        /\ pump'.pc = IF pump.ended THEN "revoke" ELSE "consume"
    BY Zenon, <1>0, <1>1 DEF Push
  <2>2. PICK n \in Nat : n = Len(queue) /\ n + 1 = Len(queue')
    BY <1>0, <2>1
  <2>3. queue'[n + 1] = pump.pending /\ \A i \in 1..n : queue'[i] = queue[i]
    BY <1>0, <2>1, <2>2
  <2>4. \A i \in 0..n : (GapTo(i) => GapTo(i)') /\ \A g : Known(g, i) => Known(g, i)'
    BY <1>r, <1>g, <2>2, <2>3 DEF GapTo, Known
  <2>5. QueueOrder'
    <3> SUFFICES ASSUME NEW i \in 1..(n + 1), NEW h, IsLog(queue'[i], h), ~GapTo(i)', NEW g \in Height, g < h
                 PROVE  Known(g, i - 1)'
      BY Zenon, <2>2 DEF QueueOrder, IsLog
    <3>1. CASE i \in 1..n
      <4>1. IsLog(queue[i], h) /\ ~GapTo(i) /\ i - 1 \in 0..n
        BY <2>2, <2>3, <2>4, <3>1 DEF IsLog
      <4>2. Known(g, i - 1)
        BY Zenon, <1>o, <2>2, <3>1, <4>1 DEF QueueOrder
      <4> QED BY Zenon, <2>4, <4>1, <4>2
    <3>2. CASE i = n + 1
      <4>1. IsLog(pump.pending, h) /\ i - 1 = n /\ n \in 0..n
        BY <2>3, <3>2 DEF IsLog
      <4>2. ~GapTo(n)'
        BY <3>2 DEF GapTo
      <4>3. ~GapAhead
        BY Zenon, <2>2, <2>4, <4>1, <4>2 DEF GapAhead, GapTo
      <4>4. Known(g, Len(queue))
        BY Zenon, <1>o, <2>1, <4>1, <4>3 DEF PendingOrder, Sending
      <4>5. Known(g, n)
        BY Zenon, <2>2, <4>4 DEF Known
      <4> QED BY Zenon, <2>4, <4>1, <4>5
    <3> QED BY <3>1, <3>2
  <2>6. PendingOrder'
    BY Zenon, <2>1 DEF PendingOrder, Sending
  <2>7. FeedOrder'
    <3> SUFFICES ASSUME ~pump.ended, ~GapAhead', NEW g \in Height, g < pump.feed PROVE Known(g, Len(queue))'
      BY Zenon, <2>1 DEF FeedOrder, Sending
    <3>1. ~GapAhead
      BY <1>r, <2>2, <2>3 DEF GapAhead, GapTo
    <3>2. Known(g, Len(queue)) \/ IsLog(pump.pending, g)
      BY Zenon, <1>o, <2>1, <3>1 DEF FeedOrder, Sending
    <3>3. n + 1 \in 1..(n + 1) /\ \A j \in 1..n : j \in 1..(n + 1)
      OBVIOUS
    <3> QED BY Zenon, <1>g, <2>2, <2>3, <3>2, <3>3 DEF Known, IsLog
  <2> QED BY Zenon, <2>5, <2>6, <2>7
<1>2. CASE ~Push
  <2>1. UNCHANGED queue
    BY Zenon, <1>2 DEF PumpNext, Revoke, Unready, Deactivate, PumpExits, PumpTop, Subscribe, SourceConnected,
                Activate, Consume, Reserve, Saturated, queueVars
  <2>2. (GapAhead' <=> GapAhead) /\ \A n : GapTo(n) => GapTo(n)'
    BY Zenon, <1>r, <2>1 DEF GapAhead, GapTo
  <2>3. \A g : Known(g, Len(queue)) => Known(g, Len(queue))'
    BY Zenon, <1>g, <2>1 DEF Known
  <2>4. \A n, g : Known(g, n) => Known(g, n)'
    BY Zenon, <1>g, <2>1 DEF Known
  <2>5. QueueOrder'
    BY Zenon, <1>o, <2>1, <2>2, <2>4 DEF QueueOrder
  <2>6. CASE Consume
    <3>1. pump.pc = "consume"
      BY Zenon, <2>6 DEF Consume
    <3>2. ASSUME NEW u \in Update, NEW f \in Nat, u.kind = "log" \/ u \in Notice \cup {Gap(None)}, Take(u, f),
                 \A h : IsLog(u, h) => h = pump.feed,
                 \A g \in Height : g < f => g < pump.feed \/ IsLog(u, g)
          PROVE  PendingOrder' /\ FeedOrder'
      <4>1. /\ pump'.pending = NormalizeUpdate(u) /\ pump'.feed = f
            /\ pump'.pc = IF Terminal(u) THEN "revoke" ELSE "send"
        BY Zenon, <1>0, <3>2 DEF Take
      <4>2. CASE Terminal(u)
        BY Zenon, <4>1, <4>2 DEF PendingOrder, FeedOrder, Sending
      <4>3. CASE ~Terminal(u)
        <5>1. pump'.pending = u /\ pump'.pc = "send"
          BY Zenon, <3>2, <4>1, <4>3, TakeFacts DEF Shape
        <5>2. ~GapAhead => \A g \in Height : g < pump.feed => Known(g, Len(queue))
          BY Zenon, <1>o, <3>1 DEF FeedOrder, Sending
        <5>3. PendingOrder'
          BY <2>2, <2>3, <3>2, <5>1, <5>2 DEF PendingOrder, IsLog
        <5>4. FeedOrder'
          BY SMTT(30), <2>2, <2>3, <3>2, <4>1, <5>1, <5>2 DEF FeedOrder, IsLog, Sending
        <5> QED BY Zenon, <5>3, <5>4
      <4> QED BY Zenon, <4>2, <4>3
    <3>3. CASE pump.feed <= chain /\ Take(Log(pump.feed), pump.feed + 1)
      <4>1. pump.feed \in Height
        BY <3>3, WorkerAssumption DEF Shape, PumpShape, Height
      <4>2. Log(pump.feed) \in Update /\ Log(pump.feed).kind = "log" /\ Log(pump.feed).cursor.number = pump.feed
        BY Zenon, <4>1, UpdateKinds
      <4>3. \A g \in Height : g < pump.feed + 1 => g < pump.feed \/ g = pump.feed
        BY <1>0 DEF Height
      <4>4. pump.feed + 1 \in Nat
        BY <1>0
      <4> QED BY Zenon, <2>5, <3>2, <3>3, <4>2, <4>3, <4>4 DEF IsLog
    <3>4. CASE \E u \in Notice \cup {Gap(None)} : Take(u, pump.feed)
      <4>1. PICK u \in Notice \cup {Gap(None)} : Take(u, pump.feed)
        BY Zenon, <3>4
      <4>2. u \in Update /\ u.kind # "log"
        BY Zenon, UpdateKinds DEF Notice
      <4> QED BY Zenon, <1>0, <2>5, <3>2, <4>1, <4>2 DEF IsLog
    <3> QED BY Zenon, <2>6, <3>3, <3>4 DEF Consume
  <2>7. CASE ~Consume
    <3>1. pump'.pc \in Sending => (pump.pc \in Sending /\ pump'.pending = pump.pending /\ pump'.ended = pump.ended)
                                  \/ (pump'.pending.kind = "gap" /\ pump'.ended)
      <4>1. CASE Revoke \/ Unready \/ Deactivate
        <5>1. /\ pump.pc \in Leaving /\ pump'.pc \in {"unready", "deactivate", pump.then}
              /\ pump'.pending = pump.pending /\ pump'.ended = pump.ended
          BY <1>0, <4>1 DEF Leaving, Revoke, Unready, Deactivate
        <5>2. pump.then = "send" => pump.ended /\ pump.pending.kind = "gap"
          BY <5>1 DEF PumpInv
        <5>3. pump.then \in Sending => pump.then = "send"
          BY DEF PumpInv, Sending
        <5> QED BY <5>1, <5>2, <5>3 DEF Sending
      <4>2. CASE Subscribe
        BY <1>0, <4>2, UpdateKinds DEF Sending, Subscribe
      <4>3. CASE ~(Revoke \/ Unready \/ Deactivate \/ Subscribe)
        BY <1>0, <1>2, <2>7, <4>3 DEF Sending, PumpNext, PumpExits, PumpTop, SourceConnected, Activate, Reserve, Saturated
      <4> QED BY <4>1, <4>2, <4>3
    <3>2. pump'.feed = pump.feed \/ (pump.pc = "subscribe" /\ pump'.pc = "connect")
      BY Zenon, <1>0, <1>2, <2>7 DEF PumpNext, Revoke, Unready, Deactivate, PumpExits, PumpTop,
            Subscribe, SourceConnected, Activate, Reserve, Saturated
    <3>3. pump'.pc \in {"connect", "activate", "consume"} => pump.pc \in {"subscribe", "connect", "activate"}
      BY Zenon, <1>0, <1>2, <2>7 DEF PumpInv, Leaving, PumpNext, Revoke, Unready, Deactivate, PumpExits, PumpTop,
            Subscribe, SourceConnected, Activate, Reserve, Saturated
    <3>4. PendingOrder'
      BY Zenon, <1>o, <2>2, <2>3, <3>1 DEF PendingOrder, IsLog
    <3>5. FeedOrder'
      <4>1. CASE pump'.pc \in {"connect", "activate", "consume"}
        BY Zenon, <1>d, <2>2, <3>3, <4>1 DEF Detached, FeedOrder
      <4>2. CASE pump'.pc \in Sending /\ ~pump'.ended
        <5>1. pump.pc \in Sending /\ pump'.pending = pump.pending /\ ~pump.ended /\ pump'.feed = pump.feed
          BY Zenon, <3>1, <3>2, <4>2 DEF Sending
        <5> QED BY Zenon, <1>o, <2>2, <2>3, <4>2, <5>1 DEF FeedOrder, IsLog
      <4> QED BY Zenon, <4>1, <4>2 DEF FeedOrder
    <3> QED BY Zenon, <2>5, <3>4, <3>5
  <2> QED BY Zenon, <2>6, <2>7
<1> QED BY Zenon, <1>1, <1>2

(* No step leaves a height out.                                            *)
LEMMA StreamStep ==
    ASSUME Shape, PumpInv, FeedInv, LeaseInv, GapInv, StoreInv, PersistInv, StreamInv, [Next]_vars
    PROVE  StreamInv'
<1>1. CASE PumpNext
  BY Zenon, <1>1, StreamByPump
<1>2. CASE RuntimeNext
  BY Zenon, <1>2, StreamByRuntime
<1>3. CASE WriterNext
  <2>1. UNCHANGED <<pump, queue, runtime, ready>> /\ store.durable \subseteq store'.durable
    BY Zenon, <1>3, WriterFacts DEF Shape, leaseVars, queueVars
  <2>2. Streams' => Streams
    BY Zenon, <2>1 DEF Streams, Recovering, Draining, Serving, Handling
  <2>3. \A g \in Height : Ahead(g) => Ahead(g)'
    BY Zenon, <2>1 DEF Ahead, Recovering
  <2> QED BY Zenon, <2>1, <2>2, <2>3, StreamKept
<1>4. CASE Outside
  <2>1. UNCHANGED <<pump, queue, store, runtime>>
    BY Zenon, <1>4, OutsideFacts DEF Shape, workVars
  <2>2. ready' => ready
    BY Zenon, <1>4, OutsideFacts DEF Shape
  <2> QED BY Zenon, <2>1, <2>2, StreamKept DEF Streams, Recovering, Draining, Serving, Handling, Ahead, StreamInv
<1> QED BY Zenon, <1>1, <1>2, <1>3, <1>4, Steps

-----------------------------------------------------------------------------
(* What a recovery has to cover                                            *)

Covers(c, n) == HeadCovers(c, BlockCursor(n)) = "covered"

(* When the canonical head of height n covers a cursor.                    *)
LEMMA CoversMeans ==
    ASSUME NEW c, FineCursor(c), NEW n \in Height
    PROVE  Covers(c, n) <=>
              n > c.number \/ (n = c.number /\ n # None /\ c.hash # None /\ c.commitment # Finalized)
<1>1. n \in Nat /\ c.number \in Nat
  BY DEF Height, FineCursor
<1>2. /\ BlockCursor(n).number = n /\ BlockCursor(n).hash = n /\ BlockCursor(n).execution = n
      /\ BlockCursor(n).commitment = Canonical
  BY Zenon DEF BlockCursor
<1>3. CASE n # c.number
  BY <1>1, <1>2, <1>3 DEF Covers, HeadCovers
<1>4. CASE n = c.number
  <2>1. ImmutableIdentity(c, BlockCursor(n)) =
           IF c.hash = None \/ n = None THEN "conflict" ELSE IF c.hash # n THEN "other" ELSE "same"
    BY Zenon, <1>2 DEF ImmutableIdentity, FineCursor
  <2>2. c.commitment \in {0, 1, 2}
    BY Zenon DEF FineCursor, Commitment, Realtime, Canonical, Finalized
  <2> QED BY <1>1, <1>2, <1>4, <2>1, <2>2 DEF Covers, HeadCovers, Canonical, Finalized
<1> QED BY Zenon, <1>3, <1>4

(* A head that covers the merged cursor covers both.                       *)
LEMMA MergeCovers ==
    ASSUME NEW r, FineCursor(r), NEW c, FineCursor(c), ~MergeConflicts(r, c), r # None
    PROVE  /\ FineCursor(Merge(r, c))
           /\ \A n \in Height : Covers(Merge(r, c), n) => Covers(r, n) /\ Covers(c, n)
<1>1. /\ r.number \in Nat /\ c.number \in Nat
      /\ r.commitment \in {0, 1, 2} /\ c.commitment \in {0, 1, 2}
  BY Zenon DEF FineCursor, Commitment, Realtime, Canonical, Finalized
<1>2. \A n \in Height : n \in Nat
  BY DEF Height
<1>m. ASSUME NEW m, FineCursor(m),
             m.number >= r.number, m.number >= c.number,
             m.number = r.number => (m.hash # None => r.hash # None) /\ (m.commitment # 2 => r.commitment # 2),
             m.number = c.number => (m.hash # None => c.hash # None) /\ (m.commitment # 2 => c.commitment # 2)
      PROVE  \A n \in Height : Covers(m, n) => Covers(r, n) /\ Covers(c, n)
  <2> SUFFICES ASSUME NEW n \in Height, Covers(m, n) PROVE Covers(r, n) /\ Covers(c, n)
    BY Zenon
  <2>1. n > m.number \/ (n = m.number /\ n # None /\ m.hash # None /\ m.commitment # 2)
    BY Zenon, <1>m, CoversMeans DEF Finalized
  <2>2. m.number \in Nat /\ n \in Nat
    BY Zenon, <1>m, <1>2 DEF FineCursor
  <2>3. n > r.number \/ (n = r.number /\ n # None /\ r.hash # None /\ r.commitment # 2)
    BY <1>m, <1>1, <2>1, <2>2
  <2>4. n > c.number \/ (n = c.number /\ n # None /\ c.hash # None /\ c.commitment # 2)
    BY <1>m, <1>1, <2>1, <2>2
  <2> QED BY Zenon, <2>3, <2>4, CoversMeans DEF Finalized
<1>3. CASE c.number < r.number
  <2>1. Merge(r, c) = r
    BY Zenon, <1>1, <1>3 DEF Merge
  <2> QED BY <1>m, <1>1, <1>3, <2>1
<1>4. CASE c.number > r.number
  <2>1. Merge(r, c) = c
    BY <1>1, <1>4 DEF Merge
  <2> QED BY <1>m, <1>1, <1>4, <2>1
<1>5. CASE c.number = r.number
  <2>1. ImmutableIdentity(r, c) # "conflict"
    BY Zenon, <1>5 DEF MergeConflicts
  <2>2. r.hash # None /\ c.hash # None
    BY Zenon, <2>1 DEF ImmutableIdentity
  <2>3. CASE ImmutableIdentity(r, c) = "other"
    <3>1. Merge(r, c) = c
      BY <1>1, <1>5, <2>3 DEF Merge
    <3>2. r.commitment # 2
      BY Zenon, <1>5, <2>3 DEF MergeConflicts, Finalized
    <3> QED BY <1>m, <1>1, <1>5, <2>2, <3>1, <3>2
  <2>4. CASE ImmutableIdentity(r, c) # "other"
    <3>1. PICK s : s = Stronger(c.commitment, r.commitment)
      BY Zenon
    <3>2. s \in {0, 1, 2} /\ (s # 2 => c.commitment # 2 /\ r.commitment # 2)
      BY <1>1, <3>1 DEF Stronger
    <3>3. Merge(r, c) = IF c.order < r.order THEN [r EXCEPT !.commitment = s] ELSE [c EXCEPT !.commitment = s]
      BY <1>1, <1>5, <2>4, <3>1 DEF Merge
    <3>4. ASSUME NEW x \in {r, c}, NEW m, m = [x EXCEPT !.commitment = s]
          PROVE  FineCursor(m) /\ \A n \in Height : Covers(m, n) => Covers(r, n) /\ Covers(c, n)
      <4>1. FineCursor(x) /\ x.number = r.number /\ x.hash # None
        BY Zenon, <1>5, <2>2
      <4>2. m.number = x.number /\ m.hash = x.hash /\ m.execution = x.execution /\ m.commitment = s
        BY Zenon, <3>4, <4>1 DEF FineCursor
      <4>3. FineCursor(m)
        BY Zenon, <3>2, <3>4, <4>1, <4>2 DEF FineCursor, Commitment, Realtime, Canonical, Finalized
      <4> QED BY <1>m, <1>1, <1>5, <2>2, <3>2, <4>1, <4>2, <4>3
    <3> QED BY Zenon, <3>3, <3>4
  <2> QED BY Zenon, <2>3, <2>4
<1> QED BY <1>1, <1>3, <1>4, <1>5

(* A contradiction stops the next recovery, and whatever covers the        *)
(* required cursor covers all that is owed.                                *)
Resting == {"top", "wait", "pause", "pause_live", "returned", "stopped"}

CoversOwed ==
    \A n \in Height : (recovery.required # None => Covers(recovery.required, n)) =>
        \A c \in owed : Covers(c, n)

OwedInv ==
    /\ recovery.required # None => FineCursor(recovery.required)
    /\ runtime.pc \notin Resting => ~recovery.conflict
    /\ ~recovery.conflict => CoversOwed
    /\ Recovering => \A c \in owed : Covers(c, runtime.head)

(* A transition adds what it asks for to the required cursor.              *)
LEMMA OwedByRetry ==
    ASSUME WorkShape, OwedInv, NEW t, Retry(t), t.kind \in {"recover", "required"},
           t.cursor # None => FineCursor(t.cursor), t.kind = "required" => t.cursor # None
    PROVE  OwedInv'
<1>0. /\ DOMAIN recovery = {"target", "required", "conflict"} /\ runtime'.pc = "top"
      /\ recovery' = Apply(t)
      /\ owed' = IF t.cursor = None \/ (HasForks /\ t.kind = "recover")
                 THEN owed ELSE owed \cup {t.cursor}
  BY Zenon DEF WorkShape, Retry, RuntimeGoes
<1>1. runtime'.pc \in Resting /\ ~Recovering'
  BY Zenon, <1>0 DEF Resting, Recovering
<1>2. CASE t.kind = "recover" /\ (HasForks \/ t.cursor = None)
  <2>1. recovery'.required = recovery.required /\ recovery'.conflict = recovery.conflict /\ owed' = owed
    BY Zenon, <1>0, <1>2 DEF Apply
  <2>2. CoversOwed => CoversOwed'
    BY Zenon, <2>1 DEF CoversOwed
  <2> QED BY Zenon, <1>1, <2>1, <2>2 DEF OwedInv
<1>3. CASE ~(t.kind = "recover" /\ (HasForks \/ t.cursor = None))
  <2>1. owed' = owed \cup {t.cursor} /\ FineCursor(t.cursor) /\ t.cursor # None
    BY Zenon, <1>0, <1>3
  <2>2. PICK s : s = [recovery EXCEPT !.target = None]
    BY Zenon
  <2>3. DOMAIN s = DOMAIN recovery /\ s.required = recovery.required /\ s.conflict = recovery.conflict
    BY Zenon, <1>0, <2>2
  <2>4. recovery' = MergeRequired(s, t.cursor)
    BY Zenon, <1>0, <1>3, <2>2 DEF Apply
  <2>5. CASE MergeConflicts(recovery.required, t.cursor)
    <3>1. recovery'.required = recovery.required /\ recovery'.conflict = TRUE
      BY Zenon, <1>0, <2>3, <2>4, <2>5 DEF MergeRequired
    <3> QED BY Zenon, <1>1, <3>1 DEF OwedInv
  <2>6. CASE ~MergeConflicts(recovery.required, t.cursor)
    <3>1. recovery'.required = Merge(recovery.required, t.cursor) /\ recovery'.conflict = recovery.conflict
      BY Zenon, <1>0, <2>3, <2>4, <2>6 DEF MergeRequired
    <3>2. CASE recovery.required = None
      <4>1. recovery'.required = t.cursor
        BY Zenon, <3>1, <3>2 DEF Merge
      <4>2. CoversOwed => CoversOwed'
        BY Zenon, <2>1, <3>2, <4>1 DEF CoversOwed
      <4> QED BY SMTT(30), <1>1, <2>1, <3>1, <4>1, <4>2 DEF OwedInv
    <3>3. CASE recovery.required # None
      <4>1. PICK m : m = Merge(recovery.required, t.cursor)
        BY Zenon
      <4>2. /\ FineCursor(m)
            /\ \A n \in Height : Covers(m, n) => Covers(recovery.required, n) /\ Covers(t.cursor, n)
        BY Zenon, <2>1, <2>6, <3>3, <4>1, MergeCovers DEF OwedInv
      <4>3. m # None
        BY Zenon, <4>2, WorkerAssumption DEF FineCursor
      <4>4. CoversOwed => CoversOwed'
        BY SMTT(30), <2>1, <3>1, <3>3, <4>1, <4>2, <4>3 DEF CoversOwed
      <4> QED BY SMTT(30), <1>1, <3>1, <4>1, <4>2, <4>4 DEF OwedInv
    <3> QED BY Zenon, <3>2, <3>3
  <2> QED BY Zenon, <2>5, <2>6
<1> QED BY Zenon, <1>2, <1>3

(* A step that keeps what is required and owed, and reads no head.         *)
LEMMA OwedKept ==
    ASSUME OwedInv, recovery'.required = recovery.required, recovery'.conflict = recovery.conflict,
           owed' = owed, runtime'.pc \in Resting \/ ~recovery.conflict,
           Recovering' => Recovering /\ runtime'.head = runtime.head
    PROVE  OwedInv'
<1>1. CoversOwed => CoversOwed'
  BY Zenon DEF CoversOwed
<1> QED BY Zenon, <1>1 DEF OwedInv

(* The runtime reads only heads that cover what is owed.                   *)
LEMMA OwedByRuntime ==
    ASSUME Shape, LeaseInv, OwedInv, RuntimeNext
    PROVE  OwedInv'
<1> USE DEF RuntimeGoes, Resting
<1>0. /\ DOMAIN runtime = {"pc", "lease", "attempted", "cursor", "head", "page", "todo", "log",
                           "update", "back", "forks", "stale"}
      /\ DOMAIN recovery = {"target", "required", "conflict"} /\ runtime.log \in Nat /\ WorkShape
      /\ runtime.update \in Update
  BY Zenon DEF Shape, WorkShape
<1>f. ASSUME FailRecovery, UNCHANGED owed PROVE OwedInv'
  <2>1. recovery'.required = recovery.required /\ recovery'.conflict = recovery.conflict /\ runtime'.pc = "pause"
    BY Zenon, <1>0, <1>f DEF FailRecovery
  <2> QED BY Zenon, <1>f, <2>1, OwedKept DEF Recovering
<1>n. ASSUME Retry(Recover(None)) PROVE OwedInv'
  BY Zenon, <1>0, <1>n, OwedByRetry DEF Recover
<1>k. ASSUME NEW p, runtime'.pc = p, p \notin {"backfill", "persist_page", "persist", "await"},
             runtime.pc \notin Resting \/ p \in Resting, UNCHANGED owed,
             recovery'.required = recovery.required, recovery'.conflict = recovery.conflict
      PROVE  OwedInv'
  BY SMTT(30), <1>k, OwedKept DEF Recovering, OwedInv
<1>1. CASE InitializeStore \/ LoopTop \/ Live \/ Return \/ Drain \/ Check \/ StoreReady
  <2>1. UNCHANGED <<recovery, owed>>
    BY Zenon, <1>1 DEF InitializeStore, LoopTop, Live, Return, Drain, Check, StoreReady
  <2>2. /\ runtime'.pc \notin {"backfill", "persist_page", "persist", "await"}
        /\ runtime.pc \notin Resting \/ runtime'.pc \in Resting
    BY Zenon, <1>0, <1>1 DEF InitializeStore, LoopTop, Live, Return, Drain, Check, StoreReady, Dequeue
  <2> QED BY Zenon, <1>k, <2>1, <2>2
<1>2. CASE WaitUntilActive
  <2>1. UNCHANGED <<recovery, owed>> /\ ~Recovering'
        /\ (runtime'.pc \in Resting \/ ~recovery.conflict)
    BY Zenon, <1>0, <1>2 DEF WaitUntilActive, Recovering
  <2> QED BY Zenon, <2>1, OwedKept
<1>3. CASE Pause \/ SourceLease
  <2>1. /\ recovery'.required = recovery.required /\ recovery'.conflict = recovery.conflict
        /\ UNCHANGED owed
    BY Zenon, <1>0, <1>3 DEF Pause, SourceLease
  <2>2. /\ runtime'.pc \notin {"backfill", "persist_page", "persist", "await"}
        /\ runtime.pc \notin Resting \/ runtime'.pc \in Resting
    BY Zenon, <1>0, <1>3 DEF Pause, SourceLease
  <2> QED BY Zenon, <1>k, <2>1, <2>2
<1>4. CASE Reconcile
  <2>1. CASE RuntimeGoes(IF shutdown THEN "returned" ELSE "head") /\ UNCHANGED recovery
    <3>1. UNCHANGED owed /\ runtime.pc = "reconcile" /\ runtime'.pc \in {"returned", "head"}
      BY Zenon, <1>0, <1>4, <2>1 DEF Reconcile
    <3> QED BY Zenon, <1>k, <2>1, <3>1
  <2> QED BY Zenon, <1>4, <1>f, <2>1 DEF Reconcile
<1>5. CASE ReadHead
  <2>1. PICK h \in 0..chain : IF HeadAccepted(h)
             THEN /\ runtime' = [runtime EXCEPT !.pc = "backfill", !.head = h,
                                    !.page = FromBlock, !.cursor = store.cursor,
                                    !.stale = @ \/ h < chain]
                  /\ UNCHANGED <<ready, recovery>>
             ELSE FailRecovery
    BY Zenon, <1>5 DEF ReadHead
  <2>2. UNCHANGED owed /\ runtime.pc = "head"
    BY Zenon, <1>5 DEF ReadHead
  <2>3. CASE HeadAccepted(h)
    <3>1. UNCHANGED recovery /\ runtime'.pc = "backfill" /\ runtime'.head = h
      BY Zenon, <1>0, <2>1, <2>3
    <3>2. FromBlock \in Nat /\ FromBlock >= 1
      BY DEF FromBlock, Shape, WorkShape
    <3>3. h \in Height
      BY <2>3, <3>2, WorkerAssumption DEF HeadAccepted, Height, Shape, PumpShape
    <3>4. ~recovery.conflict
      BY Zenon, <2>2 DEF OwedInv
    <3>5. \A c \in owed : Covers(c, h)
      BY Zenon, <2>3, <3>3, <3>4 DEF OwedInv, CoversOwed, Covers, HeadAccepted
    <3>6. CoversOwed'
      BY Zenon, <2>2, <3>1, <3>4 DEF OwedInv, CoversOwed
    <3> QED BY Zenon, <2>2, <3>1, <3>4, <3>5, <3>6 DEF OwedInv
  <2> QED BY Zenon, <1>f, <2>1, <2>2, <2>3
<1>6. CASE ReadHeadFails
  BY Zenon, <1>6, <1>f DEF ReadHeadFails
<1>7. CASE Backfill \/ PersistPage \/ Persist \/ HandleLog
  <2>1. UNCHANGED <<recovery, owed>> /\ runtime.pc \notin Resting
    BY Zenon, <1>7 DEF Backfill, PersistPage, Persist, HandleLog
  <2>2. Recovering' => Recovering /\ runtime'.head = runtime.head
    BY Zenon, <1>0, <1>7 DEF Backfill, PersistPage, Persist, HandleLog, Recovering, LeaseInv
  <2> QED BY Zenon, <2>1, <2>2, OwedKept DEF OwedInv
<1>8. CASE Await
  <2>1. CASE Retry(Recover(BlockCursor(runtime.log)))
    <3>1. FineCursor(BlockCursor(runtime.log))
      BY Zenon, <1>0 DEF BlockCursor, FineCursor, Commitment, Canonical
    <3> QED BY SMTT(30), <1>0, <2>1, <3>1, OwedByRetry DEF Recover
  <2>2. CASE UNCHANGED <<recovery, owed>> /\ (RuntimeGoes("returned") \/ RuntimeGoes(runtime.back) \/ RuntimeGoes("persist"))
    <3>1. runtime.pc = "await"
      BY Zenon, <1>8 DEF Await
    <3>2. Recovering' => Recovering /\ runtime'.head = runtime.head
      BY Zenon, <1>0, <2>2, <3>1 DEF Recovering, LeaseInv
    <3> QED BY Zenon, <2>2, <3>1, <3>2, OwedKept DEF OwedInv
  <2> QED BY Zenon, <1>8, <2>1, <2>2 DEF Await
<1>9. CASE HandleControl
  <2>1. runtime.update.cursor # None => FineCursor(runtime.update.cursor)
    BY Zenon, <1>0, UpdateFacts
  <2>2. CASE runtime.update.kind = "gap" /\ runtime.update.cursor # None
    BY SMTT(30), <1>0, <1>9, <2>1, <2>2, OwedByRetry DEF HandleControl, RecoverRequired
  <2>3. CASE Retry(Recover(runtime.update.cursor))
    BY Zenon, <1>0, <2>1, <2>3, OwedByRetry DEF Recover
  <2> QED BY Zenon, <1>9, <1>n, <2>2, <2>3 DEF HandleControl
<1>10. CASE HandleHead
  <2>1. runtime.update.cursor # None => FineCursor(runtime.update.cursor)
    BY Zenon, <1>0, UpdateFacts
  <2>2. CASE Retry(Recover(runtime.update.cursor))
    BY Zenon, <1>0, <2>1, <2>2, OwedByRetry DEF Recover
  <2>3. CASE UNCHANGED <<recovery, owed>> /\ (RuntimeGoes(runtime.back) \/ RuntimeGoes("pause_live"))
    <3>1. runtime.pc = "handle" /\ runtime'.pc \in {"drain", "check", "pause_live"}
      BY Zenon, <1>0, <1>10, <2>3 DEF HandleHead, LeaseInv
    <3> QED BY Zenon, <1>k, <2>3, <3>1
  <2> QED BY Zenon, <1>10, <1>f, <2>2, <2>3 DEF HandleHead
<1>11. CASE Drained
  <2>1. CASE recovery' = Apply(Continue) /\ RuntimeGoes("check") /\ owed' = {}
    <3>1. recovery'.required = None /\ recovery'.conflict = FALSE
      BY Zenon, <1>0, <2>1 DEF Apply, Continue
    <3>2. CoversOwed' /\ ~Recovering'
      BY Zenon, <1>0, <2>1 DEF CoversOwed, Recovering
    <3> QED BY SMTT(30), <3>1, <3>2 DEF OwedInv
  <2> QED BY Zenon, <1>11, <1>n, <2>1 DEF Drained
<1>12. CASE ComparePublish
  <2>1. CASE RuntimeGoes("store") /\ UNCHANGED <<recovery, owed>>
    <3>1. runtime.pc = "publish" /\ runtime'.pc = "store"
      BY Zenon, <1>0, <1>12, <2>1 DEF ComparePublish
    <3> QED BY Zenon, <1>k, <2>1, <3>1
  <2> QED BY Zenon, <1>12, <1>n, <2>1 DEF ComparePublish
<1>13. CASE ConfirmReady
  <2>1. CASE runtime.pc = "confirm" /\ RuntimeGoes(IF LeaseHeld THEN "live" ELSE "withdraw") /\ UNCHANGED <<recovery, owed>>
    <3>1. runtime'.pc \in {"live", "withdraw"}
      BY Zenon, <1>0, <2>1
    <3> QED BY Zenon, <1>k, <2>1, <3>1
  <2> QED BY Zenon, <1>13, <1>n, <2>1 DEF ConfirmReady
<1> QED BY Zenon, <1>1, <1>2, <1>3, <1>4, <1>5, <1>6, <1>7, <1>8, <1>9, <1>10, <1>11, <1>12, <1>13 DEF RuntimeNext

(* So does every step.                                                     *)
LEMMA OwedStep ==
    ASSUME Shape, LeaseInv, OwedInv, [Next]_vars
    PROVE  OwedInv'
<1>1. CASE PumpNext \/ WriterNext \/ Outside
  <2>1. UNCHANGED <<runtime, recovery, owed>>
    BY SMTT(30), <1>1, PumpTypes, WriterFacts, OutsideFacts DEF Shape, workVars
  <2> QED BY Zenon, <2>1, OwedKept DEF Recovering, OwedInv
<1>2. CASE RuntimeNext
  BY Zenon, <1>2, OwedByRuntime
<1> QED BY Zenon, <1>1, <1>2, Steps

-----------------------------------------------------------------------------
(* Together                                                                *)

PcInv ==
    runtime.pc \in {"start", "top", "wait", "pause", "pause_live", "lease", "leased", "reconcile", "head",
                    "backfill", "persist_page", "persist", "await", "handle", "drain", "drained", "check",
                    "publish", "store", "confirm", "withdraw", "live", "returned", "stopped"}

(* The program counter of the runtime names a step of it.                  *)
LEMMA PcStep ==
    ASSUME Shape, PcInv, [Next]_vars
    PROVE  PcInv'
<1>1. CASE PumpNext \/ WriterNext \/ Outside
  <2>1. UNCHANGED runtime
    BY SMTT(30), <1>1, PumpTypes, WriterFacts, OutsideFacts DEF Shape, workVars
  <2> QED BY Zenon, <2>1 DEF PcInv
<1>2. CASE RuntimeNext
  <2>1. /\ DOMAIN runtime = {"pc", "lease", "attempted", "cursor", "head", "page", "todo", "log",
                             "update", "back", "forks", "stale"}
        /\ runtime.back \in {"live", "persist_page", "drain", "check"}
    BY Zenon DEF Shape, WorkShape
  <2>2. CASE ReadHead
    BY Zenon, <2>1, <2>2 DEF ReadHead, FailRecovery, RuntimeGoes, PcInv
  <2> QED BY Zenon, <1>2, <2>1, <2>2 DEF PcInv, RuntimeGoes, Retry, FailRecovery, Dequeue, RuntimeNext,
         InitializeStore, LoopTop, WaitUntilActive, Pause,
         SourceLease, Reconcile, ReadHeadFails, Backfill, PersistPage, Persist, Await,
         HandleLog, HandleControl, HandleHead, Drain, Drained, Check, ComparePublish, StoreReady,
         ConfirmReady, Live, Return
<1> QED BY Zenon, <1>1, <1>2, Steps

(* The inductive invariant of the worker.                                  *)
WorkerInv ==
    /\ Shape /\ PcInv /\ PumpInv /\ FeedInv /\ LeaseInv /\ GapInv
    /\ StoreInv /\ PersistInv /\ StreamInv /\ OwedInv

(* The invariant holds initially.                                          *)
LEMMA WorkerInit == Init => WorkerInv
<1> SUFFICES ASSUME Init PROVE WorkerInv
  BY Zenon
<1>a. PICK large \in SUBSET Oversized :
          pump = [pc |-> "off", then |-> "top", pending |-> Gap(None), ended |-> FALSE,
                  feed |-> 1, ever |-> FALSE, large |-> large]
  BY Zenon DEF Init
<1>b. PICK forks \in BOOLEAN :
          runtime = [pc |-> "start", lease |-> 0, attempted |-> None, cursor |-> 0, head |-> 0,
                     page |-> 0, todo |-> {}, log |-> 0, update |-> Gap(None),
                     back |-> "live", forks |-> forks, stale |-> FALSE]
  BY Zenon DEF Init
<1>c. /\ chain = 1 /\ activity = 0 /\ active = FALSE /\ ready = FALSE /\ queue = <<>> /\ owed = {}
      /\ recovery = [target |-> None, required |-> None, conflict |-> FALSE]
      /\ store = [durable |-> {}, cursor |-> 0, phase |-> "idle", command |-> 0,
                  depth |-> 0, reply |-> "ok"]
  BY Zenon DEF Init
<1>1. /\ DOMAIN pump = {"pc", "then", "pending", "ended", "feed", "ever", "large"}
      /\ pump.pc = "off" /\ pump.then = "top" /\ pump.pending = Gap(None) /\ pump.ended = FALSE
      /\ pump.feed = 1 /\ pump.ever = FALSE /\ pump.large \subseteq Oversized
  BY Zenon, <1>a
<1>2. /\ DOMAIN runtime = {"pc", "lease", "attempted", "cursor", "head", "page", "todo", "log",
                           "update", "back", "forks", "stale"}
      /\ runtime.pc = "start" /\ runtime.lease = 0 /\ runtime.cursor = 0 /\ runtime.head = 0
      /\ runtime.page = 0 /\ runtime.todo = {} /\ runtime.log = 0 /\ runtime.update = Gap(None)
      /\ runtime.back = "live"
  BY Zenon, <1>b
<1>3. /\ DOMAIN recovery = {"target", "required", "conflict"} /\ recovery.required = None
      /\ DOMAIN store = {"durable", "cursor", "phase", "command", "depth", "reply"}
      /\ recovery.conflict = FALSE
      /\ store.durable = {} /\ store.cursor = 0 /\ store.phase = "idle" /\ store.command = 0
  BY Zenon, <1>c
<1>4. Shape
  BY <1>1, <1>c, <1>2, <1>3, UpdateKinds, WorkerAssumption DEF Shape, PumpShape, WorkShape, Height
<1>5. ~Engaged /\ ~Recovering /\ ~Draining /\ ~Serving /\ ~Streams /\ ~Working
  BY Zenon, <1>2 DEF Engaged, Recovering, Draining, Serving, Handling, Streams, Working
<1>6. PcInv /\ PumpInv
  BY SMTT(30), <1>1, <1>c, <1>2 DEF PcInv, PumpInv, Leaving, Sending
<1>7. FeedInv
  BY <1>1, <1>c, UpdateKinds DEF FeedInv, IsLog
<1>8. LeaseInv /\ GapInv /\ StreamInv
  BY SMTT(30), <1>1, <1>c, <1>2, <1>5 DEF LeaseInv, GapInv, StreamInv
<1>9. StoreInv
  BY Zenon, <1>2, <1>3 DEF StoreInv
<1>10. PersistInv
  <2>1. Below(1)
    BY DEF Below, Height
  <2> QED BY <1>2, <1>3, <1>5, <2>1 DEF PersistInv
<1>11. OwedInv
  BY Zenon, <1>1, <1>c, <1>2, <1>3, <1>5 DEF OwedInv, CoversOwed
<1> QED BY Zenon, <1>4, <1>6, <1>7, <1>8, <1>9, <1>10, <1>11 DEF WorkerInv

(* Every step keeps it.                                                    *)
LEMMA WorkerStep ==
    ASSUME WorkerInv, [Next]_vars
    PROVE  WorkerInv'
<1> USE DEF WorkerInv
<1>1. Shape' /\ PcInv'
  BY Zenon, ShapeStep, PcStep
<1>2. PumpInv' /\ FeedInv'
  BY Zenon, PumpInvStep, FeedStep
<1>3. LeaseInv' /\ GapInv'
  BY Zenon, LeaseStep, GapStep
<1>4. StoreInv' /\ PersistInv'
  BY Zenon, StoreStep, PersistStep
<1>5. StreamInv' /\ OwedInv'
  BY Zenon, StreamStep, OwedStep
<1> QED BY Zenon, <1>1, <1>2, <1>3, <1>4, <1>5

(* Every behaviour of the worker keeps the invariant.                      *)
THEOREM WorkerInvariant == Spec => []WorkerInv
<1>1. WorkerInv /\ [Next]_vars => WorkerInv'
  BY Zenon, WorkerStep
<1> QED BY <1>1, WorkerInit, PTL DEF Spec

(* A ready worker has finished a recovery.                                 *)
LEMMA ReadyServes ==
    ASSUME WorkerInv, ready, Settled
    PROVE  /\ LeaseHeld /\ activity % 2 = 1 /\ ~Recovering
           /\ shutdown \/ pump.pc = "stopped" \/ Serving
<1>1. LeaseHeld /\ activity % 2 = 1
  BY Zenon DEF WorkerInv, LeaseInv, LeaseHeld
<1>2. ~Recovering /\ ~Draining /\ runtime.pc \notin {"start", "wait", "pause", "pause_live", "drained", "stopped"} /\ ~Engaged
  BY Zenon DEF WorkerInv, LeaseInv
<1>3. CASE runtime.pc = "returned"
  BY Zenon, <1>1, <1>2, <1>3 DEF WorkerInv, LeaseInv
<1>4. CASE runtime.pc \in {"handle", "persist", "await"}
  BY Zenon, <1>1, <1>2, <1>4 DEF WorkerInv, LeaseInv, Recovering, Draining, Serving, Handling
<1>5. CASE runtime.pc \notin {"returned", "handle", "persist", "await"}
  BY Zenon, <1>1, <1>2, <1>5 DEF WorkerInv, PcInv, Recovering, Draining, Serving, Handling, Engaged
<1> QED BY Zenon, <1>3, <1>4, <1>5

(* Readiness is of the current subscription and hides no lost log: what    *)
(* publish_ready_if and mark_inactive promise holds for every chain, queue *)
(* bound, page size and number of faults.                                  *)
THEOREM ReadinessIsSound == Spec => []ReadinessHolds
<1>1. WorkerInv => ReadinessHolds
  <2> SUFFICES ASSUME WorkerInv PROVE ReadinessHolds
    BY Zenon
  <2>1. ReadyHoldsLease
    BY Zenon, ReadyServes DEF ReadyHoldsLease
  <2>2. ReadyIsContinuous
    <3> SUFFICES ASSUME ready, Settled, ~shutdown, pump.pc # "revoke", ~runtime.stale, NEW h \in 1..chain
                 PROVE  \/ h \in store.durable \/ h >= pump.feed
                        \/ Log(h) = pump.pending /\ pump.pc \in {"send", "saturated", "blocked", "push"}
                        \/ \E i \in DOMAIN queue : queue[i] = Log(h)
                        \/ runtime.pc = "handle" /\ runtime.update = Log(h)
                        \/ runtime.pc \in {"persist", "await"} /\ runtime.log = h
      BY Zenon DEF ReadyIsContinuous
    <3>1. /\ h \in Height /\ queue \in Seq(Update) /\ pump.pending \in Update /\ runtime.update \in Update
          /\ pump.feed \in Nat /\ h \in Nat
      BY SMTT(30), WorkerAssumption DEF WorkerInv, Shape, PumpShape, WorkShape, Height
    <3>2. pump.pc \in {"activate", "consume"} \/ (pump.pc \in Sending /\ ~pump.ended)
      BY SMTT(30), ReadyServes DEF WorkerInv, PumpInv
    <3>3. Serving /\ LeaseHeld /\ ~Recovering
      BY Zenon, <3>2, ReadyServes DEF Sending
    <3>4. ~GapAhead /\ FeedOrder
      BY Zenon, <3>3 DEF WorkerInv, GapInv, StreamInv, Streams
    <3>5. h < pump.feed => Known(h, Len(queue)) \/ (pump.pc \in Sending /\ IsLog(pump.pending, h))
      BY Zenon, <3>1, <3>2, <3>4 DEF FeedOrder
    <3>6. \A u \in Update : IsLog(u, h) => u = Log(h)
      BY Zenon, UpdateFacts DEF IsLog
    <3>7. \A i \in 1..Len(queue) : queue[i] \in Update /\ i \in DOMAIN queue
      BY <3>1
    <3> QED BY <3>1, <3>3, <3>5, <3>6, <3>7 DEF Known, Ahead, Sending
  <2> QED BY Zenon, <2>1, <2>2 DEF ReadinessHolds
<1> QED BY <1>1, WorkerInvariant, PTL

(* The recovery cursor passes no log that is not durable, and a recovery   *)
(* reads a head that covers every cursor reported as missing, for every    *)
(* chain, whatever providers report and however often appends fail.        *)
THEOREM RecoveryIsComplete == Spec => []RecoveryLosesNothing
<1>1. WorkerInv => RecoveryLosesNothing
  <2> SUFFICES ASSUME WorkerInv PROVE RecoveryLosesNothing
    BY Zenon
  <2>1. CursorIsComplete
    <3>1. \A h \in Height : h <= store.cursor => h < store.cursor + 1
      BY DEF WorkerInv, Shape, WorkShape, Height
    <3> QED BY Zenon, <3>1 DEF CursorIsComplete, WorkerInv, PersistInv, Below
  <2>2. RecoveryCoversOwed
    BY Zenon DEF RecoveryCoversOwed, WorkerInv, OwedInv, Recovering, Covers
  <2> QED BY Zenon, <2>1, <2>2 DEF RecoveryLosesNothing
<1> QED BY <1>1, WorkerInvariant, PTL
=============================================================================
