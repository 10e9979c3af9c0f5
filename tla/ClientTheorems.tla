--------------------------- MODULE ClientTheorems ---------------------------
(***************************************************************************)
(* The theorems about the TypeScript client, for every chain, capacity and *)
(* number of faults: its queue is accounted for, and a client that is      *)
(* ready has no hole.                                                      *)
(***************************************************************************)
EXTENDS ConnectedClientProofs, FiniteSetTheorems, WellFoundedInduction

(* A bounded set of naturals has a greatest element, which Highest returns. *)
LEMMA HighestHolds ==
    ASSUME NEW S \in SUBSET Nat, NEW n \in Nat, \A x \in S : x <= n
    PROVE  /\ Highest(S) \in S \cup {0} /\ Highest(S) \in Nat /\ Highest(S) <= n
           /\ \A x \in S : x <= Highest(S)
<1> DEFINE Z == S \cup {0}
           T == {k \in Nat : n - k \in Z}
<1>1. \A x \in Z : x \in Nat /\ x <= n /\ n - x \in Nat /\ n - (n - x) = x
  OBVIOUS
<1>2. n \in T /\ T \subseteq Nat
  BY <1>1
<1>3. \A x \in Z : n - x \in T
  BY Zenon, <1>1
<1>4. \A k \in T : n - k \in Z /\ k \in Nat
  BY Zenon
<1> HIDE DEF T, Z
<1>5. PICK k \in T : \A y \in T : ~(<<y, k>> \in OpToRel(<, Nat))
  BY Zenon, <1>2, NatLessThanWellFounded, WFMin
<1>6. ASSUME NEW y \in T PROVE k <= y
  <2>1. <<y, k>> \notin OpToRel(<, Nat)
    BY Zenon, <1>5
  <2>2. y \in Nat /\ k \in Nat
    BY Zenon, <1>4
  <2> QED BY <2>1, <2>2 DEF OpToRel
<1>7. \E m \in Z : \A y \in Z : m >= y
  <2>1. ASSUME NEW y \in Z PROVE n - k >= y
    <3>1. k <= n - y
      BY Zenon, <1>3, <1>6
    <3> QED BY <1>1, <1>4, <3>1
  <2> QED BY Zenon, <1>4, <2>1
<1>8. Highest(S) = CHOOSE m \in Z : \A y \in Z : m >= y
  BY Zenon DEF Highest, Max, None, Z
<1>9. Highest(S) \in Z /\ \A y \in Z : Highest(S) >= y
  BY Zenon, <1>7, <1>8
<1>10. Highest(S) \in Nat /\ Highest(S) <= n
  BY Zenon, <1>1, <1>9
<1> QED BY Zenon, <1>1, <1>9, <1>10 DEF Z

-----------------------------------------------------------------------------
(* Charges                                                                 *)

Gaps(s) == {i \in 1 .. Len(s) : s[i].kind = "Gap"}

(* There are finitely many gaps in a sequence.                             *)
LEMMA GapsFinite ==
    ASSUME NEW s \in Seq(Items)
    PROVE  IsFiniteSet(Gaps(s)) /\ Cardinality(Gaps(s)) \in Nat /\ Cardinality(Gaps(s)) <= Len(s)
<1>1. IsFiniteSet(1 .. Len(s)) /\ Cardinality(1 .. Len(s)) = Len(s)
  <2>1. Len(s) \in Nat /\ Len(s) \in Int /\ 1 \in Int
    OBVIOUS
  <2>2. Cardinality(1 .. Len(s)) = IF 1 > Len(s) THEN 0 ELSE Len(s) - 1 + 1
    BY Zenon, <2>1, FS_Interval
  <2> QED BY <2>1, <2>2, FS_Interval
<1>2. Gaps(s) \in SUBSET (1 .. Len(s))
  BY Zenon DEF Gaps
<1>3. IsFiniteSet(Gaps(s)) /\ Cardinality(Gaps(s)) <= Len(s)
  BY Zenon, <1>1, <1>2, FS_Subset
<1> QED BY Zenon, <1>3, FS_CardinalityType

(* The gaps of a concatenation are those of its parts.                     *)
LEMMA GapsConcat ==
    ASSUME NEW s \in Seq(Items), NEW t \in Seq(Items)
    PROVE  Cardinality(Gaps(s \o t)) = Cardinality(Gaps(s)) + Cardinality(Gaps(t))
<1> DEFINE shifted == {i \in Len(s) + 1 .. Len(s) + Len(t) : (s \o t)[i].kind = "Gap"}
           f == [i \in Gaps(t) |-> i + Len(s)]
<1>1. Gaps(s \o t) = Gaps(s) \cup shifted
  <2>1. Len(s \o t) = Len(s) + Len(t) /\ \A i \in 1 .. Len(s) : (s \o t)[i] = s[i]
    OBVIOUS
  <2> QED BY <2>1 DEF Gaps
<1>2. Gaps(s) \cap shifted = {}
  BY DEF Gaps
<1>3. f \in Bijection(Gaps(t), shifted)
  <2>1. ASSUME NEW i \in Gaps(t) PROVE i + Len(s) \in shifted
    BY DEF Gaps
  <2>2. ASSUME NEW i \in shifted PROVE i - Len(s) \in Gaps(t) /\ (i - Len(s)) + Len(s) = i
    BY DEF Gaps
  <2>3. \A i, j \in Gaps(t) : i + Len(s) = j + Len(s) => i = j
    BY DEF Gaps
  <2> HIDE DEF shifted
  <2> QED BY Zenon, <2>1, <2>2, <2>3 DEF Bijection, Injection, Surjection, IsInjective
<1>4. IsFiniteSet(shifted) /\ Cardinality(shifted) = Cardinality(Gaps(t))
  BY Zenon, <1>3, GapsFinite, FS_Bijection DEF ExistsBijection
<1>5. Cardinality(Gaps(s) \cap shifted) = 0
  BY Zenon, <1>2, FS_EmptySet
<1> HIDE DEF shifted
<1>6. IsFiniteSet(Gaps(s)) /\ Cardinality(Gaps(s)) \in Nat /\ Cardinality(Gaps(t)) \in Nat
  BY Zenon, GapsFinite
<1>7. Cardinality(Gaps(s) \cup shifted) = Cardinality(Gaps(s)) + Cardinality(shifted) - 0
  BY Zenon, <1>4, <1>5, <1>6, FS_Union
<1> QED BY <1>1, <1>4, <1>6, <1>7

(* What a sequence is charged: nothing for the empty one, the charges of   *)
(* its parts for a concatenation.                                          *)
LEMMA ChargeHolds ==
    /\ SumCharges(<<>>) = 0
    /\ \A s \in Seq(Items) : SumCharges(s) \in Nat
    /\ \A e \in Items : SumCharges(<<e>>) = Charge(e)
    /\ \A s, t \in Seq(Items) : SumCharges(s \o t) = SumCharges(s) + SumCharges(t)
    /\ \A s \in Seq(Items), e \in Items : SumCharges(Append(s, e)) = SumCharges(s) + Charge(e)
    /\ \A s \in Seq(Items) : s # <<>> => SumCharges(s) = Charge(Head(s)) + SumCharges(Tail(s))
<1>0. \A s : SumCharges(s) = 2 * Len(s) - Cardinality(Gaps(s))
  BY Zenon DEF SumCharges, Gaps
<1>1. SumCharges(<<>>) = 0
  <2>1. Gaps(<<>>) = {} /\ Len(<<>>) = 0
    BY DEF Gaps
  <2> QED BY <1>0, <2>1, FS_EmptySet
<1>2. ASSUME NEW s \in Seq(Items) PROVE SumCharges(s) \in Nat
  BY <1>0, GapsFinite
<1>3. ASSUME NEW e \in Items PROVE SumCharges(<<e>>) = Charge(e)
  <2>1. Len(<<e>>) = 1 /\ <<e>>[1] = e
    BY Zenon
  <2>2. SumCharges(<<e>>) = 2 * Len(<<e>>) - Cardinality(Gaps(<<e>>))
    BY Zenon, <1>0
  <2>3. CASE e.kind = "Gap"
    <3>1. Gaps(<<e>>) = {1}
      BY <2>1, <2>3 DEF Gaps
    <3>2. Cardinality(Gaps(<<e>>)) = 1
      BY Zenon, <3>1, FS_Singleton
    <3> QED BY <2>1, <2>2, <2>3, <3>2 DEF Charge
  <2>4. CASE e.kind # "Gap"
    <3>1. Gaps(<<e>>) = {}
      BY <2>1, <2>4 DEF Gaps
    <3>2. Cardinality(Gaps(<<e>>)) = 0
      BY Zenon, <3>1, FS_EmptySet
    <3> QED BY <2>1, <2>2, <2>4, <3>2 DEF Charge
  <2> QED BY Zenon, <2>3, <2>4
<1>4. ASSUME NEW s \in Seq(Items), NEW t \in Seq(Items)
      PROVE  SumCharges(s \o t) = SumCharges(s) + SumCharges(t)
  <2>1. Len(s \o t) = Len(s) + Len(t)
    OBVIOUS
  <2>2. Cardinality(Gaps(s)) \in Nat /\ Cardinality(Gaps(t)) \in Nat
    BY Zenon, GapsFinite
  <2>3. Cardinality(Gaps(s \o t)) = Cardinality(Gaps(s)) + Cardinality(Gaps(t))
    BY Zenon, GapsConcat
  <2>4. /\ SumCharges(s \o t) = 2 * Len(s \o t) - Cardinality(Gaps(s \o t))
        /\ SumCharges(s) = 2 * Len(s) - Cardinality(Gaps(s))
        /\ SumCharges(t) = 2 * Len(t) - Cardinality(Gaps(t))
    BY Zenon, <1>0
  <2>5. Len(s) \in Nat /\ Len(t) \in Nat
    OBVIOUS
  <2> QED BY <2>1, <2>2, <2>3, <2>4, <2>5
<1>5. ASSUME NEW s \in Seq(Items), NEW e \in Items
      PROVE  SumCharges(Append(s, e)) = SumCharges(s) + Charge(e)
  <2>1. Append(s, e) = s \o <<e>> /\ <<e>> \in Seq(Items)
    OBVIOUS
  <2> QED BY Zenon, <1>3, <1>4, <2>1
<1>6. ASSUME NEW s \in Seq(Items), s # <<>> PROVE SumCharges(s) = Charge(Head(s)) + SumCharges(Tail(s))
  <2>1. s = <<Head(s)>> \o Tail(s) /\ <<Head(s)>> \in Seq(Items) /\ Tail(s) \in Seq(Items) /\ Head(s) \in Items
    BY <1>6
  <2> QED BY Zenon, <1>3, <1>4, <2>1
<1> QED BY Zenon, <1>1, <1>2, <1>3, <1>4, <1>5, <1>6

(* What the proofs about the queue assume of charges and maxima.           *)
LEMMA QueueLawsHold == QueueLaws
BY Zenon, ChargeHolds, HighestHolds DEF QueueLaws, ChargeLaw, HighestLaw

-----------------------------------------------------------------------------
(* The end of a client                                                     *)

(* Every step keeps what is known of a reducer that is over.               *)
LEMMA DoneStep ==
    ASSUME QueueLaws, SourceTypes, QueueInv, TaskLink, PumpInv, DoneInv, [Next]_vars, told' \in Nat, told' >= told
    PROVE  DoneInv'
<1>q. QueueOK(queue)
  BY Zenon DEF QueueInv
<1>r. /\ DOMAIN reducer = {"pc", "held", "consumed", "valid"} /\ reducer.held \in Seq(Items)
      /\ (reducer.pc # "held" => reducer.held = <<>>)
      /\ (reducer.pc = "unborn" <=> conn.pc # "connected")
  BY Zenon DEF QueueInv, ReducerInv
<1>s. DOMAIN stop = {"source", "reducer", "pc", "expired"}
  BY Zenon DEF SourceTypes
<1>c. DOMAIN calls = Requests /\ \A r \in Requests : DOMAIN calls[r] = {"status", "owed"}
  BY Zenon DEF DoneInv
<1>e. /\ stop.reducer \/ stop.pc \in {"reducer", "done"} => queue.ended
      /\ reducer.pc = "done" =>
            /\ queue.ended /\ queue.values = <<>> /\ queue.staged = <<>>
            /\ \A r \in Requests : calls[r].status # "waiting"
      /\ stop.pc = "done" /\ ~stop.expired => reducer.pc = "done"
  BY Zenon DEF DoneInv
<1>k. ASSUME UNCHANGED <<queue, calls>>, reducer'.pc = "done" <=> reducer.pc = "done",
             stop'.pc # "running" => stop.pc # "running" \/ stop'.pc = "pump",
             stop'.pc \in {"reducer", "done"} => stop'.pc = stop.pc /\ stop'.expired = stop.expired,
             stop'.reducer = stop.reducer
      PROVE  DoneInv'
  BY Zenon, <1>k, <1>c, <1>e DEF DoneInv
<1>m. ASSUME UNCHANGED stop, queue.ended => queue'.ended, reducer.pc # "done", reducer'.pc # "done",
             DOMAIN calls' = Requests, \A r \in Requests : DOMAIN calls'[r] = {"status", "owed"}
      PROVE  DoneInv'
  BY Zenon, <1>m, <1>e DEF DoneInv
<1>n. ASSUME UNCHANGED <<stop, calls>>, queue.ended => queue'.ended, reducer.pc # "done", reducer'.pc # "done"
      PROVE  DoneInv'
  BY Zenon, <1>n, <1>c, <1>m
<1>w. ASSUME NEW p, QueueOK(p), ResolveWaiters(p), queue.ended => p.ended,
             queue.ended => p.values = queue.values /\ p.staged = queue.staged,
             UNCHANGED <<calls, stop>>
      PROVE  DoneInv'
  <2>1. queue'.ended = p.ended /\ (reducer.pc # "waiting" => queue' = p /\ reducer' = reducer)
    BY Zenon, <1>r, <1>w, ResolveResult
  <2>2. CASE reducer.pc = "done"
    BY Zenon, <1>w, <1>c, <1>e, <2>1, <2>2 DEF DoneInv
  <2>3. CASE reducer.pc # "done"
    <3>1. reducer'.pc # "done"
      BY Zenon, <1>r, <1>w, <2>3, ResolveResult
    <3> QED BY Zenon, <1>n, <1>w, <2>1, <2>3, <3>1
  <2> QED BY Zenon, <2>2, <2>3
<1>p. ASSUME NEW u, u.kind \in Kinds, u.at \in Nat, ResolveWaiters(PushCharged(queue, u)), UNCHANGED <<calls, stop>>
      PROVE  DoneInv'
  <2> DEFINE p == PushCharged(queue, u)
             n == Highest({told, u.at})
  <2>1. told \in Nat
    BY Zenon DEF SourceTypes
  <2>2. n \in Nat /\ told <= n /\ u.at <= n
    BY Zenon, <1>p, <2>1, HighestOfTwo
  <2> HIDE DEF n
  <2>3. Within(queue, n)
    <3>1. queue.values \in Seq(Items) /\ queue.staged \in Seq(Items)
      BY Zenon DEF QueueInv, QueueOK, QueueTypes
    <3>2. EntriesOf(queue) \subseteq Items
      BY Zenon, <3>1, EntrySets DEF EntriesOf
    <3> QED BY <2>1, <2>2, <3>2 DEF QueueInv, Within, Items
  <2>4. QueueOK(p) /\ p.ended = queue.ended /\ (queue.ended => p = queue)
    BY <1>p, <1>q, <2>2, <2>3, PushResult
  <2> HIDE DEF p
  <2> QED BY Zenon, <1>p, <1>w, <2>4 DEF p
<1>g. ASSUME ResolveWaiters(PushCharged(queue, Update("Gap", None))), UNCHANGED <<calls, stop>> PROVE DoneInv'
  BY <1>g, <1>p DEF Update, Kinds, None
<1>1. CASE NewBlock
  BY Zenon, <1>1, <1>k DEF NewBlock
<1>2. CASE Pump
  <2>1. ASSUME NEW u, NEW next, u.kind \in Kinds, u.at \in Nat, Receive(u, next) PROVE DoneInv'
    BY Zenon, <1>p, <2>1 DEF Receive
  <2>2. sub.next \in Nat /\ head \in Nat /\ None \in Nat
    BY Zenon DEF SourceTypes, None
  <2>3. CASE ReceiveLog
    BY <2>1, <2>2, <2>3 DEF ReceiveLog, Update, Kinds
  <2>4. CASE ReceiveReorg
    BY <2>1, <2>2, <2>4 DEF ReceiveReorg, Update, Kinds
  <2>5. CASE ReceiveGap
    <3>1. PICK at \in {None} \cup (sub.next - 1 .. head) : Receive(Update("Gap", at), sub.next)
      BY Zenon, <2>5 DEF ReceiveGap
    <3>2. at \in Nat
      BY <2>2 DEF SourceTypes
    <3> QED BY <2>1, <3>1, <3>2 DEF Update, Kinds
  <2>6. CASE Subscribe \/ StreamThrows \/ StreamCancelled \/ Reconnect
    <3>1. UNCHANGED <<queue, calls, reducer, stop>>
      BY Zenon, <2>6 DEF Subscribe, StreamThrows, StreamCancelled, Reconnect
    <3> QED BY Zenon, <1>k, <3>1
  <2>7. CASE SubscribeFails \/ StreamEnds \/ StreamClosed
    <3>1. CASE UNCHANGED <<queue, calls, reducer, stop>>
      BY Zenon, <1>k, <3>1
    <3> QED BY Zenon, <1>g, <2>7, <3>1 DEF SubscribeFails, StreamEnds, StreamClosed
  <2> QED BY Zenon, <1>2, <2>3, <2>4, <2>5, <2>6, <2>7 DEF Pump
<1>d. ASSUME NEW p, p = DrainAll(queue), conn.pc # "connected" PROVE QueueOK(p) /\ p.ended = queue.ended
  <2>1. queue.staged = <<>>
    BY Zenon, <1>d, <1>r DEF QueueInv, ReducerInv
  <2> QED BY Zenon, <1>d, <1>q, <2>1, DrainResult
<1>3. CASE Connect
  <2>0. ASSUME UNCHANGED <<queue, calls, reducer, stop>> PROVE DoneInv'
    BY Zenon, <1>k, <2>0
  <2>c. ASSUME NEW st, Connected(st), conn.pc # "connected" PROVE DoneInv'
    <3>1. queue' = DrainAll(queue) /\ reducer'.pc = "loop" /\ UNCHANGED <<stop, calls>>
      BY Zenon, <1>r, <2>c DEF Connected
    <3>2. queue'.ended = queue.ended /\ reducer.pc # "done"
      BY Zenon, <1>d, <1>r, <2>c, <3>1
    <3> QED BY Zenon, <1>n, <3>1, <3>2
  <2>f. ASSUME NEW st, FinishRestore(st), conn.pc # "connected" PROVE DoneInv'
    <3>1. CASE HasBarrier(Range(queue.values))
      <4>1. queue' = DrainAll(queue) /\ UNCHANGED <<stop, calls, reducer>>
        BY Zenon, <2>f, <3>1 DEF FinishRestore
      <4>2. queue'.ended = queue.ended /\ reducer.pc # "done" /\ reducer'.pc # "done"
        BY Zenon, <1>d, <1>r, <2>f, <4>1
      <4> QED BY Zenon, <1>n, <4>1, <4>2
    <3> QED BY Zenon, <2>c, <2>f, <3>1 DEF FinishRestore
  <2>x. ASSUME NEW q, QueueOK(q), FailConnect(q), conn.pc # "connected" PROVE DoneInv'
    <3>1. /\ queue' = Close(q) /\ reducer' = reducer /\ calls' = calls
          /\ stop' = [stop EXCEPT !.source = TRUE, !.reducer = TRUE]
      BY Zenon, <2>x DEF FailConnect
    <3>2. queue'.ended
      BY Zenon, <2>x, <3>1, CloseResult
    <3>3. stop'.pc = stop.pc /\ stop.pc = "running" /\ reducer.pc # "done"
      BY Zenon, <1>r, <1>s, <2>x, <3>1 DEF PumpInv
    <3> QED BY Zenon, <1>c, <3>1, <3>2, <3>3 DEF DoneInv
  <2>1. CASE BootstrapActive \/ RestoreFails \/ \E valid \in BOOLEAN : CheckpointValidated(valid)
    <3>1. UNCHANGED <<queue, calls, reducer, stop>>
      BY Zenon, <2>1 DEF BootstrapActive, RestoreFails, CheckpointValidated
    <3> QED BY Zenon, <2>0, <3>1
  <2>2. CASE RestoreHead
    BY Zenon, <2>2, <2>0, <2>f DEF RestoreHead
  <2>3. CASE RestorePage
    BY Zenon, <2>3, <2>0, <2>f DEF RestorePage
  <2>4. CASE SnapshotIndexer
    BY Zenon, <1>d, <2>4, <2>c, <2>x DEF SnapshotIndexer
  <2>5. CASE ConnectFails
    BY Zenon, <1>q, <2>5, <2>x DEF ConnectFails
  <2> QED BY Zenon, <1>3, <2>1, <2>2, <2>3, <2>4, <2>5 DEF Connect
<1>y. ASSUME NEW how \in {"resolved", "rejected"}, Settle(how)
      PROVE  /\ DOMAIN calls' = Requests /\ \A r \in Requests : DOMAIN calls'[r] = {"status", "owed"}
             /\ \A r \in Requests : calls'[r].status # "waiting"
  BY Zenon, <1>c, <1>y DEF Settle
<1>f. ASSUME NEW st, FailReducer(st), reducer.pc # "unborn" PROVE DoneInv'
  <2> DEFINE p == AbortRecovery(queue)
  <2>1. /\ queue' = Close(p) /\ Settle("rejected")
        /\ stop' = [stop EXCEPT !.source = TRUE, !.reducer = TRUE]
        /\ reducer' = [reducer EXCEPT !.pc = "done", !.held = <<>>]
    BY Zenon, <1>f DEF FailReducer
  <2>2. QueueOK(p) /\ p.values = <<>> /\ p.staged = <<>>
    BY Zenon, <1>q, AbortResult
  <2> HIDE DEF p
  <2>3. queue'.ended /\ queue'.values = <<>> /\ queue'.staged = <<>>
    BY Zenon, <2>1, <2>2, CloseResult
  <2>4. reducer'.pc = "done" /\ stop'.pc = stop.pc
    BY Zenon, <1>r, <1>s, <2>1
  <2>5. /\ DOMAIN calls' = Requests /\ \A r \in Requests : DOMAIN calls'[r] = {"status", "owed"}
        /\ \A r \in Requests : calls'[r].status # "waiting"
    BY Zenon, <1>y, <2>1
  <2> QED BY Zenon, <2>3, <2>4, <2>5 DEF DoneInv
<1>b. ASSUME NEW st, NEW c, NEW failed \in {<<>>, reducer.held}, Run(st, c, failed), reducer.pc \in {"loop", "held"}
      PROVE  DoneInv'
  <2>1. CASE stop.source
    BY Zenon, <1>b, <1>f, <2>1 DEF Run
  <2>2. CASE ~stop.source
    <3>1. /\ queue' = BeginRecovery(queue, failed) /\ UNCHANGED <<calls, stop>>
          /\ reducer' = [reducer EXCEPT !.pc = "recovering", !.held = <<>>, !.consumed = c]
      BY Zenon, <1>b, <2>2 DEF Run
    <3>2. reducer'.pc = "recovering"
      BY Zenon, <1>r, <3>1
    <3>3. queue'.ended = queue.ended
      BY Zenon, <3>1 DEF BeginRecovery, CollapseOverflow, QueueInv, QueueOK, QueueTypes
    <3> QED BY Zenon, <1>b, <1>n, <3>1, <3>2, <3>3
  <2> QED BY Zenon, <2>1, <2>2
<1>4. CASE ReduceLoop
  <2>1. CASE Run(state, reducer.consumed, <<>>)
    BY Zenon, <1>4, <1>b, <2>1 DEF ReduceLoop
  <2>2. CASE /\ queue.values # <<>> /\ queue' = Take(queue) /\ UNCHANGED <<calls, stop>>
             /\ reducer' = [reducer EXCEPT !.pc = "held", !.held = <<Head(queue.values)>>]
    <3>1. reducer'.pc = "held" /\ reducer.pc = "loop"
      BY Zenon, <1>4, <1>r, <2>2 DEF ReduceLoop
    <3>2. queue'.ended = queue.ended
      BY Zenon, <1>q, <2>2, TakeResult
    <3> QED BY Zenon, <1>n, <2>2, <3>1, <3>2
  <2>3. ASSUME NEW pc \in {"woken", "waiting"}, reducer' = [reducer EXCEPT !.pc = pc], UNCHANGED <<queue, calls, stop>>
        PROVE  DoneInv'
    <3>1. reducer'.pc # "done" /\ reducer.pc = "loop"
      BY Zenon, <1>4, <1>r, <2>3 DEF ReduceLoop
    <3> QED BY Zenon, <1>n, <2>3, <3>1
  <2> QED BY Zenon, <1>4, <2>1, <2>2, <2>3 DEF ReduceLoop
<1>5. CASE ReduceWoken
  <2>1. CASE stop.reducer \/ queue.ended
    <3>1. /\ queue' = AbortRecovery(queue) /\ reducer' = [reducer EXCEPT !.pc = "done"]
          /\ Settle("rejected") /\ stop' = stop /\ queue.ended
      BY Zenon, <1>5, <1>e, <2>1 DEF ReduceWoken
    <3>2. queue'.ended /\ queue'.values = <<>> /\ queue'.staged = <<>>
      BY Zenon, <1>q, <3>1, AbortResult
    <3>3. reducer'.pc = "done"
      BY Zenon, <1>r, <3>1
    <3>4. /\ DOMAIN calls' = Requests /\ \A r \in Requests : DOMAIN calls'[r] = {"status", "owed"}
          /\ \A r \in Requests : calls'[r].status # "waiting"
      BY Zenon, <1>y, <3>1
    <3> QED BY Zenon, <3>1, <3>2, <3>3, <3>4 DEF DoneInv
  <2>2. CASE ~(stop.reducer \/ queue.ended)
    <3>1. reducer'.pc = "loop" /\ reducer.pc = "woken" /\ UNCHANGED <<queue, calls, stop>>
      BY Zenon, <1>5, <1>r, <2>2 DEF ReduceWoken
    <3> QED BY Zenon, <1>n, <3>1
  <2> QED BY Zenon, <2>1, <2>2
<1>6. CASE ReduceHeld
  <2>1. ASSUME NEW n, NEW v, reducer' = [reducer EXCEPT !.pc = "loop", !.held = <<>>, !.consumed = n, !.valid = v],
               UNCHANGED <<queue, calls, stop>>
        PROVE  DoneInv'
    <3>1. reducer'.pc = "loop" /\ reducer.pc = "held"
      BY Zenon, <1>6, <1>r, <2>1 DEF ReduceHeld
    <3> QED BY Zenon, <1>n, <2>1, <3>1
  <2> QED BY Zenon, <1>6, <1>b, <2>1 DEF ReduceHeld
<1>7. CASE Recover
  <2>0. recovery.pc # "none" => reducer.pc = "recovering"
    BY Zenon DEF TaskLink
  <2>k. ASSUME UNCHANGED <<queue, calls, reducer, stop>> PROVE DoneInv'
    BY Zenon, <1>k, <2>k
  <2>s. ASSUME queue' = StageQueuedForRecovery(queue), UNCHANGED <<calls, reducer, stop>>, recovery.pc # "none" PROVE DoneInv'
    <3>1. queue'.ended = queue.ended
      BY Zenon, <1>q, <2>s, StageResult
    <3> QED BY Zenon, <1>n, <2>0, <2>s, <3>1
  <2>1. CASE RecoverLease \/ RecoverValidated
    BY Zenon, <2>1, <2>k, <2>s DEF RecoverLease, RecoverValidated, StageAndRead
  <2>2. CASE RecoverHead \/ RecoverFails \/ RecoverRetries
    <3>1. UNCHANGED <<queue, calls, reducer, stop>>
      BY Zenon, <2>2 DEF RecoverHead, RecoverFails, RecoverRetries
    <3> QED BY Zenon, <2>k, <3>1
  <2>3. CASE RecoverPermanent \/ RecoverAborted
    <3>1. FailReducer(state) /\ reducer.pc = "recovering"
      BY Zenon, <2>0, <2>3 DEF RecoverPermanent, RecoverAborted
    <3> QED BY Zenon, <1>f, <3>1
  <2>4. ASSUME NEW s \in 1 .. MaxBlock, RecoverSnapshot(s) PROVE DoneInv'
    <3> DEFINE p == StageQueuedForRecovery(queue)
    <3>1. stop' = stop /\ reducer.pc = "recovering" /\ recovery.pc # "none"
      BY Zenon, <2>0, <2>4 DEF RecoverSnapshot
    <3>2. CASE /\ queue' = CompleteRecovery(p) /\ Settle("resolved")
               /\ \E x : reducer' = [reducer EXCEPT !.pc = "loop", !.consumed = x]
      <4>1. QueueOK(p) /\ p.values = <<>> /\ ~p.overflowed /\ p.ended = queue.ended
        BY Zenon, <1>q, StageResult
      <4> HIDE DEF p
      <4>2. queue'.ended = queue.ended
        BY Zenon, <3>2, <4>1, CompleteResult
      <4>3. reducer'.pc = "loop"
        BY Zenon, <1>r, <3>2
      <4> QED BY Zenon, <1>m, <1>y, <3>1, <3>2, <4>2, <4>3
    <3>3. CASE UNCHANGED <<queue, calls, reducer>>
      BY Zenon, <2>k, <3>1, <3>3
    <3>4. CASE queue' = p /\ UNCHANGED <<calls, reducer>>
      BY Zenon, <2>s, <3>1, <3>4
    <3> QED BY Zenon, <2>4, <3>2, <3>3, <3>4 DEF RecoverSnapshot, Restage
  <2> QED BY Zenon, <1>7, <2>1, <2>2, <2>3, <2>4 DEF Recover
<1>8. CASE Shutdown
  <2>1. stop'.pc = "pump" /\ stop'.reducer = stop.reducer /\ UNCHANGED <<queue, calls, reducer>>
    BY Zenon, <1>8, <1>s DEF Shutdown
  <2> QED BY Zenon, <1>k, <2>1
<1>9. CASE ShutdownPump
  <2> DEFINE p == Close(queue)
  <2>1. ResolveWaiters(p) /\ calls' = calls
    BY Zenon, <1>9 DEF ShutdownPump
  <2>2. stop'.pc = "reducer"
    <3>1. CASE stop' = [stop EXCEPT !.pc = "reducer"]
      BY Zenon, <1>s, <3>1
    <3>2. CASE stop' = [stop EXCEPT !.pc = "reducer", !.expired = TRUE]
      BY Zenon, <1>s, <3>2
    <3> QED BY Zenon, <1>9, <3>1, <3>2 DEF ShutdownPump
  <2>3. QueueOK(p) /\ p.ended /\ p.values = queue.values /\ p.staged = queue.staged
    BY Zenon, <1>q, CloseResult
  <2> HIDE DEF p
  <2>4. queue'.ended /\ (reducer.pc = "done" => queue' = p /\ reducer' = reducer)
        /\ (reducer.pc # "done" => reducer'.pc # "done")
    BY Zenon, <1>r, <2>1, <2>3, ResolveResult
  <2> QED BY Zenon, <1>c, <1>e, <2>1, <2>2, <2>3, <2>4 DEF DoneInv
<1>10. CASE ShutdownReducer
  <2>1. UNCHANGED <<queue, calls, reducer>> /\ queue.ended
    BY Zenon, <1>10, <1>e DEF ShutdownReducer
  <2>2. CASE reducer.pc = "done"
    BY Zenon, <1>c, <1>e, <2>1, <2>2 DEF DoneInv
  <2>3. CASE reducer.pc # "done"
    <3>1. stop'.expired
      BY Zenon, <1>10, <1>s, <2>3 DEF ShutdownReducer
    <3> QED BY Zenon, <1>c, <2>1, <2>3, <3>1 DEF DoneInv
  <2> QED BY Zenon, <2>2, <2>3
<1>11. ASSUME NEW r \in Requests, Request(r) PROVE DoneInv'
  <2> DEFINE x == [status |-> IF Halted THEN "rejected" ELSE "waiting", owed |-> told]
  <2>1. calls' = [calls EXCEPT ![r] = x] /\ queue' = queue /\ stop' = stop
    BY Zenon, <1>11 DEF Request
  <2>2. DOMAIN x = {"status", "owed"} /\ (Halted => x.status = "rejected")
    BY Zenon
  <2> HIDE DEF x
  <2>3. DOMAIN calls' = Requests /\ \A i \in Requests : DOMAIN calls'[i] = {"status", "owed"}
    BY Zenon, <1>c, <2>1, <2>2
  <2>4. CASE reducer.pc = "done"
    <3>1. Halted
      BY Zenon, <1>e, <2>4 DEF Halted
    <3>2. reducer' = reducer
      BY Zenon, <1>11, <3>1 DEF Request
    <3>3. \A i \in Requests : calls'[i].status # "waiting"
      BY Zenon, <1>c, <1>e, <2>1, <2>2, <2>4, <3>1
    <3> QED BY Zenon, <1>e, <2>1, <2>3, <2>4, <3>2, <3>3 DEF DoneInv
  <2>5. CASE reducer.pc # "done"
    <3>1. reducer'.pc # "done"
      BY Zenon, <1>11, <1>r, <2>5 DEF Request
    <3> QED BY Zenon, <1>m, <2>1, <2>3, <2>5, <3>1
  <2> QED BY Zenon, <2>4, <2>5
<1>12. CASE UNCHANGED vars
  BY Zenon, <1>12, <1>k DEF vars
<1> QED BY Zenon, <1>1, <1>2, <1>3, <1>4, <1>5, <1>6, <1>7, <1>8, <1>9, <1>10, <1>11, <1>12 DEF Next, Reduce

-----------------------------------------------------------------------------
(* The queue is accounted for                                              *)

(* The inductive invariant of the queue, the reducer and the shutdown      *)
(* (update_queue.ts, reduceSource, finishShutdown).                        *)
THEOREM QueueInvariantHolds == Spec => []QueueInvariant
<1>1. Init => QueueInvariant
  <2> SUFFICES ASSUME Init PROVE QueueInvariant
    BY Zenon
  <2>1. SourceTypes
    BY ConnectedClientAssumption DEF Init, SourceTypes
  <2>2. queue \in QueueTypes
    <3> DEFINE none == <<>>
               no == FALSE
    <3>1. none \in Seq(Items) /\ no \in BOOLEAN
      OBVIOUS
    <3>2. queue = [values |-> none, staged |-> none, bytes |-> 0, accepted |-> 0, drained |-> 0,
                   ended |-> no, overflowed |-> no, recovering |-> no]
      BY Zenon DEF Init
    <3> HIDE DEF none, no
    <3> QED BY <3>1, <3>2 DEF QueueTypes
  <2>3. QueueOK(queue) /\ EntriesOf(queue) = {}
    BY Zenon, <2>2, QueueLawsHold, EmptyQueue DEF Init
  <2>4. <<>> \in Seq(Items) /\ Range(<<>>) = {}
    BY EntrySets
  <2>5. ReducerInv
    BY Zenon, <2>4 DEF Init, ReducerInv
  <2>6. ConsumedInv
    BY DEF Init, ConsumedInv
  <2>7. QueueInv
    BY Zenon, <2>3, <2>5, <2>6 DEF QueueInv, Within
  <2>8. TaskLink
    BY Zenon DEF Init, TaskLink, NoRecovery
  <2>9. PumpInv
    BY Zenon DEF Init, PumpInv
  <2>10. DoneInv
    BY Zenon DEF Init, DoneInv
  <2> QED BY Zenon, <2>1, <2>7, <2>8, <2>9, <2>10 DEF QueueInvariant
<1>2. QueueInvariant /\ [Next]_vars => QueueInvariant'
  <2> SUFFICES ASSUME QueueInvariant, [Next]_vars PROVE QueueInvariant'
    BY Zenon
  <2>1. SourceTypes /\ QueueInv /\ TaskLink /\ PumpInv /\ DoneInv
    BY Zenon DEF QueueInvariant
  <2>2. SourceTypes' /\ told' >= told
    BY Zenon, <2>1, SourceStep
  <2>3. told' \in Nat
    BY Zenon, <2>2 DEF SourceTypes
  <2>4. QueueInv'
    BY Zenon, <2>1, <2>2, <2>3, QueueLawsHold, QueueStep
  <2>5. TaskLink'
    BY Zenon, <2>1, TaskStep
  <2>6. PumpInv'
    BY Zenon, <2>1, PumpStep
  <2>7. DoneInv'
    BY Zenon, <2>1, <2>2, <2>3, QueueLawsHold, DoneStep
  <2> QED BY Zenon, <2>2, <2>4, <2>5, <2>6, <2>7 DEF QueueInvariant
<1> QED BY <1>1, <1>2, PTL DEF Spec

(* The queue of the client holds what it charges for within both budgets,  *)
(* nothing that the reducer has consumed, and nothing once a shutdown met  *)
(* its deadline (update_queue.ts, reduceSource, finishShutdown), whatever  *)
(* the capacities, the faults and the requests.                            *)
THEOREM QueueAccounting == Spec => []QueueIsAccountedFor
<1>1. QueueInvariant => QueueIsAccountedFor
  <2> SUFFICES ASSUME QueueInvariant PROVE QueueIsAccountedFor
    BY Zenon
  <2>1. BudgetHeld
    BY Zenon DEF QueueInvariant, QueueInv, QueueOK, BudgetHeld
  <2>2. ConsumedLeftQueue
    BY Zenon DEF QueueInvariant, QueueInv, ConsumedInv, ConsumedLeftQueue, EntriesOf
  <2>3. ASSUME stop.pc = "done", ~stop.expired
        PROVE  /\ pump.pc = "done" /\ reducer.pc = "done" /\ ~activity.active
               /\ queue.bytes = 0 /\ RetainedCount(queue) = 0
               /\ \A r \in Requests : calls[r].status # "waiting"
    <3>1. pump.pc = "done" /\ ~activity.active
      BY Zenon, <2>3 DEF QueueInvariant, PumpInv
    <3>2. reducer.pc = "done" /\ queue.values = <<>> /\ queue.staged = <<>> /\ \A r \in Requests : calls[r].status # "waiting"
      BY Zenon, <2>3 DEF QueueInvariant, DoneInv
    <3>3. queue.bytes = SumCharges(queue.values) + SumCharges(queue.staged)
      BY Zenon DEF QueueInvariant, QueueInv, QueueOK
    <3>4. queue.bytes = 0
      BY <3>2, <3>3, ChargeHolds
    <3>5. RetainedCount(queue) = 0
      BY <3>2 DEF RetainedCount
    <3> QED BY Zenon, <3>1, <3>2, <3>4, <3>5
  <2>4. StopReleases
    BY Zenon, <2>3 DEF StopReleases
  <2> QED BY Zenon, <2>1, <2>2, <2>4 DEF QueueIsAccountedFor
<1> QED BY <1>1, QueueInvariantHolds, PTL

-----------------------------------------------------------------------------
(* A ready client has no hole                                              *)

(* A log that is applied, or that the snapshot had.                        *)
LEMMA ApplyCompletes ==
    ASSUME NEW st, DOMAIN st = StateFields, Complete(st), NEW e \in Items, Joins(st, e.at)
    PROVE  Complete(ApplyLog(st, e)) /\ Joins(ApplyLog(st, e), e.at + 1)
<1> DEFINE n == e.at
           nx == ApplyLog(st, e)
<1>0. n \in Nat /\ st.at \in Nat /\ st.floor \in Nat /\ st.floor <= st.at /\ st.logs = 1 .. st.at
  BY DEF Items, Complete
<1>1. CASE n <= st.floor \/ n = st.at
  <2>1. nx = st
    BY Zenon, <1>1 DEF ApplyLog
  <2>2. n + 1 = st.at + 1 \/ (n + 1 <= st.at /\ st.at = st.floor)
    <3>1. n = st.at + 1 \/ (n <= st.at /\ st.at = st.floor)
      BY Zenon DEF Joins
    <3> HIDE DEF n
    <3> QED BY <1>0, <1>1, <3>1
  <2> QED BY Zenon, <2>1, <2>2 DEF Joins
<1>2. CASE ~(n <= st.floor \/ n = st.at)
  <2>1. nx = [st EXCEPT !.at = n, !.logs = @ \cup {n}]
    BY Zenon, <1>2 DEF ApplyLog
  <2>2. nx.at = n /\ nx.logs = st.logs \cup {n} /\ nx.floor = st.floor
    BY Zenon, <2>1 DEF StateFields
  <2>3. n = st.at + 1
    <3>1. n = st.at + 1 \/ (n <= st.at /\ st.at = st.floor)
      BY Zenon DEF Joins
    <3> HIDE DEF n
    <3> QED BY <1>0, <1>2, <3>1
  <2> HIDE DEF n, nx
  <2>4. st.logs \cup {n} = 1 .. n /\ st.floor <= n
    BY <1>0, <2>3
  <2> QED BY Zenon, <1>0, <2>2, <2>4 DEF Complete, Joins, n, nx
<1> QED BY Zenon, <1>1, <1>2

(* Every step keeps a ready client complete.                               *)
LEMMA ReadyStep ==
    ASSUME QueueLaws, QueueInvariant, Tame, TasksInv, TasksInv', RecoveryInv, BootstrapInv, ReadyInv,
           [Next]_vars, told' \in Nat, told' >= told
    PROVE  ReadyInv'
<1> DEFINE Goal == Complete(state') /\ \E n \in Nat : Joins(state', n) /\ Follows(n, Pending', sub'.next)
<1> SUFFICES ASSUME conn'.pc = "connected", state'.ready PROVE Goal
  BY Zenon DEF ReadyInv
<1> HIDE DEF Goal
<1>0. /\ SourceTypes /\ QueueInv /\ TaskLink /\ PumpInv /\ DoneInv /\ told \in Nat
      /\ sub.next \in Nat /\ sub.base \in Nat /\ DOMAIN sub = {"base", "next"} /\ conn.asked \in Nat /\ head \in Nat
  <2>1. sub \in [base : Nat, next : Nat]
    BY Zenon DEF QueueInvariant, SourceTypes
  <2>2. sub.next \in Nat /\ sub.base \in Nat /\ DOMAIN sub = {"base", "next"}
    BY <2>1
  <2> QED BY Zenon, <2>2 DEF QueueInvariant, SourceTypes
<1>d. /\ DOMAIN stop = {"source", "reducer", "pc", "expired"} /\ DOMAIN state = StateFields
      /\ DOMAIN reducer = {"pc", "held", "consumed", "valid"}
      /\ DOMAIN recovery = {"pc", "lease", "required", "cursorless", "through", "validated", "asked", "pending", "barrier"}
  BY Zenon, <1>0 DEF SourceTypes, QueueInv, ReducerInv, TasksInv, TaskLink
<1>t. activity'.active /\ ~stop'.source /\ recovery'.pc = "none"
  BY Zenon DEF TasksInv
<1>a. activity' # SetActive(FALSE)
  <2>1. SetActive(FALSE).active = FALSE
    BY Zenon DEF SetActive
  <2> QED BY Zenon, <1>t, <2>1
<1>v. queue.values \in Seq(Items) /\ reducer.held \in Seq(Items) /\ Pending \in Seq(Items) /\ Range(queue.values) \in SUBSET Items
  <2>1. queue.values \in Seq(Items) /\ reducer.held \in Seq(Items)
    BY <1>0 DEF QueueInv, QueueOK, QueueTypes, ReducerInv
  <2>2. Range(queue.values) \in SUBSET Items
    BY Zenon, <2>1, EntrySets
  <2>3. Pending \in Seq(Items)
    BY <2>1 DEF Pending
  <2> QED BY Zenon, <2>1, <2>2, <2>3
<1>i. ASSUME conn.pc = "connected", state.ready
      PROVE  Complete(state) /\ \E n \in Nat : Joins(state, n) /\ Follows(n, Pending, sub.next)
  BY Zenon, <1>i DEF ReadyInv
<1>k. ASSUME conn' = conn, sub' = sub, state' = state, Pending' = Pending PROVE Goal
  BY Zenon, <1>i, <1>k DEF Goal
<1>s. ASSUME NEW st, Complete(st), Joins(st, sub.next), state' = st, sub' = sub, reducer'.held = <<>>, queue'.values = <<>> PROVE Goal
  <2>1. Pending' = <<>>
    <3>1. <<>> \o <<>> = <<>>
      OBVIOUS
    <3> QED BY Zenon, <1>s, <3>1 DEF Pending
  <2> QED BY Zenon, <1>0, <1>s, <2>1, FollowsNothing DEF Goal
<1>f. ASSUME NEW st PROVE ~FailReducer(st)
  BY Zenon, <1>a DEF FailReducer
<1>r. ASSUME NEW st, NEW c, NEW failed PROVE ~Run(st, c, failed)
  <2> SUFFICES ASSUME Run(st, c, failed) PROVE FALSE
    BY Zenon
  <2>1. \E x : recovery' = [NoRecovery EXCEPT !.pc = "lease", !.required = x]
    BY Zenon, <1>f DEF Run
  <2>2. recovery'.pc = "lease"
    BY Zenon, <2>1 DEF NoRecovery
  <2> QED BY Zenon, <1>t, <2>2
<1>1. CASE NewBlock \/ UNCHANGED vars
  <2>1. UNCHANGED <<conn, sub, state, reducer, queue>>
    BY Zenon, <1>1 DEF NewBlock, vars
  <2> QED BY Zenon, <1>k, <2>1 DEF Pending
<1>2. CASE Pump
  <2>1. CASE ReceiveLog \/ ReceiveReorg \/ ReceiveGap
    <3>1. PICK u, next :
             /\ Receive(u, next) /\ u.kind \in Kinds /\ u.at \in Nat /\ u.at <= told' /\ next \in Nat
             /\ u.kind = "Log" => u.at = sub.next /\ next = sub.next + 1
      BY Zenon, <1>0, <2>1, ReceivedUpdate
    <3>2. /\ sub' = [sub EXCEPT !.next = next] /\ conn' = conn /\ state' = state
          /\ ResolveWaiters(PushCharged(queue, u)) /\ Admitted(queue, u) /\ u.kind # "Gap"
      BY Zenon, <1>a, <3>1 DEF Receive
    <3> DEFINE e == Entry(u, queue.accepted + 1)
    <3>3. Pending' = Append(Pending, e)
      BY Zenon, <1>0, <3>1, <3>2, PushedUpdate
    <3>4. e \in Items /\ e.kind = u.kind /\ e.at = u.at
      <4>1. queue.accepted \in Nat
        BY <1>0 DEF QueueInv, QueueOK, QueueTypes
      <4> QED BY <3>1, <4>1 DEF Entry, Items
    <3>5. sub'.next = next
      BY Zenon, <1>0, <3>2
    <3> HIDE DEF e
    <3>6. PICK n \in Nat : Joins(state, n) /\ Follows(n, Pending, sub.next)
      BY Zenon, <1>i, <3>2
    <3>7. Follows(n, Append(Pending, e), next)
      <4>0. sub.next \in Nat /\ Pending \in Seq(Items)
        BY Zenon, <1>0, <1>v
      <4>1. CASE u.kind = "Log"
        <5>1. \A x \in Items : x.kind = "Log" /\ x.at = sub.next => Follows(n, Append(Pending, x), sub.next + 1)
          BY Zenon, <3>6, <4>0, FollowsFacts
        <5>2. e.kind = "Log" /\ e.at = sub.next /\ next = sub.next + 1
          BY Zenon, <3>1, <3>4, <4>1
        <5> QED BY Zenon, <3>4, <5>1, <5>2
      <4>2. CASE u.kind # "Log"
        <5>1. \A x \in Items, m \in Nat : x.kind # "Log" => Follows(n, Append(Pending, x), m)
          BY Zenon, <3>6, <4>0, FollowsFacts
        <5> QED BY Zenon, <3>1, <3>4, <4>2, <5>1
      <4> QED BY Zenon, <4>1, <4>2
    <3> QED BY Zenon, <1>i, <3>2, <3>3, <3>5, <3>6, <3>7 DEF Goal
  <2>2. CASE Subscribe
    <3>1. ~activity.active /\ conn' = conn /\ state' = state
      BY Zenon, <1>0, <2>2 DEF Subscribe, PumpInv
    <3> QED BY Zenon, <3>1 DEF TasksInv
  <2>3. CASE SubscribeFails \/ StreamEnds \/ StreamClosed
    BY Zenon, <1>a, <2>3 DEF SubscribeFails, StreamEnds, StreamClosed
  <2>4. CASE StreamThrows \/ StreamCancelled \/ Reconnect
    <3>1. UNCHANGED <<conn, sub, state, reducer, queue>>
      BY Zenon, <2>4 DEF StreamThrows, StreamCancelled, Reconnect, env
    <3> QED BY Zenon, <1>k, <3>1 DEF Pending
  <2> QED BY Zenon, <1>2, <2>1, <2>2, <2>3, <2>4 DEF Pump
<1>3. CASE Connect
  <2>1. CASE BootstrapActive
    <3>1. conn'.pc = "snapshot"
      BY Zenon, <1>0, <2>1 DEF BootstrapActive, Await, Tame, SourceTypes
    <3> QED BY Zenon, <3>1
  <2>2. CASE ConnectFails
    BY Zenon, <1>a, <2>2 DEF ConnectFails, FailConnect
  <2>3. CASE RestoreHead \/ RestorePage \/ RestoreFails \/ \E valid \in BOOLEAN : CheckpointValidated(valid)
    BY Zenon, <2>3 DEF RestoreHead, RestorePage, RestoreFails, CheckpointValidated, TasksInv
  <2>4. CASE SnapshotIndexer
    <3>1. PICK s \in conn.asked .. head :
             IF HasBarrier(Range(queue.values)) THEN FailConnect(DrainAll(queue)) /\ UNCHANGED faults
             ELSE Connected(ReplayHandoff(FromSnapshot(s), Range(queue.values)))
      BY Zenon, <2>4 DEF SnapshotIndexer
    <3>2. ~HasBarrier(Range(queue.values)) /\ conn.pc = "snapshot"
      BY Zenon, <1>a, <2>4, <3>1 DEF FailConnect, SnapshotIndexer
    <3> DEFINE st == ReplayHandoff(FromSnapshot(s), Range(queue.values))
    <3>3. Connected(st)
      BY Zenon, <3>1, <3>2
    <3>4. HandsOff(sub.base, Range(queue.values)) /\ sub.base <= conn.asked
      BY Zenon, <3>2 DEF BootstrapInv
    <3>5. s \in Nat /\ sub.base <= s
      BY <1>0, <3>4
    <3>6. \A x \in Range(queue.values) : x.at <= told
      BY Zenon, <1>0 DEF QueueInv, Within, EntriesOf
    <3>7. Complete(st) /\ Joins(st, sub.next)
      BY Zenon, <1>0, <1>v, <3>2, <3>4, <3>5, <3>6, HandoffCompletes
    <3> HIDE DEF st
    <3>8. /\ state' = (IF activity.active THEN st ELSE NotReady(st)) /\ queue' = DrainAll(queue) /\ sub' = sub /\ activity' = activity
          /\ reducer' = [reducer EXCEPT !.pc = "loop", !.consumed = queue.accepted]
      BY Zenon, <3>3 DEF Connected, env
    <3>9. reducer.held = <<>> /\ queue.staged = <<>>
      BY Zenon, <1>0, <3>2 DEF QueueInv, ReducerInv
    <3>10. reducer'.held = <<>> /\ queue'.values = <<>>
      BY Zenon, <1>0, <1>d, <3>8, <3>9, DrainResult DEF QueueInv
    <3> QED BY Zenon, <1>s, <1>t, <3>7, <3>8, <3>10
  <2> QED BY Zenon, <1>3, <2>1, <2>2, <2>3, <2>4 DEF Connect
<1>4. CASE Reduce
  <2>1. conn' = conn /\ sub' = sub /\ stop' = stop /\ conn.pc = "connected"
    <3>1. conn' = conn /\ sub' = sub /\ stop' = stop
      BY Zenon, <1>r, <1>4 DEF Reduce, ReduceLoop, ReduceWoken, ReduceHeld, env
    <3> QED BY Zenon, <3>1
  <2>2. CASE ReduceLoop
    <3>1. /\ state' = state
          /\ \/ /\ queue.values # <<>> /\ queue' = Take(queue)
                /\ reducer' = [reducer EXCEPT !.pc = "held", !.held = <<Head(queue.values)>>]
             \/ /\ queue' = queue /\ \E pc : reducer' = [reducer EXCEPT !.pc = pc]
      BY Zenon, <1>r, <2>2 DEF ReduceLoop
    <3>2. reducer.held = <<>>
      BY Zenon, <1>0, <2>2 DEF ReduceLoop, QueueInv, ReducerInv
    <3>3. CASE queue.values # <<>> /\ queue' = Take(queue) /\ reducer' = [reducer EXCEPT !.pc = "held", !.held = <<Head(queue.values)>>]
      <4>1. reducer'.held = <<Head(queue.values)>> /\ queue'.values = Tail(queue.values)
        BY Zenon, <1>0, <1>d, <3>3, TakeResult DEF QueueInv
      <4>2. <<Head(queue.values)>> \o Tail(queue.values) = <<>> \o queue.values
        BY <1>v, <3>3
      <4> QED BY Zenon, <1>k, <2>1, <3>1, <3>2, <4>1, <4>2 DEF Pending
    <3>4. CASE queue' = queue /\ \E pc : reducer' = [reducer EXCEPT !.pc = pc]
      <4>1. reducer'.held = reducer.held
        BY Zenon, <1>d, <3>4
      <4> QED BY Zenon, <1>k, <2>1, <3>1, <3>4, <4>1 DEF Pending
    <3> QED BY Zenon, <3>1, <3>3, <3>4
  <2>3. CASE ReduceWoken
    <3>1. ~(stop.reducer \/ queue.ended)
      BY Zenon, <1>0, <1>t, <2>1 DEF DoneInv, TasksInv
    <3>2. queue' = queue /\ state' = state /\ reducer' = [reducer EXCEPT !.pc = "loop"]
      BY Zenon, <2>3, <3>1 DEF ReduceWoken
    <3>3. reducer'.held = reducer.held
      BY Zenon, <1>d, <3>2
    <3> QED BY Zenon, <1>k, <2>1, <3>2, <3>3 DEF Pending
  <2>4. CASE ReduceHeld
    <3> DEFINE e == reducer.held[1]
    <3>1. /\ e.kind = "Log" /\ state' = ApplyLog(state, e) /\ queue' = queue
          /\ \E c : reducer' = [reducer EXCEPT !.pc = "loop", !.held = <<>>, !.consumed = c, !.valid = TRUE]
      <4>1. ~(state' = NotReady(state))
        BY Zenon, <1>d, NotReadyFacts
      <4>2. reducer.valid
        BY Zenon, <1>t, <2>1 DEF TasksInv
      <4> QED BY Zenon, <1>r, <2>4, <4>1, <4>2 DEF ReduceHeld
    <3>2. Len(reducer.held) = 1
      BY Zenon, <1>0, <2>4 DEF ReduceHeld, QueueInv, ReducerInv
    <3>3. reducer.held = <<e>> /\ e \in Items
      BY Zenon, <1>v, <3>2, OneEntry
    <3> HIDE DEF e
    <3>4. Pending = <<e>> \o queue.values
      BY Zenon, <3>3 DEF Pending
    <3>5. Pending # <<>> /\ Pending[1] = e /\ Tail(Pending) = queue.values
      BY <1>v, <3>3, <3>4
    <3>6. Pending' = queue.values
      <4>1. reducer'.held = <<>>
        BY Zenon, <1>d, <3>1
      <4>2. <<>> \o queue.values = queue.values
        BY <1>v
      <4> QED BY Zenon, <3>1, <4>1, <4>2 DEF Pending
    <3>7. state.ready
      BY Zenon, <1>d, <3>1 DEF ApplyLog, StateFields
    <3>8. PICK n \in Nat : Joins(state, n) /\ Follows(n, Pending, sub.next)
      BY Zenon, <1>i, <2>1, <3>7
    <3>9. e.at = n /\ Follows(n + 1, queue.values, sub.next)
      <4>0. sub.next \in Nat /\ Pending \in Seq(Items)
        BY Zenon, <1>0, <1>v
      <4>1. Pending # <<>> /\ Pending[1].kind = "Log"
              => Pending[1].at = n /\ Follows(n + 1, Tail(Pending), sub.next)
        BY Zenon, <3>8, <4>0, FollowsFacts
      <4> QED BY Zenon, <3>1, <3>5, <4>1
    <3>10. Complete(state') /\ Joins(state', n + 1)
      BY Zenon, <1>d, <1>i, <2>1, <3>1, <3>3, <3>7, <3>8, <3>9, ApplyCompletes
    <3>11. n + 1 \in Nat
      OBVIOUS
    <3> QED BY Zenon, <2>1, <3>6, <3>9, <3>10, <3>11 DEF Goal
  <2> QED BY Zenon, <1>4, <2>2, <2>3, <2>4 DEF Reduce
<1>5. CASE Recover
  <2>0. recovery.pc # "none" /\ reducer.pc = "recovering" /\ reducer.held = <<>>
    <3>1. recovery.pc # "none"
      BY Zenon, <1>5 DEF Recover, RecoverLease, RecoverValidated, RecoverHead, RecoverFails, RecoverRetries,
                         RecoverPermanent, RecoverAborted, RecoverSnapshot
    <3> QED BY Zenon, <1>0, <3>1 DEF TaskLink, QueueInv, ReducerInv
  <2>1. state' = state => FALSE
    <3>1. conn' = conn
      BY Zenon, <1>5 DEF Recover, RecoverLease, RecoverValidated, RecoverHead, RecoverFails, RecoverRetries,
                         RecoverPermanent, RecoverAborted, RecoverSnapshot, FailReducer
    <3> QED BY Zenon, <2>0, <3>1 DEF TasksInv
  <2>2. CASE RecoverLease \/ RecoverValidated \/ RecoverHead \/ RecoverFails \/ RecoverRetries
    BY Zenon, <2>1, <2>2 DEF RecoverLease, RecoverValidated, RecoverHead, RecoverFails, RecoverRetries
  <2>3. CASE RecoverPermanent \/ RecoverAborted
    BY Zenon, <1>f, <2>3 DEF RecoverPermanent, RecoverAborted
  <2>4. ASSUME NEW s \in 1 .. MaxBlock, RecoverSnapshot(s) PROVE Goal
    <3> DEFINE q == Restage(queue)
               B == Buffered(s, Range(q.staged))
    <3>1. QueueOK(q) /\ q.values = <<>> /\ ~q.overflowed /\ Range(q.staged) = EntriesOf(queue)
      BY Zenon, <1>0, StageResult DEF QueueInv, Restage
    <3>2. /\ MayInstall(B) /\ state' = ReplayHandoff(FromSnapshot(s), B) /\ queue' = CompleteRecovery(q)
          /\ \E c : reducer' = [reducer EXCEPT !.pc = "loop", !.consumed = c]
          /\ sub' = sub /\ recovery.pc = "snapshot" /\ s \in recovery.asked .. head
      BY Zenon, <2>1, <2>4 DEF RecoverSnapshot, env
    <3>3. reducer'.held = <<>> /\ queue'.values = <<>>
      <4> HIDE DEF q
      <4> QED BY Zenon, <1>d, <2>0, <3>1, <3>2, CompleteResult
    <3>4. HandsOff(recovery.asked, EntriesOf(queue)) /\ ~HasBarrier(B)
      BY Zenon, <3>2 DEF MayInstall, RecoveryInv
    <3>5. EntriesOf(queue) \in SUBSET Items /\ \A x \in EntriesOf(queue) : x.at <= told
      <4>1. queue.values \in Seq(Items) /\ queue.staged \in Seq(Items)
        BY <1>0 DEF QueueInv, QueueOK, QueueTypes
      <4>2. EntriesOf(queue) \subseteq Items
        BY Zenon, <4>1, EntrySets DEF EntriesOf
      <4> QED BY Zenon, <1>0, <4>2 DEF QueueInv, Within
    <3>6. recovery.asked \in Nat /\ s \in Nat /\ recovery.asked <= s
      <4>1. recovery.asked \in Nat
        BY Zenon, <1>0 DEF TaskLink
      <4> QED BY <1>0, <3>2, <4>1
    <3>7. B = {x \in EntriesOf(queue) : ~SnapshotCoversUpdate(s, x)}
      BY Zenon, <3>1 DEF Buffered
    <3>8. ASSUME NEW x \in EntriesOf(queue) \ B PROVE IsBarrier(x) /\ x.at <= s
      <4>1. SnapshotCoversUpdate(s, x)
        BY Zenon, <3>7
      <4>2. x.at \in Nat
        BY <3>5 DEF Items
      <4>3. IsBarrier(x) /\ (x.at # None => s >= x.at)
        BY Zenon, <4>1 DEF SnapshotCoversUpdate
      <4>4. x.at <= s
        BY <3>6, <4>2, <4>3 DEF None
      <4> QED BY Zenon, <4>3, <4>4
    <3>9. B \in SUBSET EntriesOf(queue)
      BY Zenon, <3>7
    <3> HIDE DEF B, q
    <3>10. Complete(state') /\ Joins(state', sub.next)
      BY Zenon, <1>0, <3>2, <3>4, <3>5, <3>6, <3>8, <3>9, HandoffCompletes
    <3> QED BY Zenon, <1>s, <3>2, <3>3, <3>10
  <2> QED BY Zenon, <1>5, <2>2, <2>3, <2>4 DEF Recover
<1>6. CASE Shutdown
  BY Zenon, <1>a, <1>6 DEF Shutdown
<1>7. CASE ShutdownPump
  <2>1. stop'.source = stop.source /\ stop.source
    BY Zenon, <1>0, <1>d, <1>7 DEF ShutdownPump, PumpInv
  <2> QED BY Zenon, <1>t, <2>1
<1>8. CASE ShutdownReducer
  <2>1. stop'.source = stop.source /\ stop.source
    BY Zenon, <1>0, <1>d, <1>8 DEF ShutdownReducer, PumpInv
  <2> QED BY Zenon, <1>t, <2>1
<1>9. ASSUME NEW r \in Requests, Request(r) PROVE Goal
  <2>1. state' # NotReady(state)
    BY Zenon, <1>d, NotReadyFacts
  <2>2. UNCHANGED <<conn, sub, state, reducer, queue>>
    BY Zenon, <1>9, <2>1 DEF Request, env
  <2> QED BY Zenon, <1>k, <2>2 DEF Pending
<1> QED BY Zenon, <1>1, <1>2, <1>3, <1>4, <1>5, <1>6, <1>7, <1>8, <1>9 DEF Next

(* A client starts with nothing delivered and nothing missing.             *)
LEMMA CompleteInit == Init => CompleteInv
<1> SUFFICES ASSUME Init PROVE TasksInv /\ RecoveryInv /\ BootstrapInv /\ ReadyInv
  BY Zenon DEF CompleteInv
<1>0. head \in Nat
  BY ConnectedClientAssumption DEF Init
<1>1. conn.pc = "activity" /\ pump.pc = "subscribing" /\ ~pump.ever /\ recovery.pc = "none"
  BY Zenon DEF Init, NoRecovery
<1>2. TasksInv
  <2>1. DOMAIN state = StateFields
    BY Zenon DEF Init, NotReady, FromSnapshot, StateFields
  <2>2. recovery.lease = 0 /\ activity.generation = 0 /\ ~activity.active
    BY Zenon DEF Init, NoRecovery
  <2>3. ~stop.source /\ ~queue.ended /\ reducer.valid
    BY Zenon DEF Init
  <2> QED BY <1>1, <2>1, <2>2, <2>3 DEF TasksInv
<1>3. sub.next = sub.base + 1 /\ sub.base \in Nat
  BY <1>0 DEF Init
<1>4. RecoveryInv
  BY <1>1, <1>3 DEF RecoveryInv
<1>5. BootstrapInv
  <2>1. queue.values = <<>> /\ Range(queue.values) = {}
    BY Zenon, EntrySets DEF Init
  <2>2. sub.base + 1 .. sub.next - 1 = {}
    BY <1>3
  <2>3. HandsOff(sub.base, Range(queue.values))
    BY Zenon, <2>1, <2>2 DEF HandsOff
  <2> QED BY <1>1, <2>1, <2>3 DEF BootstrapInv
<1>6. ReadyInv
  BY <1>1 DEF ReadyInv
<1> QED BY Zenon, <1>2, <1>4, <1>5, <1>6

(* Where every block is that the state of a ready client may still lack,   *)
(* through overflow, lost subscriptions, recoveries and the hand-off to a  *)
(* new snapshot (installSnapshot, replayHandoff, bootstrapIndexer).        *)
THEOREM CompletenessInvariant == Spec => []CompleteInv
<1>1. QueueInvariant /\ CompleteInv /\ [Next]_vars => CompleteInv'
  <2> SUFFICES ASSUME QueueInvariant, CompleteInv, [Next]_vars, Tame'
               PROVE  TasksInv' /\ RecoveryInv' /\ BootstrapInv' /\ ReadyInv'
    BY Zenon DEF CompleteInv
  <2>1. SourceTypes
    BY Zenon DEF QueueInvariant
  <2>2. SourceTypes' /\ told' >= told /\ options' = options
    BY Zenon, <2>1, SourceStep
  <2>3. told' \in Nat
    BY Zenon, <2>2 DEF SourceTypes
  <2>4. Tame
    BY Zenon, <2>2 DEF Tame, ReadsLag, Checkpoint
  <2>5. TasksInv /\ RecoveryInv /\ BootstrapInv /\ ReadyInv
    BY Zenon, <2>4 DEF CompleteInv
  <2>6. TasksInv'
    BY Zenon, <2>2, <2>3, <2>4, <2>5, QueueLawsHold, TasksStep
  <2>7. RecoveryInv'
    BY Zenon, <2>2, <2>3, <2>4, <2>5, QueueLawsHold, RecoveryStep
  <2>8. BootstrapInv'
    BY Zenon, <2>2, <2>3, <2>4, <2>5, QueueLawsHold, BootstrapStep
  <2>9. ReadyInv'
    BY Zenon, <2>2, <2>3, <2>4, <2>5, <2>6, QueueLawsHold, ReadyStep
  <2> QED BY Zenon, <2>6, <2>7, <2>8, <2>9
<1> QED BY <1>1, CompleteInit, QueueInvariantHolds, PTL DEF Spec

(* A ready client has the log of every block up to the one it is at,       *)
(* whatever was lost, dropped by a full queue or left in the hand-off, for *)
(* every chain, capacity and number of faults, if its reads are not behind *)
(* the stream and it was given no checkpoint (installSnapshot,             *)
(* replayHandoff).                                                         *)
THEOREM ReadyClientIsComplete == Spec => []ReadyIsComplete
<1>1. CompleteInv => ReadyIsComplete
  BY Zenon DEF CompleteInv, Tame, ReadyInv, Complete, ReadyIsComplete
<1> QED BY <1>1, CompletenessInvariant, PTL
=============================================================================
