----------------------- MODULE ConnectedClientProofs -----------------------
(***************************************************************************)
(* The steps of the TypeScript client: what the operations of its bounded  *)
(* queue return, that each step of the source, the connection, the reducer *)
(* and the recovery keeps the queue accounted for, and that what was lost  *)
(* or left out is known to whoever could make the client ready.            *)
(*                                                                         *)
(* Two laws of the operators stand as the hypothesis QueueLaws; they are   *)
(* proved in ClientTheorems, which also has the theorems.                  *)
(***************************************************************************)
EXTENDS ConnectedClient, TLAPS

-----------------------------------------------------------------------------
(* Sequences of entries                                                    *)

Items == [kind : Kinds, at : Nat, seq : Nat]

(* The entries of the sequences that the queue builds.                     *)
LEMMA EntrySets ==
    /\ Range(<<>>) = {}
    /\ \A e : Range(<<e>>) = {e}
    /\ \A s, t \in Seq(Items) : Range(s \o t) = Range(s) \cup Range(t)
    /\ \A s \in Seq(Items), e \in Items : Range(Append(s, e)) = Range(s) \cup {e}
    /\ \A s \in Seq(Items) : s # <<>> => Range(s) = {Head(s)} \cup Range(Tail(s))
    /\ \A s \in Seq(Items) : Range(s) \subseteq Items
<1>1. Range(<<>>) = {}
  BY DEF Range
<1>2. ASSUME NEW e PROVE Range(<<e>>) = {e}
  BY DEF Range
<1>3. ASSUME NEW s \in Seq(Items), NEW t \in Seq(Items) PROVE Range(s \o t) = Range(s) \cup Range(t)
  <2>1. DOMAIN s = 1 .. Len(s) /\ DOMAIN t = 1 .. Len(t) /\ DOMAIN (s \o t) = 1 .. Len(s) + Len(t)
    OBVIOUS
  <2>2. \A i \in 1 .. Len(s) : (s \o t)[i] = s[i] /\ i \in 1 .. Len(s) + Len(t)
    OBVIOUS
  <2>3. \A i \in 1 .. Len(t) : (s \o t)[Len(s) + i] = t[i] /\ Len(s) + i \in 1 .. Len(s) + Len(t)
    OBVIOUS
  <2>4. ASSUME NEW i \in 1 .. Len(s) + Len(t), i \notin 1 .. Len(s)
        PROVE  (s \o t)[i] = t[i - Len(s)] /\ i - Len(s) \in 1 .. Len(t)
    BY <2>4
  <2> QED BY <2>1, <2>2, <2>3, <2>4 DEF Range
<1>4. ASSUME NEW s \in Seq(Items), NEW e \in Items PROVE Range(Append(s, e)) = Range(s) \cup {e}
  <2>1. Append(s, e) = s \o <<e>> /\ <<e>> \in Seq(Items)
    OBVIOUS
  <2> QED BY Zenon, <1>2, <1>3, <2>1
<1>5. ASSUME NEW s \in Seq(Items), s # <<>> PROVE Range(s) = {Head(s)} \cup Range(Tail(s))
  <2>1. <<Head(s)>> \in Seq(Items) /\ Tail(s) \in Seq(Items)
    BY <1>5
  <2>2. s = <<Head(s)>> \o Tail(s)
    BY <1>5
  <2> QED BY Zenon, <1>2, <1>3, <2>1, <2>2
<1>6. ASSUME NEW s \in Seq(Items) PROVE Range(s) \subseteq Items
  BY DEF Range
<1> QED BY Zenon, <1>1, <1>2, <1>3, <1>4, <1>5, <1>6

-----------------------------------------------------------------------------
(* Charges and maxima                                                      *)

(* What the proofs below use of SumCharges, which counts, and of Highest,  *)
(* the maximum of a set that need not be small.  Both are proved, from     *)
(* theorems about finite sets and well-founded orders, in ClientTheorems.  *)
ChargeLaw ==
    /\ SumCharges(<<>>) = 0
    /\ \A s \in Seq(Items) : SumCharges(s) \in Nat
    /\ \A e \in Items : SumCharges(<<e>>) = Charge(e)
    /\ \A s, t \in Seq(Items) : SumCharges(s \o t) = SumCharges(s) + SumCharges(t)
    /\ \A s \in Seq(Items), e \in Items : SumCharges(Append(s, e)) = SumCharges(s) + Charge(e)
    /\ \A s \in Seq(Items) : s # <<>> => SumCharges(s) = Charge(Head(s)) + SumCharges(Tail(s))

HighestLaw ==
    \A S \in SUBSET Nat, n \in Nat :
        (\A x \in S : x <= n) =>
            /\ Highest(S) \in S \cup {0} /\ Highest(S) \in Nat /\ Highest(S) <= n
            /\ \A x \in S : x <= Highest(S)

QueueLaws == ChargeLaw /\ HighestLaw

(* Charges add up.                                                         *)
LEMMA ChargeFacts ==
    ASSUME QueueLaws
    PROVE  /\ SumCharges(<<>>) = 0
           /\ \A s \in Seq(Items) : SumCharges(s) \in Nat
           /\ \A e \in Items : SumCharges(<<e>>) = Charge(e)
           /\ \A s, t \in Seq(Items) : SumCharges(s \o t) = SumCharges(s) + SumCharges(t)
           /\ \A s \in Seq(Items), e \in Items : SumCharges(Append(s, e)) = SumCharges(s) + Charge(e)
           /\ \A s \in Seq(Items) : s # <<>> => SumCharges(s) = Charge(Head(s)) + SumCharges(Tail(s))
BY Zenon DEF QueueLaws, ChargeLaw

(* Highest is the maximum of a bounded set, or 0.                          *)
LEMMA HighestIsMax ==
    ASSUME QueueLaws, NEW S \in SUBSET Nat, NEW n \in Nat, \A x \in S : x <= n
    PROVE  /\ Highest(S) \in S \cup {0} /\ Highest(S) \in Nat /\ Highest(S) <= n
           /\ \A x \in S : x <= Highest(S)
BY Zenon DEF QueueLaws, HighestLaw

-----------------------------------------------------------------------------
(* The operations of the queue                                             *)

QueueTypes ==
    [values : Seq(Items), staged : Seq(Items), bytes : Int, accepted : Nat, drained : Nat,
     ended : BOOLEAN, overflowed : BOOLEAN, recovering : BOOLEAN]

EntriesOf(q) == Range(q.values) \cup Range(q.staged)

Ordered(s) == \A i, j \in 1 .. Len(s) : i < j => s[i].seq < s[j].seq

(* The budget, an overflow that is one gap, and entries in the order in    *)
(* which they were accepted.                                               *)
QueueOK(q) ==
    /\ q \in QueueTypes
    /\ RetainedCount(q) <= Capacity
    /\ q.bytes = SumCharges(q.values) + SumCharges(q.staged) /\ q.bytes <= ByteCapacity
    /\ q.overflowed => Len(q.values) = 1 /\ q.values[1].kind = "Gap" /\ q.staged = <<>>
    /\ Ordered(q.values) /\ \A e \in EntriesOf(q) : e.seq <= q.accepted

(* No entry is of a block after n.                                         *)
Within(q, n) == \A e \in EntriesOf(q) : e.at <= n

(* The sequence of one entry.                                              *)
LEMMA OneEntry ==
    ASSUME NEW s \in Seq(Items), Len(s) = 1
    PROVE  s # <<>> /\ s = <<s[1]>> /\ Head(s) = s[1] /\ Tail(s) = <<>> /\ s[1] \in Items
<1>1. s # <<>> /\ s[1] \in Items /\ Head(s) = s[1]
  OBVIOUS
<1>2. Tail(s) \in Seq(Items) /\ Len(Tail(s)) = 0
  BY <1>1
<1>3. Tail(s) = <<>>
  <2>1. \A t \in Seq(Items) : Len(t) = 0 => t = <<>>
    OBVIOUS
  <2> QED BY Zenon, <1>2, <2>1
<1>4. s = <<Head(s)>> \o Tail(s)
  <2>1. \A t \in Seq(Items) : t # <<>> => t = <<Head(t)>> \o Tail(t)
    OBVIOUS
  <2> QED BY Zenon, <1>1, <2>1
<1>5. <<Head(s)>> \o <<>> = <<Head(s)>>
  BY <1>1
<1> QED BY Zenon, <1>1, <1>3, <1>4, <1>5

(* An entry numbered after all others keeps the order at the end, and the  *)
(* first one is before all others.                                         *)
LEMMA OrderKept ==
    ASSUME NEW s \in Seq(Items), Ordered(s)
    PROVE  /\ \A e \in Items : (\A f \in Range(s) : f.seq < e.seq) => Ordered(Append(s, e))
           /\ s # <<>> => Ordered(Tail(s)) /\ \A f \in Range(Tail(s)) : Head(s).seq < f.seq
<1>1. ASSUME NEW e \in Items, \A f \in Range(s) : f.seq < e.seq PROVE Ordered(Append(s, e))
  <2>1. \A i \in 1 .. Len(s) : s[i] \in Range(s)
    BY DEF Range
  <2>2. /\ Len(Append(s, e)) = Len(s) + 1 /\ Append(s, e)[Len(s) + 1] = e
        /\ \A i \in 1 .. Len(s) : Append(s, e)[i] = s[i]
    OBVIOUS
  <2>3. Len(s) \in Nat
    OBVIOUS
  <2> DEFINE t == Append(s, e)
  <2> HIDE DEF t
  <2>4. ASSUME NEW i \in 1 .. Len(s) + 1, NEW j \in 1 .. Len(s) + 1, i < j PROVE t[i].seq < t[j].seq
    <3>1. i \in 1 .. Len(s) /\ t[i] = s[i]
      BY <2>2, <2>3, <2>4 DEF t
    <3>2. CASE j \in 1 .. Len(s)
      BY Zenon, <2>2, <2>4, <3>1, <3>2 DEF t, Ordered
    <3>3. CASE j = Len(s) + 1
      BY Zenon, <1>1, <2>1, <2>2, <3>1, <3>3 DEF t
    <3> QED BY <2>3, <3>2, <3>3
  <2> QED BY Zenon, <2>2, <2>4 DEF Ordered, t
<1>2. ASSUME s # <<>> PROVE Ordered(Tail(s)) /\ \A f \in Range(Tail(s)) : Head(s).seq < f.seq
  <2>1. /\ Len(s) \in Nat \ {0} /\ Len(Tail(s)) = Len(s) - 1 /\ Head(s) = s[1]
        /\ DOMAIN Tail(s) = 1 .. Len(s) - 1
        /\ \A i \in 1 .. Len(s) - 1 : Tail(s)[i] = s[i + 1]
    BY <1>2
  <2>2. \A i \in 1 .. Len(s) - 1 : i + 1 \in 1 .. Len(s) /\ 1 < i + 1 /\ 1 \in 1 .. Len(s)
    BY <2>1
  <2>3. Ordered(Tail(s))
    BY <2>1, <2>2 DEF Ordered
  <2>4. \A i \in 1 .. Len(s) - 1 : Head(s).seq < Tail(s)[i].seq
    BY Zenon, <2>1, <2>2 DEF Ordered
  <2> QED BY Zenon, <2>1, <2>3, <2>4 DEF Range
<1> QED BY Zenon, <1>1, <1>2

(* The queue that holds the gap g alone.                                   *)
Collapsed(q, g) ==
    [q EXCEPT !.values     = IF q.recovering THEN <<>> ELSE <<g>>,
              !.staged     = IF q.recovering THEN <<g>> ELSE <<>>,
              !.bytes      = 1,
              !.accepted   = q.accepted + 1,
              !.overflowed = ~q.recovering]

(* Collapsing the queue leaves one gap, within the bounds.                 *)
LEMMA CollapseResult ==
    ASSUME QueueLaws, NEW q, QueueOK(q), NEW n \in Nat, Within(q, n),
           NEW u, u.kind \in Kinds, u.at \in Nat, u.at <= n
    PROVE  \E g \in Items :
             /\ g.kind = "Gap" /\ g.at <= n /\ g.seq = q.accepted + 1
             /\ CollapseOverflow(q, u) = Collapsed(q, g)
<1> DEFINE at == HighestRetainedCursor(q, u)
           all == {u} \cup Range(q.values) \cup Range(q.staged)
           g == Entry(Update("Gap", at), q.accepted + 1)
<1>1. at \in Nat /\ at <= n
  <2>1. \A e \in all : e.at \in Nat /\ e.at <= n
    <3>1. q.values \in Seq(Items) /\ q.staged \in Seq(Items)
      BY Zenon DEF QueueOK, QueueTypes
    <3>2. EntriesOf(q) \subseteq Items
      BY Zenon, <3>1, EntrySets DEF EntriesOf
    <3> QED BY Zenon, <3>2 DEF Within, EntriesOf, Items
  <2>2. CASE \E e \in all : IsUnknownGap(e)
    BY <2>2 DEF HighestRetainedCursor, None
  <2>3. CASE ~\E e \in all : IsUnknownGap(e)
    <3> DEFINE S == {e.at : e \in all}
    <3>1. S \in SUBSET Nat /\ \A x \in S : x <= n
      BY Zenon, <2>1
    <3>2. at = Highest(S)
      BY Zenon, <2>3 DEF HighestRetainedCursor
    <3> HIDE DEF S, at
    <3> QED BY Zenon, <3>1, <3>2, HighestIsMax
  <2> QED BY Zenon, <2>2, <2>3
<1> HIDE DEF at
<1>2. q.accepted \in Nat
  BY Zenon DEF QueueOK, QueueTypes
<1>3. g \in Items /\ g.kind = "Gap" /\ g.at <= n /\ g.seq = q.accepted + 1
  BY <1>1, <1>2 DEF Items, Entry, Update, Kinds
<1>4. Charge(Update("Gap", at)) = 1
  BY Zenon DEF Charge, Update
<1>5. CollapseOverflow(q, u) = Collapsed(q, g)
  BY Zenon, <1>4 DEF CollapseOverflow, Collapsed, at
<1> HIDE DEF g
<1> QED BY Zenon, <1>3, <1>5

(* The fields of a collapsed queue.                                        *)
LEMMA CollapsedFields ==
    ASSUME QueueLaws, NEW q \in QueueTypes, NEW g \in Items
    PROVE  LET p == Collapsed(q, g)
           IN  /\ p \in QueueTypes /\ p.bytes = 1 /\ p.accepted = q.accepted + 1
               /\ p.ended = q.ended /\ p.recovering = q.recovering
               /\ q.recovering => p.values = <<>> /\ p.staged = <<g>> /\ ~p.overflowed
               /\ ~q.recovering => p.values = <<g>> /\ p.staged = <<>> /\ p.overflowed
<1> DEFINE one == <<g>>
           none == <<>>
           a == q.accepted + 1
           yes == TRUE
           no == FALSE
           p == Collapsed(q, g)
<1>1. /\ none \in Seq(Items) /\ one \in Seq(Items) /\ a \in Nat /\ 1 \in Int
      /\ yes \in BOOLEAN /\ no \in BOOLEAN
  BY DEF QueueTypes
<1> HIDE DEF one, none, a, yes, no
<1>2. CASE q.recovering
  <2>1. p = [q EXCEPT !.values = none, !.staged = one, !.bytes = 1,
                                    !.accepted = a, !.overflowed = no]
    BY Zenon, <1>2 DEF Collapsed, one, none, a, yes, no
  <2> HIDE DEF p
  <2>2. /\ p \in QueueTypes /\ p.values = none /\ p.staged = one /\ p.bytes = 1 /\ p.accepted = a
        /\ p.overflowed = no /\ p.ended = q.ended /\ p.recovering = q.recovering
    BY Zenon, <1>1, <2>1 DEF QueueTypes
  <2> QED BY Zenon, <1>2, <2>2 DEF p, one, none, a, yes, no
<1>3. CASE ~q.recovering
  <2>1. p = [q EXCEPT !.values = one, !.staged = none, !.bytes = 1,
                                    !.accepted = a, !.overflowed = yes]
    BY Zenon, <1>3 DEF Collapsed, one, none, a, yes, no
  <2> HIDE DEF p
  <2>2. /\ p \in QueueTypes /\ p.values = one /\ p.staged = none /\ p.bytes = 1 /\ p.accepted = a
        /\ p.overflowed = yes /\ p.ended = q.ended /\ p.recovering = q.recovering
    BY Zenon, <1>1, <2>1 DEF QueueTypes
  <2> QED BY Zenon, <1>3, <2>2 DEF p, one, none, a, yes, no
<1> QED BY Zenon, <1>2, <1>3 DEF p

(* A queue of one gap is in order.                                         *)
LEMMA OneGap ==
    ASSUME QueueLaws, NEW q \in QueueTypes, NEW g \in Items, g.kind = "Gap", g.seq <= q.accepted, q.bytes = 1,
           \/ q.values = <<g>> /\ q.staged = <<>>
           \/ q.values = <<>> /\ q.staged = <<g>> /\ ~q.overflowed
    PROVE  QueueOK(q) /\ EntriesOf(q) = {g}
<1>1. SumCharges(<<>>) = 0 /\ SumCharges(<<g>>) = 1
  BY Zenon, ChargeFacts DEF Charge
<1>2. EntriesOf(q) = {g}
  BY Zenon, EntrySets DEF EntriesOf
<1>3. Len(<<>>) = 0 /\ Len(<<g>>) = 1 /\ <<g>>[1] = g
  BY Zenon
<1>4. Ordered(q.values)
  BY <1>3 DEF Ordered
<1>5. RetainedCount(q) = 1
  <2>1. CASE q.values = <<g>> /\ q.staged = <<>>
    BY <1>3, <2>1 DEF RetainedCount
  <2>2. CASE q.values = <<>> /\ q.staged = <<g>>
    BY <1>3, <2>2 DEF RetainedCount
  <2> QED BY Zenon, <2>1, <2>2
<1> QED BY <1>1, <1>2, <1>3, <1>4, <1>5, ConnectedClientAssumption DEF QueueOK

(* What pushing an update does, whichever of its cases applies.            *)
LEMMA PushResult ==
    ASSUME QueueLaws, NEW q, QueueOK(q), NEW n \in Nat, Within(q, n),
           NEW u, u.kind \in Kinds, u.at \in Nat, u.at <= n
    PROVE  LET p == PushCharged(q, u)
           IN  /\ QueueOK(p) /\ Within(p, n)
               /\ p.ended = q.ended /\ p.recovering = q.recovering
               /\ p.accepted >= q.accepted
               /\ \A e \in EntriesOf(p) :
                     e.seq > q.accepted \/ \E f \in EntriesOf(q) : f.seq = e.seq
               /\ ~q.recovering /\ q.staged = <<>> => p.staged = <<>>
               /\ Admitted(q, u) => /\ p.values = Append(q.values, Entry(u, q.accepted + 1))
                                    /\ p.staged = q.staged
               /\ ~Admitted(q, u) /\ ~q.ended /\ ~q.recovering => HasBarrier(Range(p.values))
               /\ q.ended => p = q
<1> DEFINE p == PushCharged(q, u)
<1>q. /\ q \in QueueTypes /\ q.values \in Seq(Items) /\ q.staged \in Seq(Items)
      /\ q.accepted \in Nat /\ q.bytes \in Int
      /\ q.overflowed \in BOOLEAN /\ q.ended \in BOOLEAN /\ q.recovering \in BOOLEAN
  BY Zenon DEF QueueOK, QueueTypes
<1>1. CASE q.ended
  <2>1. p = q /\ ~Admitted(q, u)
    BY Zenon, <1>1 DEF PushCharged, Admitted
  <2>2. q.accepted >= q.accepted
    BY <1>q
  <2> QED BY Zenon, <1>1, <2>1, <2>2
<1>2. CASE ~q.ended /\ q.overflowed
  <2>1. Len(q.values) = 1 /\ q.values[1].kind = "Gap"
    BY Zenon, <1>2 DEF QueueOK
  <2> DEFINE gap == q.values[1]
             at == IF IsUnknownGap(u) \/ gap.at = None THEN None ELSE Highest({gap.at, u.at})
             g == [gap EXCEPT !.at = at]
  <2>2. q.values # <<>> /\ Head(q.values) = gap /\ Tail(q.values) = <<>> /\ gap \in Items /\ gap \in EntriesOf(q)
    <3>1. q.values # <<>> /\ Head(q.values) = gap /\ Tail(q.values) = <<>> /\ gap \in Items
      BY Zenon, <1>q, <2>1, OneEntry
    <3>2. gap \in Range(q.values)
      BY Zenon, <1>q, <3>1, EntrySets
    <3> QED BY Zenon, <3>1, <3>2 DEF EntriesOf
  <2>3. at \in Nat /\ at <= n
    <3>1. gap.at \in Nat /\ gap.at <= n
      BY Zenon, <2>2 DEF Items, Within
    <3>2. {gap.at, u.at} \in SUBSET Nat /\ \A x \in {gap.at, u.at} : x <= n
      BY Zenon, <3>1
    <3> QED BY <3>2, HighestIsMax DEF None
  <2> HIDE DEF at
  <2>4. g \in Items /\ g.kind = "Gap" /\ g.at = at /\ g.seq = gap.seq
    BY Zenon, <2>1, <2>2, <2>3 DEF Items
  <2>5. p = [q EXCEPT !.values = <<g>>, !.bytes = 1]
    <3>1. p = ExtendOverflowWatermark(q, u)
      BY Zenon, <1>2 DEF PushCharged
    <3>2. Charge(gap) = 1
      BY Zenon, <2>1 DEF Charge
    <3>3. Append(<<>>, g) = <<g>>
      OBVIOUS
    <3> QED BY Zenon, <2>1, <2>2, <3>1, <3>2, <3>3 DEF ExtendOverflowWatermark, at
  <2>6. /\ p \in QueueTypes /\ p.values = <<g>> /\ p.staged = <<>> /\ p.bytes = 1 /\ p.accepted = q.accepted
        /\ p.ended = q.ended /\ p.recovering = q.recovering
    <3> DEFINE v == <<g>>
    <3>1. v \in Seq(Items) /\ p = [q EXCEPT !.values = v, !.bytes = 1]
      BY <2>4, <2>5
    <3> HIDE DEF v, p
    <3>2. /\ p \in QueueTypes /\ p.values = v /\ p.staged = q.staged /\ p.bytes = 1
          /\ p.accepted = q.accepted /\ p.ended = q.ended /\ p.recovering = q.recovering
      <4>1. q \in QueueTypes /\ 1 \in Int
        BY <1>q
      <4> QED BY Zenon, <3>1, <4>1 DEF QueueTypes
    <3>3. q.staged = <<>>
      BY Zenon, <1>2 DEF QueueOK
    <3> QED BY Zenon, <3>2, <3>3 DEF v
  <2>7. gap.seq \in Nat /\ gap.seq <= q.accepted
    BY Zenon, <2>2 DEF QueueOK, Items
  <2> HIDE DEF p, g, gap
  <2>8. QueueOK(p) /\ EntriesOf(p) = {g}
    BY Zenon, <2>4, <2>6, <2>7, OneGap
  <2>9. Within(p, n)
    BY Zenon, <2>3, <2>4, <2>8 DEF Within
  <2>10. HasBarrier(Range(p.values))
    <3>1. Range(<<g>>) = {g}
      BY Zenon, EntrySets
    <3> QED BY Zenon, <2>4, <2>6, <3>1 DEF HasBarrier, IsBarrier
  <2>11. \A e \in EntriesOf(p) : \E f \in EntriesOf(q) : f.seq = e.seq
    BY Zenon, <2>2, <2>4, <2>8
  <2>12. p.accepted >= q.accepted
    BY <1>q, <2>6
  <2> QED BY Zenon, <1>2, <2>6, <2>8, <2>9, <2>10, <2>11, <2>12 DEF Admitted, p
<1>3. CASE ~q.ended /\ ~q.overflowed /\ Fits(q, u)
  <2> DEFINE e == Entry(u, q.accepted + 1)
  <2>1. p = [q EXCEPT !.values = Append(q.values, e), !.bytes = q.bytes + Charge(u),
                      !.accepted = q.accepted + 1]
    BY Zenon, <1>3 DEF PushCharged
  <2>2. e \in Items /\ e.at = u.at /\ e.seq = q.accepted + 1 /\ Charge(e) = Charge(u) /\ Charge(u) \in Nat
    BY <1>q DEF Entry, Items, Charge
  <2> HIDE DEF e, p
  <2>3. /\ p \in QueueTypes /\ p.values = Append(q.values, e) /\ p.staged = q.staged
        /\ p.bytes = q.bytes + Charge(u) /\ p.accepted = q.accepted + 1
        /\ p.overflowed = q.overflowed /\ p.ended = q.ended /\ p.recovering = q.recovering
    <3> DEFINE v == Append(q.values, e)
               b == q.bytes + Charge(u)
               a == q.accepted + 1
    <3>1. v \in Seq(Items) /\ b \in Int /\ a \in Nat /\ p = [q EXCEPT !.values = v, !.bytes = b, !.accepted = a]
      BY <1>q, <2>1, <2>2
    <3> HIDE DEF v, b, a
    <3>2. /\ p \in QueueTypes /\ p.values = v /\ p.staged = q.staged /\ p.bytes = b /\ p.accepted = a
          /\ p.overflowed = q.overflowed /\ p.ended = q.ended /\ p.recovering = q.recovering
      BY Zenon, <1>q, <3>1 DEF QueueTypes
    <3> QED BY Zenon, <3>2 DEF v, b, a
  <2>4. EntriesOf(p) = EntriesOf(q) \cup {e}
    BY <1>q, <2>2, <2>3, EntrySets DEF EntriesOf
  <2>5. SumCharges(p.values) = SumCharges(q.values) + Charge(u) /\ SumCharges(q.values) \in Nat /\ SumCharges(q.staged) \in Nat
    BY Zenon, <1>q, <2>2, <2>3, ChargeFacts
  <2>6. RetainedCount(p) <= Capacity /\ p.bytes <= ByteCapacity
    <3>1. Len(Append(q.values, e)) = Len(q.values) + 1 /\ Len(q.values) \in Nat /\ Len(q.staged) \in Nat
      BY <1>q, <2>2
    <3>2. Len(q.values) + Len(q.staged) < Capacity /\ Charge(u) <= ByteCapacity - q.bytes
      BY Zenon, <1>3 DEF Fits, RetainedCount
    <3>3. RetainedCount(p) = Len(q.values) + 1 + Len(q.staged)
      BY Zenon, <2>3, <3>1 DEF RetainedCount
    <3>4. Capacity \in Nat /\ ByteCapacity \in Nat
      BY Zenon, ConnectedClientAssumption
    <3>5. RetainedCount(p) <= Capacity
      <4> DEFINE i == Len(q.values)
                 j == Len(q.staged)
      <4>1. i \in Nat /\ j \in Nat /\ i + j < Capacity /\ RetainedCount(p) = i + 1 + j /\ Capacity \in Nat
        BY Zenon, <3>1, <3>2, <3>3, <3>4
      <4> HIDE DEF i, j
      <4> QED BY <4>1
    <3>6. q.bytes \in Int /\ Charge(u) \in Nat
      BY Zenon, <1>q, <2>2
    <3> QED BY <2>3, <3>2, <3>4, <3>5, <3>6
  <2>8. \A f \in EntriesOf(q) : f.seq \in Nat /\ f.seq <= q.accepted
    <3>1. EntriesOf(q) \subseteq Items
      BY Zenon, <1>q, EntrySets DEF EntriesOf
    <3> QED BY Zenon, <3>1 DEF QueueOK, Items
  <2>9. QueueOK(p)
    <3>0. Ordered(p.values)
      <4>1. \A f \in Range(q.values) : f.seq < e.seq
        BY <1>q, <2>2, <2>8 DEF EntriesOf
      <4>2. Ordered(q.values)
        BY Zenon DEF QueueOK
      <4> QED BY Zenon, <1>q, <2>2, <2>3, <4>1, <4>2, OrderKept
    <3>1. p.bytes = SumCharges(p.values) + SumCharges(p.staged)
      BY <1>q, <2>2, <2>3, <2>5 DEF QueueOK
    <3>2. \A f \in EntriesOf(p) : f.seq <= p.accepted
      BY <1>q, <2>2, <2>3, <2>4, <2>8
    <3> QED BY Zenon, <1>3, <2>3, <2>6, <3>0, <3>1, <3>2 DEF QueueOK
  <2>10. Within(p, n)
    BY Zenon, <2>2, <2>4 DEF Within
  <2>11. \A f \in EntriesOf(p) : f.seq > q.accepted \/ \E h \in EntriesOf(q) : h.seq = f.seq
    BY <1>q, <2>2, <2>4
  <2> QED BY <1>3, <1>q, <2>3, <2>9, <2>10, <2>11 DEF Admitted, p, e
<1>4. CASE ~q.ended /\ ~q.overflowed /\ ~Fits(q, u)
  <2>1. PICK g \in Items : g.kind = "Gap" /\ g.at <= n /\ g.seq = q.accepted + 1 /\ p = Collapsed(q, g)
    <3>1. p = CollapseOverflow(q, u)
      BY Zenon, <1>4 DEF PushCharged
    <3> HIDE DEF p
    <3> QED BY Zenon, <3>1, CollapseResult
  <2> HIDE DEF p
  <2>2. /\ p \in QueueTypes /\ p.bytes = 1 /\ p.accepted = q.accepted + 1
        /\ p.ended = q.ended /\ p.recovering = q.recovering
        /\ q.recovering => p.values = <<>> /\ p.staged = <<g>> /\ ~p.overflowed
        /\ ~q.recovering => p.values = <<g>> /\ p.staged = <<>>
    BY Zenon, <1>q, <2>1, CollapsedFields
  <2>3. QueueOK(p) /\ EntriesOf(p) = {g}
    <3>1. g.seq <= p.accepted
      BY <1>q, <2>1, <2>2
    <3>2. CASE q.recovering
      BY Zenon, <2>1, <2>2, <3>1, <3>2, OneGap
    <3>3. CASE ~q.recovering
      BY Zenon, <2>1, <2>2, <3>1, <3>3, OneGap
    <3> QED BY Zenon, <3>2, <3>3
  <2>4. Within(p, n)
    BY Zenon, <2>1, <2>3 DEF Within
  <2>5. ~q.recovering => HasBarrier(Range(p.values))
    <3>1. Range(<<g>>) = {g}
      BY Zenon, EntrySets
    <3> QED BY Zenon, <2>1, <2>2, <3>1 DEF HasBarrier, IsBarrier
  <2>6. p.accepted >= q.accepted /\ g.seq > q.accepted
    BY <1>q, <2>1, <2>2
  <2> QED BY Zenon, <1>4, <1>q, <2>2, <2>3, <2>4, <2>5, <2>6 DEF Admitted, p
<1> QED BY Zenon, <1>1, <1>2, <1>3, <1>4, <1>q

(* Taking the first entry.                                                 *)
LEMMA TakeResult ==
    ASSUME QueueLaws, NEW q, QueueOK(q), q.values # <<>>
    PROVE  LET p == Take(q)
           IN  /\ QueueOK(p) /\ p.values = Tail(q.values) /\ p.staged = q.staged
               /\ p.ended = q.ended /\ p.recovering = q.recovering /\ p.accepted = q.accepted
               /\ EntriesOf(q) = EntriesOf(p) \cup {Head(q.values)}
               /\ Head(q.values) \in Items
               /\ \A e \in Range(p.values) : Head(q.values).seq < e.seq
<1> DEFINE p == Take(q)
           v == Tail(q.values)
           h == Head(q.values)
           b == q.bytes - Charge(h)
           o == q.overflowed /\ Len(q.values) > 1
<1>q. q \in QueueTypes /\ q.values \in Seq(Items) /\ q.staged \in Seq(Items) /\ q.bytes \in Int
  BY Zenon DEF QueueOK, QueueTypes
<1>1. /\ v \in Seq(Items) /\ h \in Items /\ b \in Int /\ o \in BOOLEAN
      /\ p = [q EXCEPT !.values = v, !.bytes = b, !.overflowed = o]
  BY <1>q DEF Take, Charge
<1>2. ~o
  <2>1. CASE q.overflowed
    <3>1. Len(q.values) = 1
      BY Zenon, <2>1 DEF QueueOK
    <3> QED BY <3>1
  <2> QED BY Zenon, <2>1
<1>3. Len(q.values) \in Nat /\ Len(q.staged) \in Nat /\ Len(v) = Len(q.values) - 1
  BY <1>q
<1>4. SumCharges(q.values) = Charge(h) + SumCharges(v) /\ SumCharges(v) \in Nat /\ SumCharges(q.staged) \in Nat
  BY Zenon, <1>q, <1>1, ChargeFacts
<1>5. Ordered(v) /\ \A f \in Range(v) : h.seq < f.seq
  BY Zenon, <1>q, OrderKept DEF QueueOK
<1>6. Range(q.values) = {h} \cup Range(v)
  BY Zenon, <1>q, EntrySets
<1>7. q.bytes = SumCharges(q.values) + SumCharges(q.staged) /\ q.bytes <= ByteCapacity
  BY Zenon DEF QueueOK
<1>8. Len(q.values) + Len(q.staged) <= Capacity /\ Capacity \in Nat /\ ByteCapacity \in Nat
  BY Zenon, ConnectedClientAssumption DEF QueueOK, RetainedCount
<1>9. b = SumCharges(v) + SumCharges(q.staged) /\ b <= ByteCapacity
  <2>1. Charge(h) \in Nat
    BY Zenon DEF Charge
  <2> HIDE DEF h, v
  <2> QED BY <1>q, <1>4, <1>7, <1>8, <2>1
<1>10. Len(v) + Len(q.staged) <= Capacity
  <2> DEFINE i == Len(q.values)
             j == Len(q.staged)
             k == Len(v)
  <2>1. i \in Nat /\ j \in Nat /\ k = i - 1 /\ i + j <= Capacity /\ Capacity \in Nat
    BY Zenon, <1>3, <1>8
  <2> HIDE DEF i, j, k
  <2>2. k + j <= Capacity
    BY <2>1
  <2> QED BY Zenon, <2>2 DEF j, k
<1> HIDE DEF p, v, h, b, o
<1>11. /\ p \in QueueTypes /\ p.values = v /\ p.staged = q.staged /\ p.bytes = b /\ p.overflowed = o
       /\ p.ended = q.ended /\ p.recovering = q.recovering /\ p.accepted = q.accepted
  <2>1. q \in QueueTypes
    BY Zenon, <1>q
  <2> QED BY Zenon, <1>1, <2>1 DEF QueueTypes
<1>12. EntriesOf(q) = EntriesOf(p) \cup {h}
  BY Zenon, <1>6, <1>11 DEF EntriesOf
<1>13. QueueOK(p)
  <2>1. RetainedCount(p) <= Capacity
    BY Zenon, <1>10, <1>11 DEF RetainedCount
  <2>2. \A e \in EntriesOf(p) : e.seq <= p.accepted
    BY Zenon, <1>11, <1>12 DEF QueueOK
  <2> QED BY Zenon, <1>2, <1>5, <1>9, <1>11, <2>1, <2>2 DEF QueueOK
<1> QED BY Zenon, <1>1, <1>5, <1>11, <1>12, <1>13 DEF p, v, h

(* An empty queue is in order.                                             *)
LEMMA EmptyQueue ==
    ASSUME QueueLaws, NEW q \in QueueTypes, q.values = <<>>, q.staged = <<>>, q.bytes = 0, ~q.overflowed
    PROVE  QueueOK(q) /\ EntriesOf(q) = {}
<1>1. EntriesOf(q) = {}
  BY Zenon, EntrySets DEF EntriesOf
<1>2. Len(<<>>) = 0 /\ SumCharges(<<>>) = 0
  BY Zenon, ChargeFacts
<1>3. RetainedCount(q) = 0
  BY <1>2 DEF RetainedCount
<1>4. Ordered(<<>>)
  BY <1>2 DEF Ordered
<1> QED BY <1>1, <1>2, <1>3, <1>4, ConnectedClientAssumption DEF QueueOK

(* Moving the queued entries behind the staged ones.                       *)
LEMMA StageResult ==
    ASSUME QueueLaws, NEW q, QueueOK(q)
    PROVE  LET p == StageQueuedForRecovery(q)
           IN  /\ QueueOK(p) /\ p.values = <<>> /\ p.staged = q.staged \o q.values /\ p.recovering
               /\ Range(p.staged) = EntriesOf(q) /\ EntriesOf(p) = EntriesOf(q)
               /\ p.ended = q.ended /\ p.accepted = q.accepted /\ ~p.overflowed
<1> DEFINE p == StageQueuedForRecovery(q)
           v == <<>>
           w == q.staged \o q.values
           yes == TRUE
           no == FALSE
<1>q. q \in QueueTypes /\ q.values \in Seq(Items) /\ q.staged \in Seq(Items)
  BY Zenon DEF QueueOK, QueueTypes
<1>1. /\ v \in Seq(Items) /\ w \in Seq(Items) /\ yes \in BOOLEAN /\ no \in BOOLEAN
      /\ p = [q EXCEPT !.staged = w, !.values = v, !.recovering = yes, !.overflowed = no]
  BY <1>q DEF StageQueuedForRecovery
<1>2. Range(w) = EntriesOf(q) /\ Range(v) = {}
  BY <1>q, EntrySets DEF EntriesOf
<1>3. SumCharges(w) = SumCharges(q.values) + SumCharges(q.staged) /\ SumCharges(v) = 0 /\ SumCharges(w) \in Nat
  <2>1. SumCharges(w) = SumCharges(q.staged) + SumCharges(q.values)
    BY Zenon, <1>q, ChargeFacts
  <2>2. SumCharges(q.staged) \in Nat /\ SumCharges(q.values) \in Nat /\ SumCharges(v) = 0
    BY Zenon, <1>q, ChargeFacts
  <2> HIDE DEF w, v
  <2> QED BY <2>1, <2>2
<1>4. Len(w) = Len(q.staged) + Len(q.values) /\ Len(v) = 0 /\ Len(q.staged) \in Nat /\ Len(q.values) \in Nat
  BY <1>q
<1>5. Ordered(v)
  BY <1>4 DEF Ordered
<1> HIDE DEF p, v, w, yes, no
<1>6. /\ p \in QueueTypes /\ p.values = v /\ p.staged = w /\ p.bytes = q.bytes /\ p.accepted = q.accepted
      /\ p.ended = q.ended /\ p.overflowed = no /\ p.recovering = yes
  <2>1. q \in QueueTypes
    BY Zenon, <1>q
  <2> QED BY Zenon, <1>1, <2>1 DEF QueueTypes
<1>7. RetainedCount(p) = RetainedCount(q)
  <2> DEFINE i == Len(q.values)
             j == Len(q.staged)
  <2>1. i \in Nat /\ j \in Nat /\ RetainedCount(q) = i + j /\ RetainedCount(p) = 0 + (j + i)
    BY Zenon, <1>4, <1>6 DEF RetainedCount
  <2> HIDE DEF i, j
  <2> QED BY <2>1
<1>8. EntriesOf(p) = EntriesOf(q)
  BY Zenon, <1>2, <1>6 DEF EntriesOf
<1>9. q.bytes = SumCharges(v) + SumCharges(w)
  BY <1>3 DEF QueueOK
<1>10. QueueOK(p)
  BY Zenon, <1>5, <1>6, <1>7, <1>8, <1>9 DEF QueueOK, no
<1> QED BY Zenon, <1>2, <1>6, <1>8, <1>10 DEF p, v, w, yes, no

(* Releasing the staged entries of a queue that has no others.             *)
LEMMA CompleteResult ==
    ASSUME QueueLaws, NEW q, QueueOK(q), q.values = <<>>, ~q.overflowed
    PROVE  LET p == CompleteRecovery(q)
           IN  /\ QueueOK(p) /\ EntriesOf(p) = {} /\ p.values = <<>> /\ p.staged = <<>> /\ ~p.recovering
               /\ p.ended = q.ended /\ p.accepted = q.accepted /\ ~p.overflowed
<1> DEFINE p == CompleteRecovery(q)
           v == <<>>
           b == q.bytes - SumCharges(q.staged)
           no == FALSE
<1>q. q \in QueueTypes /\ q.staged \in Seq(Items) /\ q.bytes \in Int /\ q.accepted \in Nat
  BY Zenon DEF QueueOK, QueueTypes
<1>1. SumCharges(<<>>) = 0 /\ SumCharges(q.staged) \in Nat
  BY Zenon, <1>q, ChargeFacts
<1>2. b = 0 /\ b \in Int
  BY <1>q, <1>1 DEF QueueOK
<1>3. /\ v \in Seq(Items) /\ no \in BOOLEAN
      /\ p = [q EXCEPT !.bytes = b, !.staged = v, !.recovering = no, !.drained = q.accepted]
  BY DEF CompleteRecovery
<1> HIDE DEF p, v, b, no
<1>4. /\ p \in QueueTypes /\ p.values = q.values /\ p.staged = v /\ p.bytes = b /\ p.accepted = q.accepted
      /\ p.ended = q.ended /\ p.overflowed = q.overflowed /\ p.recovering = no
  <2>1. q \in QueueTypes /\ q.accepted \in Nat
    BY Zenon, <1>q
  <2> QED BY Zenon, <1>2, <1>3, <2>1 DEF QueueTypes
<1>5. QueueOK(p) /\ EntriesOf(p) = {}
  BY Zenon, <1>2, <1>4, EmptyQueue DEF v
<1> QED BY Zenon, <1>4, <1>5 DEF p, v, no

(* Releasing everything.                                                   *)
LEMMA AbortResult ==
    ASSUME QueueLaws, NEW q, QueueOK(q)
    PROVE  LET p == AbortRecovery(q)
           IN  /\ QueueOK(p) /\ EntriesOf(p) = {} /\ p.values = <<>> /\ p.staged = <<>> /\ ~p.recovering
               /\ p.ended = q.ended /\ p.accepted = q.accepted /\ ~p.overflowed
<1> DEFINE p == AbortRecovery(q)
           v == <<>>
           no == FALSE
<1>1. /\ v \in Seq(Items) /\ no \in BOOLEAN /\ q \in QueueTypes /\ 0 \in Int
      /\ p = [q EXCEPT !.values = v, !.staged = v, !.bytes = 0, !.recovering = no, !.overflowed = no]
  BY DEF AbortRecovery, QueueOK
<1> HIDE DEF p, v, no
<1>2. /\ p \in QueueTypes /\ p.values = v /\ p.staged = v /\ p.bytes = 0 /\ p.accepted = q.accepted
      /\ p.ended = q.ended /\ p.overflowed = no /\ p.recovering = no
  BY Zenon, <1>1 DEF QueueTypes
<1>3. QueueOK(p) /\ EntriesOf(p) = {}
  BY Zenon, <1>2, EmptyQueue DEF v, no
<1> QED BY Zenon, <1>2, <1>3 DEF p, v, no

(* Draining the queued entries of a queue that stages none.                *)
LEMMA DrainResult ==
    ASSUME QueueLaws, NEW q, QueueOK(q), q.staged = <<>>
    PROVE  LET p == DrainAll(q)
           IN  /\ QueueOK(p) /\ EntriesOf(p) = {} /\ p.values = <<>> /\ p.staged = <<>>
               /\ p.recovering = q.recovering /\ p.ended = q.ended /\ p.accepted = q.accepted /\ ~p.overflowed
<1> DEFINE p == DrainAll(q)
           v == <<>>
           b == q.bytes - SumCharges(q.values)
           no == FALSE
<1>q. q \in QueueTypes /\ q.values \in Seq(Items) /\ q.bytes \in Int /\ q.accepted \in Nat
  BY Zenon DEF QueueOK, QueueTypes
<1>1. SumCharges(<<>>) = 0 /\ SumCharges(q.values) \in Nat
  BY Zenon, <1>q, ChargeFacts
<1>2. b = 0 /\ b \in Int
  BY <1>q, <1>1 DEF QueueOK
<1>3. /\ v \in Seq(Items) /\ no \in BOOLEAN
      /\ p = [q EXCEPT !.values = v, !.bytes = b, !.drained = q.accepted, !.overflowed = no]
  BY DEF DrainAll
<1> HIDE DEF p, v, b, no
<1>4. /\ p \in QueueTypes /\ p.values = v /\ p.staged = q.staged /\ p.bytes = b /\ p.accepted = q.accepted
      /\ p.ended = q.ended /\ p.overflowed = no /\ p.recovering = q.recovering
  <2>1. q \in QueueTypes /\ q.accepted \in Nat
    BY Zenon, <1>q
  <2> QED BY Zenon, <1>2, <1>3, <2>1 DEF QueueTypes
<1>5. QueueOK(p) /\ EntriesOf(p) = {}
  BY Zenon, <1>2, <1>4, EmptyQueue DEF v, no
<1> QED BY Zenon, <1>4, <1>5 DEF p, v, no

(* Closing the queue.                                                      *)
LEMMA CloseResult ==
    ASSUME QueueLaws, NEW q, QueueOK(q)
    PROVE  LET p == Close(q)
           IN  /\ QueueOK(p) /\ p.values = q.values /\ p.staged = q.staged /\ p.recovering = q.recovering
               /\ p.ended /\ p.accepted = q.accepted /\ EntriesOf(p) = EntriesOf(q)
<1> DEFINE p == Close(q)
           yes == TRUE
<1>1. q \in QueueTypes /\ yes \in BOOLEAN /\ p = [q EXCEPT !.ended = yes]
  BY Zenon DEF Close, QueueOK
<1> HIDE DEF p, yes
<1>2. /\ p \in QueueTypes /\ p.values = q.values /\ p.staged = q.staged /\ p.bytes = q.bytes
      /\ p.accepted = q.accepted /\ p.ended = yes /\ p.overflowed = q.overflowed /\ p.recovering = q.recovering
  BY Zenon, <1>1 DEF QueueTypes
<1>3. QueueOK(p) /\ EntriesOf(p) = EntriesOf(q)
  BY Zenon, <1>2 DEF QueueOK, EntriesOf, RetainedCount
<1> QED BY Zenon, <1>2, <1>3 DEF p, yes

(* Starting a recovery, with the entry that caused it if there is one.     *)
LEMMA BeginResult ==
    ASSUME QueueLaws, NEW q, QueueOK(q), NEW n \in Nat, Within(q, n),
           NEW failed \in Seq(Items), Len(failed) <= 1,
           \A e \in Range(failed) : e.at <= n /\ e.seq <= q.accepted
    PROVE  LET p == BeginRecovery(q, failed)
           IN  /\ QueueOK(p) /\ Within(p, n) /\ p.recovering /\ p.ended = q.ended
               /\ p.accepted >= q.accepted
               /\ \A e \in EntriesOf(p) : e.seq > q.accepted \/ e \in EntriesOf(q) \cup Range(failed)
<1> DEFINE p == BeginRecovery(q, failed)
           yes == TRUE
           no == FALSE
           started == [q EXCEPT !.recovering = TRUE]
<1>q. /\ q \in QueueTypes /\ q.values \in Seq(Items) /\ q.staged \in Seq(Items)
      /\ q.accepted \in Nat /\ q.bytes \in Int
  BY Zenon DEF QueueOK, QueueTypes
<1>b. yes \in BOOLEAN /\ no \in BOOLEAN /\ started = [q EXCEPT !.recovering = yes]
  BY Zenon
<1>s. /\ started \in QueueTypes /\ started.values = q.values /\ started.staged = q.staged
      /\ started.bytes = q.bytes /\ started.accepted = q.accepted /\ started.ended = q.ended
      /\ started.overflowed = q.overflowed /\ started.recovering = yes
  <2> HIDE DEF started, yes, no
  <2>1. q \in QueueTypes
    BY Zenon, <1>q
  <2> QED BY Zenon, <1>b, <2>1 DEF QueueTypes
<1>1. QueueOK(started) /\ EntriesOf(started) = EntriesOf(q) /\ Within(started, n)
  <2> HIDE DEF started
  <2>1. EntriesOf(started) = EntriesOf(q) /\ RetainedCount(started) = RetainedCount(q)
    BY Zenon, <1>s DEF EntriesOf, RetainedCount
  <2> QED BY Zenon, <1>s, <2>1 DEF QueueOK, Within
<1>2. ASSUME NEW k, QueueOK(k), k.recovering = yes, k.ended = q.ended
      PROVE  LET r == [k EXCEPT !.overflowed = FALSE]
             IN  /\ QueueOK(r) /\ EntriesOf(r) = EntriesOf(k) /\ r.recovering
                 /\ r.ended = q.ended /\ r.accepted = k.accepted
  <2> DEFINE r == [k EXCEPT !.overflowed = FALSE]
  <2>1. k \in QueueTypes /\ r = [k EXCEPT !.overflowed = no]
    BY Zenon, <1>2 DEF QueueOK
  <2> HIDE DEF r, yes, no
  <2>2. /\ r \in QueueTypes /\ r.values = k.values /\ r.staged = k.staged /\ r.bytes = k.bytes
        /\ r.accepted = k.accepted /\ r.ended = k.ended /\ r.overflowed = no /\ r.recovering = k.recovering
    BY Zenon, <1>b, <2>1 DEF QueueTypes
  <2>3. EntriesOf(r) = EntriesOf(k) /\ RetainedCount(r) = RetainedCount(k)
    BY Zenon, <2>2 DEF EntriesOf, RetainedCount
  <2>4. QueueOK(r)
    BY Zenon, <1>2, <2>2, <2>3 DEF QueueOK, no
  <2> QED BY Zenon, <1>2, <2>2, <2>3, <2>4 DEF r, yes
<1>3. CASE failed = <<>>
  <2>1. p = [started EXCEPT !.overflowed = FALSE]
    BY Zenon, <1>3 DEF BeginRecovery
  <2>2. q.accepted >= q.accepted
    BY <1>q
  <2> HIDE DEF started, yes
  <2>3. QueueOK(p) /\ EntriesOf(p) = EntriesOf(q) /\ p.recovering /\ p.ended = q.ended /\ p.accepted = q.accepted
    BY Zenon, <1>1, <1>2, <1>s, <2>1
  <2> QED BY Zenon, <2>2, <2>3 DEF Within
<1> DEFINE e == failed[1]
<1>4. ASSUME failed # <<>> PROVE failed = <<e>> /\ e \in Items /\ Range(failed) = {e} /\ e.at <= n /\ e.seq <= q.accepted
  <2>1. Len(failed) = 1
    <3> DEFINE l == Len(failed)
    <3>1. l \in Nat /\ l # 0 /\ l <= 1
      BY <1>4
    <3> HIDE DEF l
    <3>2. l = 1
      BY <3>1
    <3> QED BY Zenon, <3>2 DEF l
  <2>2. failed = <<e>> /\ e \in Items
    BY Zenon, <2>1, OneEntry
  <2>3. Range(<<e>>) = {e}
    BY Zenon, EntrySets
  <2> QED BY Zenon, <2>2, <2>3
<1>5. CASE failed # <<>> /\ Fits(q, e)
  <2> DEFINE w == q.staged \o failed
             b == q.bytes + Charge(e)
             k == [started EXCEPT !.staged = w, !.bytes = b]
  <2>1. p = [k EXCEPT !.overflowed = FALSE]
    BY Zenon, <1>5, <1>s DEF BeginRecovery
  <2>2. w \in Seq(Items) /\ b \in Int /\ Charge(e) \in Nat
    BY <1>q DEF Charge
  <2>3. Range(w) = Range(q.staged) \cup {e}
    BY <1>q, <1>4, <1>5, EntrySets
  <2>4. SumCharges(w) = SumCharges(q.staged) + Charge(e) /\ SumCharges(q.staged) \in Nat /\ SumCharges(q.values) \in Nat
    BY <1>q, <1>4, <1>5, ChargeFacts
  <2>5. Len(w) = Len(q.staged) + 1 /\ Len(q.staged) \in Nat /\ Len(q.values) \in Nat
    BY <1>q, <1>4, <1>5
  <2> DEFINE i == Len(q.values)
             j == Len(q.staged)
  <2>6. i \in Nat /\ j \in Nat /\ i + j < Capacity /\ Capacity \in Nat /\ Charge(e) <= ByteCapacity - q.bytes /\ ByteCapacity \in Nat
    BY Zenon, <1>5, <2>5, ConnectedClientAssumption DEF Fits, RetainedCount
  <2>7. b <= ByteCapacity /\ i + (j + 1) <= Capacity
    <3> HIDE DEF i, j, e
    <3>1. q.bytes \in Int
      BY Zenon, <1>q
    <3> QED BY <2>2, <2>6, <3>1
  <2>8. b = SumCharges(q.values) + SumCharges(w)
    <3> HIDE DEF e, w
    <3>1. q.bytes = SumCharges(q.values) + SumCharges(q.staged)
      BY Zenon DEF QueueOK
    <3> QED BY <2>2, <2>4, <3>1
  <2> HIDE DEF started, w, b, k
  <2>9. /\ k \in QueueTypes /\ k.values = q.values /\ k.staged = w /\ k.bytes = b /\ k.accepted = q.accepted
        /\ k.ended = q.ended /\ k.overflowed = q.overflowed /\ k.recovering = yes
    <3> HIDE DEF yes
    <3> QED BY Zenon, <1>s, <2>2 DEF QueueTypes, k
  <2>10. /\ p \in QueueTypes /\ p.values = q.values /\ p.staged = w /\ p.bytes = b /\ p.accepted = q.accepted
         /\ p.ended = q.ended /\ p.overflowed = no /\ p.recovering = yes
    <3>1. p = [k EXCEPT !.overflowed = no]
      BY Zenon, <2>1
    <3> HIDE DEF p, yes, no
    <3> QED BY Zenon, <1>b, <2>9, <3>1 DEF QueueTypes
  <2> HIDE DEF p
  <2>11. EntriesOf(p) = EntriesOf(q) \cup {e}
    BY Zenon, <2>3, <2>10 DEF EntriesOf
  <2>12. QueueOK(p)
    <3>1. RetainedCount(p) <= Capacity
      BY Zenon, <2>5, <2>7, <2>10 DEF RetainedCount
    <3>2. \A f \in EntriesOf(p) : f.seq <= p.accepted
      BY Zenon, <1>4, <1>5, <2>10, <2>11 DEF QueueOK
    <3>3. Ordered(p.values)
      BY Zenon, <2>10 DEF QueueOK
    <3> QED BY Zenon, <2>7, <2>8, <2>10, <3>1, <3>2, <3>3 DEF QueueOK
  <2>13. Within(p, n) /\ p.accepted >= q.accepted
    BY <1>4, <1>5, <1>q, <2>10, <2>11 DEF Within
  <2> HIDE DEF e
  <2> QED BY Zenon, <1>4, <1>5, <2>10, <2>11, <2>12, <2>13 DEF p
<1>6. CASE failed # <<>> /\ ~Fits(q, e)
  <2>1. PICK g \in Items : g.kind = "Gap" /\ g.at <= n /\ g.seq = started.accepted + 1
                           /\ CollapseOverflow(started, e) = Collapsed(started, g)
    <3>1. e.kind \in Kinds /\ e.at \in Nat /\ e.at <= n
      BY Zenon, <1>4, <1>6 DEF Items
    <3> HIDE DEF started, e
    <3> QED BY Zenon, <1>1, <3>1, CollapseResult
  <2> DEFINE k == Collapsed(started, g)
  <2>2. p = [k EXCEPT !.overflowed = FALSE]
    BY Zenon, <1>6, <2>1 DEF BeginRecovery
  <2> HIDE DEF started, k, p
  <2>3. /\ k \in QueueTypes /\ k.bytes = 1 /\ k.accepted = q.accepted + 1 /\ k.ended = q.ended /\ k.recovering = yes
        /\ k.values = <<>> /\ k.staged = <<g>> /\ ~k.overflowed
    BY Zenon, <1>s, <2>1, CollapsedFields DEF k, yes
  <2>4. g.seq <= k.accepted /\ g.seq > q.accepted /\ k.accepted >= q.accepted
    BY <1>q, <1>s, <2>1, <2>3
  <2>5. QueueOK(k) /\ EntriesOf(k) = {g}
    BY Zenon, <2>1, <2>3, <2>4, OneGap
  <2> HIDE DEF yes
  <2>6. QueueOK(p) /\ EntriesOf(p) = {g} /\ p.recovering /\ p.ended = q.ended /\ p.accepted = k.accepted
    BY Zenon, <1>2, <2>2, <2>3, <2>5
  <2> QED BY Zenon, <2>1, <2>4, <2>6 DEF Within, p
<1> QED BY Zenon, <1>3, <1>5, <1>6
-----------------------------------------------------------------------------
(* Types                                                                   *)

SourceTypes ==
    /\ options \in Options
    /\ head \in Nat /\ told \in Nat /\ faults \in Nat
    /\ sub \in [base : Nat, next : Nat] /\ sub.base < sub.next
    /\ DOMAIN pump = {"pc", "ever", "failed"}
    /\ DOMAIN activity = {"active", "generation"} /\ activity.generation \in Nat
    /\ DOMAIN conn = {"pc", "asked", "through"} /\ conn.asked \in Nat /\ conn.through \in Nat
    /\ DOMAIN stop = {"source", "reducer", "pc", "expired"}

(* The reducer holds at most one entry, taken before all that are queued;  *)
(* it stages entries only while it recovers, and what it has consumed is   *)
(* gone.                                                                   *)
ReducerInv ==
    /\ DOMAIN reducer = {"pc", "held", "consumed", "valid"}
    /\ reducer.held \in Seq(Items)
    /\ IF reducer.pc = "held" THEN Len(reducer.held) = 1 ELSE reducer.held = <<>>
    /\ \A e \in Range(reducer.held) :
          e.at <= told /\ e.seq <= queue.accepted /\ \A f \in Range(queue.values) : e.seq < f.seq
    /\ queue.recovering <=> reducer.pc = "recovering"
    /\ ~queue.recovering => queue.staged = <<>>
    /\ reducer.pc = "unborn" <=> conn.pc # "connected"

ConsumedInv ==
    /\ reducer.consumed \in Nat /\ reducer.consumed <= queue.accepted
    /\ conn.pc = "connected" /\ reducer.valid =>
          \A e \in EntriesOf(queue) \cup Range(reducer.held) : e.seq > reducer.consumed

QueueInv == QueueOK(queue) /\ Within(queue, told) /\ ReducerInv /\ ConsumedInv

(* The greater of two numbers, and a bound of a set.                       *)
LEMMA HighestOfTwo ==
    ASSUME NEW a \in Nat, NEW b \in Nat
    PROVE  Highest({a, b}) \in {a, b} /\ Highest({a, b}) >= a /\ Highest({a, b}) >= b
<1>1. \E m \in {a, b, 0} : \A x \in {a, b, 0} : m >= x
  OBVIOUS
<1>2. {a, b} \cup {None} = {a, b, 0}
  BY DEF None
<1>3. Highest({a, b}) = CHOOSE m \in {a, b, 0} : \A x \in {a, b, 0} : m >= x
  BY Zenon, <1>2 DEF Highest, Max
<1>4. Highest({a, b}) \in {a, b, 0} /\ \A x \in {a, b, 0} : Highest({a, b}) >= x
  BY Zenon, <1>1, <1>3
<1> QED BY <1>4

(* The oldest head a read may answer with, which is not behind the stream  *)
(* unless reads lag.                                                       *)
LEMMA ReadFloorFacts ==
    ASSUME SourceTypes
    PROVE  /\ ReadFloor \in Nat
           /\ ~ReadsLag => ReadFloor >= sub.base /\ ReadFloor >= told
<1>1. sub.base \in Nat /\ told \in Nat
  BY Zenon DEF SourceTypes
<1>2. Highest({sub.base, told}) \in Nat /\ Highest({sub.base, told}) >= sub.base /\ Highest({sub.base, told}) >= told
  BY Zenon, <1>1, HighestOfTwo
<1> QED BY Zenon, <1>1, <1>2 DEF ReadFloor

(* Every step keeps the types of the source, and the stream only tells of  *)
(* more.                                                                   *)
LEMMA SourceStep ==
    ASSUME SourceTypes, [Next]_vars
    PROVE  SourceTypes' /\ told' >= told /\ options' = options
<1> USE DEF SourceTypes
<1>0. ReadFloor \in Nat
  BY Zenon, ReadFloorFacts
<1>1. ASSUME NEW u, NEW next \in Nat, Receive(u, next), u.at \in Nat, sub.next <= next, UNCHANGED faults \/ Fault
      PROVE  SourceTypes' /\ told' >= told /\ options' = options
  <2>1. told' \in Nat /\ told' >= told
    <3>1. told' = Highest({told, u.at}) /\ told \in Nat
      BY Zenon, <1>1 DEF Receive
    <3> QED BY <1>1, <3>1, HighestOfTwo
  <2>2. sub' \in [base : Nat, next : Nat] /\ sub'.base < sub'.next
    BY <1>1 DEF Receive
  <2>3. faults' \in Nat
    BY <1>1 DEF Fault
  <2> QED BY <1>1, <2>1, <2>2, <2>3 DEF Receive, SetActive
<1>2. CASE NewBlock
  BY <1>2 DEF NewBlock
<1>3. CASE Pump
  <2>1. CASE ReceiveLog
    BY <1>1, <2>1 DEF ReceiveLog, Update
  <2>2. CASE ReceiveReorg
    BY <1>1, <2>2 DEF ReceiveReorg, Update
  <2>3. CASE ReceiveGap
    <3>1. PICK at \in {None} \cup (sub.next - 1 .. head) : Receive(Update("Gap", at), sub.next)
      BY Zenon, <2>3 DEF ReceiveGap
    <3>2. at \in Nat
      BY DEF None
    <3> QED BY <1>1, <2>3, <3>1, <3>2 DEF ReceiveGap, Update
  <2>4. CASE Subscribe
    BY <2>4 DEF Subscribe, SetActive
  <2>5. CASE SubscribeFails
    BY <2>5 DEF SubscribeFails, SetActive, Fault
  <2>6. CASE StreamEnds
    BY <2>6 DEF StreamEnds, SetActive, Fault
  <2>7. CASE StreamThrows
    BY <2>7 DEF StreamThrows, Fault
  <2>8. CASE StreamCancelled
    BY <2>8 DEF StreamCancelled, env
  <2>9. CASE StreamClosed
    BY <2>9 DEF StreamClosed, env, SetActive
  <2>10. CASE Reconnect
    BY <2>10 DEF Reconnect, env
  <2> QED BY Zenon, <1>3, <2>1, <2>2, <2>3, <2>4, <2>5, <2>6, <2>7, <2>8, <2>9, <2>10 DEF Pump
<1>4. CASE Connect
  <2>c. ASSUME NEW st, Connected(st) PROVE SourceTypes' /\ told' >= told /\ options' = options
    BY <2>c DEF Connected, env
  <2>f. ASSUME NEW st, FinishRestore(st) PROVE SourceTypes' /\ told' >= told /\ options' = options
    <3>1. CASE HasBarrier(Range(queue.values))
      <4>1. Await("snapshot") /\ UNCHANGED <<env, pump, activity, stop>>
        BY Zenon, <2>f, <3>1 DEF FinishRestore
      <4> QED BY <1>0, <4>1 DEF Await, env
    <3>2. CASE ~HasBarrier(Range(queue.values))
      BY Zenon, <2>c, <2>f, <3>2 DEF FinishRestore
    <3> QED BY Zenon, <3>1, <3>2
  <2>1. CASE BootstrapActive
    BY <1>0, <2>1 DEF BootstrapActive, Await, env
  <2>2. CASE ConnectFails
    BY <2>2 DEF ConnectFails, FailConnect, SetActive, Fault
  <2>3. ASSUME NEW valid \in BOOLEAN, CheckpointValidated(valid) PROVE SourceTypes' /\ told' >= told /\ options' = options
    BY <1>0, <2>3 DEF CheckpointValidated, Await, Fault
  <2>4. CASE RestoreHead
    <3>1. CASE Await("snapshot") /\ UNCHANGED <<env, pump, activity, stop>>
      BY <1>0, <3>1 DEF Await, env
    <3>2. ASSUME NEW h \in conn.asked .. head, conn' = [conn EXCEPT !.pc = "page", !.through = h],
                 UNCHANGED <<env, pump, activity, stop>>
          PROVE  SourceTypes' /\ told' >= told /\ options' = options
      BY <3>2 DEF env
    <3> QED BY Zenon, <2>4, <2>f, <3>1, <3>2 DEF RestoreHead
  <2>5. CASE RestorePage
    BY <2>5, <2>f DEF RestorePage, env
  <2>6. CASE RestoreFails
    BY <1>0, <2>6 DEF RestoreFails, Await, Fault
  <2>7. CASE SnapshotIndexer
    <3>1. ASSUME NEW q, FailConnect(q), UNCHANGED faults PROVE SourceTypes' /\ told' >= told /\ options' = options
      BY <3>1 DEF FailConnect, SetActive
    <3> QED BY Zenon, <2>7, <2>c, <3>1 DEF SnapshotIndexer
  <2> QED BY Zenon, <1>4, <2>1, <2>2, <2>3, <2>4, <2>5, <2>6, <2>7 DEF Connect
<1>5. ASSUME NEW st, FailReducer(st), UNCHANGED faults \/ Fault PROVE SourceTypes' /\ told' >= told /\ options' = options
  BY <1>5 DEF FailReducer, SetActive, Fault
<1>6. ASSUME NEW st, NEW c, NEW f, Run(st, c, f) PROVE SourceTypes' /\ told' >= told /\ options' = options
  <2>1. CASE stop.source
    BY Zenon, <1>5, <1>6, <2>1 DEF Run
  <2>2. CASE ~stop.source
    BY <1>6, <2>2 DEF Run, env
  <2> QED BY Zenon, <2>1, <2>2
<1>7. CASE Reduce
  <2>1. CASE ReduceLoop
    BY <1>6, <2>1 DEF ReduceLoop, env
  <2>2. CASE ReduceWoken
    BY <2>2 DEF ReduceWoken, env
  <2>3. CASE ReduceHeld
    BY <1>6, <2>3 DEF ReduceHeld, env
  <2> QED BY Zenon, <1>7, <2>1, <2>2, <2>3 DEF Reduce
<1>8. CASE Recover
  <2>0. ASSUME UNCHANGED <<env, pump, activity, conn, stop>> PROVE SourceTypes' /\ told' >= told /\ options' = options
    BY <2>0 DEF env
  <2>1. CASE RecoverLease \/ RecoverValidated \/ RecoverHead \/ RecoverRetries
    <3>1. UNCHANGED <<env, pump, activity, conn, stop>>
      BY Zenon, <2>1 DEF RecoverLease, RecoverValidated, RecoverHead, RecoverRetries
    <3> QED BY Zenon, <2>0, <3>1
  <2>2. CASE RecoverFails
    BY <2>2 DEF RecoverFails, Fault
  <2>3. CASE RecoverPermanent \/ RecoverAborted
    BY Zenon, <1>5, <2>3 DEF RecoverPermanent, RecoverAborted
  <2>4. ASSUME NEW s \in 1 .. MaxBlock, RecoverSnapshot(s) PROVE SourceTypes' /\ told' >= told /\ options' = options
    BY Zenon, <2>0, <2>4 DEF RecoverSnapshot
  <2> QED BY Zenon, <1>8, <2>1, <2>2, <2>3, <2>4 DEF Recover
<1>9. CASE Shutdown \/ ShutdownPump \/ ShutdownReducer
  <2>1. CASE Shutdown
    BY <2>1 DEF Shutdown, env, SetActive
  <2>2. CASE ShutdownPump
    <3>1. DOMAIN stop' = DOMAIN stop
      BY Zenon, <2>2 DEF ShutdownPump
    <3>2. UNCHANGED <<env, pump, activity, conn>>
      BY Zenon, <2>2 DEF ShutdownPump
    <3> QED BY <3>1, <3>2 DEF env
  <2>3. CASE ShutdownReducer
    <3>1. DOMAIN stop' = DOMAIN stop
      BY Zenon, <2>3 DEF ShutdownReducer
    <3>2. UNCHANGED <<env, pump, activity, conn>>
      BY Zenon, <2>3 DEF ShutdownReducer
    <3> QED BY <3>1, <3>2 DEF env
  <2> QED BY Zenon, <1>9, <2>1, <2>2, <2>3
<1>10. ASSUME NEW r \in Requests, Request(r) PROVE SourceTypes' /\ told' >= told /\ options' = options
  BY <1>10 DEF Request, env
<1>11. CASE UNCHANGED vars
  BY <1>11 DEF vars
<1> QED BY Zenon, <1>2, <1>3, <1>4, <1>7, <1>8, <1>9, <1>10, <1>11 DEF Next

-----------------------------------------------------------------------------
(* The tasks                                                               *)

(* The recovery and the reducer agree on whether there is a recovery.      *)
TaskLink ==
    /\ DOMAIN recovery = {"pc", "lease", "required", "cursorless", "through", "validated", "asked",
                          "pending", "barrier"}
    /\ recovery.lease \in Nat /\ recovery.asked \in Nat
    /\ recovery.pc # "none" <=> reducer.pc = "recovering"

(* Every step keeps the recovery and the reducer in agreement.             *)
LEMMA TaskStep ==
    ASSUME SourceTypes, QueueInv, TaskLink, [Next]_vars
    PROVE  TaskLink'
<1>r. DOMAIN reducer = {"pc", "held", "consumed", "valid"} /\ (reducer.pc = "unborn" <=> conn.pc # "connected")
  BY Zenon DEF QueueInv, ReducerInv
<1>t. activity.generation \in Nat /\ ReadFloor \in Nat
  BY Zenon, ReadFloorFacts DEF SourceTypes
<1>n. /\ DOMAIN NoRecovery = {"pc", "lease", "required", "cursorless", "through", "validated", "asked",
                              "pending", "barrier"}
      /\ NoRecovery.pc = "none" /\ NoRecovery.lease \in Nat /\ NoRecovery.asked \in Nat
  BY Zenon DEF NoRecovery
<1>l. /\ DOMAIN recovery = {"pc", "lease", "required", "cursorless", "through", "validated", "asked",
                            "pending", "barrier"}
      /\ recovery.lease \in Nat /\ recovery.asked \in Nat
      /\ recovery.pc # "none" <=> reducer.pc = "recovering"
  BY Zenon DEF TaskLink
<1> HIDE DEF NoRecovery
<1>k. ASSUME UNCHANGED recovery, reducer'.pc = "recovering" <=> reducer.pc = "recovering" PROVE TaskLink'
  BY Zenon, <1>k DEF TaskLink
<1>w. ASSUME NEW q, ResolveWaiters(q), UNCHANGED recovery PROVE TaskLink'
  BY Zenon, <1>k, <1>r, <1>w DEF ResolveWaiters
<1>1. CASE NewBlock
  BY Zenon, <1>1, <1>k DEF NewBlock
<1>2. CASE Pump
  <2>1. ASSUME NEW u, NEW next, Receive(u, next) PROVE TaskLink'
    BY Zenon, <1>w, <2>1 DEF Receive
  <2>2. CASE ReceiveLog \/ ReceiveReorg \/ ReceiveGap
    BY Zenon, <2>1, <2>2 DEF ReceiveLog, ReceiveReorg, ReceiveGap
  <2>3. CASE Subscribe \/ StreamThrows \/ StreamCancelled \/ Reconnect
    BY Zenon, <2>3, <1>k DEF Subscribe, StreamThrows, StreamCancelled, Reconnect
  <2>4. CASE SubscribeFails \/ StreamEnds \/ StreamClosed
    <3>1. CASE UNCHANGED <<reducer, recovery>>
      BY Zenon, <1>k, <3>1
    <3> QED BY Zenon, <2>4, <1>w, <3>1 DEF SubscribeFails, StreamEnds, StreamClosed
  <2> QED BY Zenon, <1>2, <2>2, <2>3, <2>4 DEF Pump
<1>3. CASE Connect
  <2>k. ASSUME UNCHANGED <<reducer, recovery>> PROVE TaskLink'
    BY Zenon, <1>k, <2>k
  <2>c. ASSUME NEW st, Connected(st), conn.pc # "connected" PROVE TaskLink'
    <3>1. recovery' = recovery /\ reducer'.pc = "loop" /\ reducer.pc = "unborn"
      BY Zenon, <1>r, <2>c DEF Connected
    <3> QED BY Zenon, <1>k, <3>1
  <2>f. ASSUME NEW st, FinishRestore(st), conn.pc # "connected" PROVE TaskLink'
    BY Zenon, <2>c, <2>f, <2>k DEF FinishRestore
  <2>1. CASE BootstrapActive \/ ConnectFails \/ RestoreFails \/ \E valid \in BOOLEAN : CheckpointValidated(valid)
    <3>1. UNCHANGED <<reducer, recovery>>
      BY Zenon, <2>1 DEF BootstrapActive, ConnectFails, FailConnect, RestoreFails, CheckpointValidated
    <3> QED BY Zenon, <2>k, <3>1
  <2>2. CASE RestoreHead
    BY Zenon, <2>2, <2>f, <2>k DEF RestoreHead
  <2>3. CASE RestorePage
    BY Zenon, <2>3, <2>f, <2>k DEF RestorePage
  <2>4. CASE SnapshotIndexer
    BY Zenon, <2>4, <2>c, <2>k DEF SnapshotIndexer, FailConnect
  <2> QED BY Zenon, <1>3, <2>1, <2>2, <2>3, <2>4 DEF Connect
<1>f. ASSUME NEW st, FailReducer(st) PROVE TaskLink'
  <2>1. recovery' = NoRecovery /\ reducer'.pc = "done"
    BY Zenon, <1>f, <1>r DEF FailReducer
  <2> QED BY Zenon, <1>n, <2>1 DEF TaskLink
<1>b. ASSUME NEW st, NEW c, NEW failed, Run(st, c, failed) PROVE TaskLink'
  <2>1. CASE stop.source
    BY Zenon, <1>b, <1>f, <2>1 DEF Run
  <2>2. CASE ~stop.source
    <3>1. PICK x : recovery' = [NoRecovery EXCEPT !.pc = "lease", !.required = x]
      BY Zenon, <1>b, <2>2 DEF Run
    <3>2. reducer'.pc = "recovering"
      BY Zenon, <1>b, <1>r, <2>2 DEF Run
    <3>3. DOMAIN recovery' = DOMAIN NoRecovery /\ recovery'.pc = "lease" /\ recovery'.lease = NoRecovery.lease
          /\ recovery'.asked = NoRecovery.asked
      BY Zenon, <1>n, <3>1
    <3> QED BY Zenon, <1>n, <3>2, <3>3 DEF TaskLink
  <2> QED BY Zenon, <2>1, <2>2
<1>4. CASE Reduce
  <2>1. CASE ReduceLoop
    <3>1. CASE UNCHANGED recovery /\ reducer'.pc # "recovering"
      BY Zenon, <1>k, <1>l, <2>1, <3>1 DEF ReduceLoop
    <3>2. CASE \E pc \in {"held", "woken", "waiting"} : UNCHANGED recovery /\ \E h : reducer' = [reducer EXCEPT !.pc = pc, !.held = h]
      BY Zenon, <1>r, <3>1, <3>2
    <3>3. CASE \E pc \in {"held", "woken", "waiting"} : UNCHANGED recovery /\ reducer' = [reducer EXCEPT !.pc = pc]
      BY Zenon, <1>r, <3>1, <3>3
    <3> QED BY Zenon, <1>b, <2>1, <3>2, <3>3 DEF ReduceLoop
  <2>2. CASE ReduceWoken
    <3>1. recovery' = recovery /\ reducer.pc = "woken" /\ reducer'.pc # "recovering"
      BY Zenon, <1>r, <2>2 DEF ReduceWoken
    <3> QED BY Zenon, <1>k, <3>1
  <2>3. CASE ReduceHeld
    <3>1. ASSUME NEW n, NEW v, reducer' = [reducer EXCEPT !.pc = "loop", !.held = <<>>, !.consumed = n, !.valid = v],
                 recovery' = recovery
          PROVE  TaskLink'
      <4>1. reducer'.pc = "loop" /\ reducer.pc = "held"
        BY Zenon, <1>r, <2>3, <3>1 DEF ReduceHeld
      <4> QED BY Zenon, <1>k, <3>1, <4>1
    <3> QED BY Zenon, <1>b, <2>3, <3>1 DEF ReduceHeld
  <2> QED BY Zenon, <1>4, <2>1, <2>2, <2>3 DEF Reduce
<1>5. CASE Recover
  <2>0. recovery.pc # "none" => reducer.pc = "recovering"
    BY Zenon, <1>l
  <2>x. ASSUME recovery.pc # "none", UNCHANGED reducer, DOMAIN recovery' = DOMAIN recovery, recovery'.pc # "none",
               recovery'.lease \in Nat, recovery'.asked \in Nat
        PROVE  TaskLink'
    BY Zenon, <1>l, <2>x DEF TaskLink
  <2>1. ASSUME NEW rec, StageAndRead(rec), UNCHANGED reducer, recovery.pc # "none", DOMAIN rec = DOMAIN recovery,
               rec.lease \in Nat
        PROVE  TaskLink'
    <3>1. /\ DOMAIN recovery' = DOMAIN rec /\ recovery'.pc \in {"head", "snapshot"}
          /\ recovery'.lease = rec.lease /\ recovery'.asked = ReadFloor
      BY Zenon, <1>l, <2>1 DEF StageAndRead
    <3> QED BY Zenon, <1>t, <2>1, <2>x, <3>1
  <2>2. CASE RecoverLease
    <3> DEFINE rec == [recovery EXCEPT !.lease = activity.generation]
    <3>1. DOMAIN rec = DOMAIN recovery /\ rec.lease \in Nat /\ rec.asked = recovery.asked
      BY Zenon, <1>l, <1>t
    <3>2. recovery.pc # "none" /\ UNCHANGED reducer
      BY Zenon, <2>2 DEF RecoverLease
    <3>3. StageAndRead(rec) \/ recovery' = [rec EXCEPT !.pc = "validate"]
      BY Zenon, <2>2 DEF RecoverLease
    <3> HIDE DEF rec
    <3> QED BY Zenon, <1>l, <2>1, <2>x, <3>1, <3>2, <3>3
  <2>3. CASE RecoverValidated
    <3> DEFINE rec == [recovery EXCEPT !.validated = TRUE]
    <3>1. DOMAIN rec = DOMAIN recovery /\ rec.lease = recovery.lease
      BY Zenon, <1>l
    <3>2. recovery.pc # "none" /\ UNCHANGED reducer /\ StageAndRead(rec)
      BY Zenon, <2>3 DEF RecoverValidated
    <3> HIDE DEF rec
    <3> QED BY Zenon, <1>l, <2>1, <3>1, <3>2
  <2>4. CASE RecoverHead \/ RecoverFails \/ RecoverRetries
    <3>1. recovery.pc # "none" /\ UNCHANGED reducer
      BY Zenon, <2>4 DEF RecoverHead, RecoverFails, RecoverRetries
    <3>2. /\ DOMAIN recovery' = DOMAIN recovery /\ recovery'.pc # "none" /\ recovery'.lease = recovery.lease
          /\ recovery'.asked \in {recovery.asked, ReadFloor}
      BY Zenon, <1>l, <2>4 DEF RecoverHead, RecoverFails, RecoverRetries
    <3> QED BY Zenon, <1>l, <1>t, <2>x, <3>1, <3>2
  <2>5. CASE RecoverPermanent \/ RecoverAborted
    BY Zenon, <1>f, <2>5 DEF RecoverPermanent, RecoverAborted
  <2>6. ASSUME NEW s \in 1 .. MaxBlock, RecoverSnapshot(s) PROVE TaskLink'
    <3>1. CASE UNCHANGED reducer /\ (recovery' = [recovery EXCEPT !.pc = "delay"]
                                     \/ \E x : recovery' = [recovery EXCEPT !.pc = "delay", !.required = x])
      BY Zenon, <1>l, <2>6, <2>x, <3>1 DEF RecoverSnapshot
    <3>2. CASE recovery' = NoRecovery /\ \E x : reducer' = [reducer EXCEPT !.pc = "loop", !.consumed = x]
      BY Zenon, <1>n, <1>r, <3>2 DEF TaskLink
    <3> QED BY Zenon, <2>6, <3>1, <3>2 DEF RecoverSnapshot
  <2> QED BY Zenon, <1>5, <2>2, <2>3, <2>4, <2>5, <2>6 DEF Recover
<1>6. CASE Shutdown \/ ShutdownReducer
  BY Zenon, <1>6, <1>k DEF Shutdown, ShutdownReducer
<1>7. CASE ShutdownPump
  BY Zenon, <1>7, <1>w DEF ShutdownPump
<1>8. ASSUME NEW r \in Requests, Request(r) PROVE TaskLink'
  BY Zenon, <1>8, <1>k, <1>r DEF Request
<1>9. CASE UNCHANGED vars
  BY Zenon, <1>9, <1>k DEF vars
<1> QED BY Zenon, <1>1, <1>2, <1>3, <1>4, <1>5, <1>6, <1>7, <1>8, <1>9 DEF Next

(* Only a task that reads a subscription is active, and a shutdown that is *)
(* past the pump has seen it end, unless its deadline passed.              *)
PumpInv ==
    /\ pump.pc \in {"subscribing", "delay", "done"} => ~activity.active
    /\ stop.pc # "running" => stop.source /\ conn.pc = "connected"
    /\ stop.pc \in {"reducer", "done"} /\ ~stop.expired => pump.pc = "done"

(* Every step keeps what is known of the pump.                             *)
LEMMA PumpStep ==
    ASSUME SourceTypes, QueueInv, PumpInv, [Next]_vars
    PROVE  PumpInv'
<1> USE DEF PumpInv, SourceTypes
<1>k. ASSUME UNCHANGED <<pump, stop>>, activity'.active => activity.active,
             conn'.pc = "connected" <=> conn.pc = "connected"
      PROVE  PumpInv'
  BY Zenon, <1>k
<1>a. SetActive(FALSE).active = FALSE
  BY Zenon DEF SetActive
<1>1. CASE NewBlock
  BY Zenon, <1>1 DEF NewBlock
<1>2. CASE Pump
  <2>1. ASSUME NEW u, NEW next, Receive(u, next) PROVE PumpInv'
    BY Zenon, <2>1 DEF Receive
  <2>2. CASE ReceiveLog \/ ReceiveReorg \/ ReceiveGap
    BY Zenon, <2>1, <2>2 DEF ReceiveLog, ReceiveReorg, ReceiveGap
  <2>3. CASE Subscribe
    BY Zenon, <2>3 DEF Subscribe
  <2>4. CASE SubscribeFails
    BY Zenon, <1>a, <2>4 DEF SubscribeFails
  <2>5. CASE StreamEnds \/ StreamThrows \/ StreamCancelled
    BY Zenon, <2>5 DEF StreamEnds, StreamThrows, StreamCancelled
  <2>6. CASE StreamClosed
    BY Zenon, <1>a, <2>6 DEF StreamClosed
  <2>7. CASE Reconnect
    BY Zenon, <2>7 DEF Reconnect
  <2> QED BY Zenon, <1>2, <2>2, <2>3, <2>4, <2>5, <2>6, <2>7 DEF Pump
<1>3. CASE Connect
  <2>0. ASSUME UNCHANGED <<pump, stop, activity>>, conn.pc # "connected" PROVE PumpInv'
    BY Zenon, <2>0
  <2>f. ASSUME NEW q, FailConnect(q), conn.pc # "connected" PROVE PumpInv'
    <3>1. stop' = [stop EXCEPT !.source = TRUE, !.reducer = TRUE] /\ activity' = SetActive(FALSE) /\ pump' = pump
      BY Zenon, <2>f DEF FailConnect
    <3>2. stop'.pc = stop.pc /\ stop.pc = "running"
      BY Zenon, <2>f, <3>1
    <3> QED BY Zenon, <1>a, <3>1, <3>2
  <2>r. ASSUME NEW st, FinishRestore(st) PROVE UNCHANGED <<pump, stop, activity>>
    BY Zenon, <2>r DEF FinishRestore, Connected
  <2>1. CASE BootstrapActive \/ RestoreFails \/ \E valid \in BOOLEAN : CheckpointValidated(valid)
    <3>1. conn.pc # "connected" /\ UNCHANGED <<pump, stop, activity>>
      BY Zenon, <2>1 DEF BootstrapActive, RestoreFails, CheckpointValidated
    <3> QED BY Zenon, <2>0, <3>1
  <2>2. CASE RestoreHead
    <3>1. conn.pc # "connected" /\ UNCHANGED <<pump, stop, activity>>
      BY Zenon, <2>2, <2>r DEF RestoreHead
    <3> QED BY Zenon, <2>0, <3>1
  <2>3. CASE RestorePage
    <3>1. conn.pc # "connected" /\ UNCHANGED <<pump, stop, activity>>
      BY Zenon, <2>3, <2>r DEF RestorePage
    <3> QED BY Zenon, <2>0, <3>1
  <2>4. CASE SnapshotIndexer
    <3>1. conn.pc # "connected"
      BY Zenon, <2>4 DEF SnapshotIndexer
    <3>2. CASE UNCHANGED <<pump, stop, activity>>
      BY Zenon, <2>0, <3>1, <3>2
    <3> QED BY Zenon, <2>4, <2>f, <3>1, <3>2 DEF SnapshotIndexer, Connected
  <2>5. CASE ConnectFails
    BY Zenon, <2>5, <2>f DEF ConnectFails
  <2> QED BY Zenon, <1>3, <2>1, <2>2, <2>3, <2>4, <2>5 DEF Connect
<1>f. ASSUME NEW st, FailReducer(st) PROVE PumpInv'
  <2>1. /\ stop' = [stop EXCEPT !.source = TRUE, !.reducer = TRUE] /\ activity' = SetActive(FALSE)
        /\ pump' = pump /\ conn' = conn
    BY Zenon, <1>f DEF FailReducer
  <2>2. stop'.pc = stop.pc /\ stop'.expired = stop.expired /\ stop'.source
    BY Zenon, <2>1
  <2> QED BY Zenon, <1>a, <2>1, <2>2
<1>b. ASSUME NEW st, NEW c, NEW failed, Run(st, c, failed) PROVE PumpInv'
  BY Zenon, <1>b, <1>f, <1>k DEF Run
<1>4. CASE Reduce
  <2>1. CASE UNCHANGED <<pump, stop, activity, conn>>
    BY Zenon, <1>k, <2>1
  <2> QED BY Zenon, <1>4, <1>b, <2>1 DEF Reduce, ReduceLoop, ReduceWoken, ReduceHeld
<1>5. CASE Recover
  <2>1. CASE UNCHANGED <<pump, stop, activity, conn>>
    BY Zenon, <1>k, <2>1
  <2> QED BY Zenon, <1>5, <1>f, <2>1 DEF Recover, RecoverLease, RecoverValidated, RecoverHead, RecoverFails, RecoverRetries,
                                  RecoverPermanent, RecoverAborted, RecoverSnapshot
<1>6. CASE Shutdown
  BY Zenon, <1>a, <1>6 DEF Shutdown
<1>7. CASE ShutdownPump
  <2>1. stop.pc = "pump" /\ UNCHANGED <<pump, activity, conn>>
    BY Zenon, <1>7 DEF ShutdownPump
  <2>2. CASE pump.pc = "done" /\ stop' = [stop EXCEPT !.pc = "reducer"]
    BY Zenon, <2>1, <2>2
  <2>3. CASE stop' = [stop EXCEPT !.pc = "reducer", !.expired = TRUE]
    <3>1. stop'.pc = "reducer" /\ stop'.expired /\ stop'.source = stop.source
      BY Zenon, <2>3
    <3> QED BY Zenon, <2>1, <3>1
  <2> QED BY Zenon, <1>7, <2>2, <2>3 DEF ShutdownPump
<1>8. CASE ShutdownReducer
  <2>1. stop.pc = "reducer" /\ UNCHANGED <<pump, activity, conn>>
    BY Zenon, <1>8 DEF ShutdownReducer
  <2>2. CASE stop' = [stop EXCEPT !.pc = "done", !.reducer = TRUE]
    <3>1. stop'.pc = "done" /\ stop'.expired = stop.expired /\ stop'.source = stop.source
      BY Zenon, <2>2
    <3> QED BY Zenon, <2>1, <3>1
  <2>3. CASE stop' = [stop EXCEPT !.pc = "done", !.reducer = TRUE, !.expired = TRUE]
    <3>1. stop'.pc = "done" /\ stop'.expired /\ stop'.source = stop.source
      BY Zenon, <2>3
    <3> QED BY Zenon, <2>1, <3>1
  <2> QED BY Zenon, <1>8, <2>2, <2>3 DEF ShutdownReducer
<1>9. ASSUME NEW r \in Requests, Request(r) PROVE PumpInv'
  BY Zenon, <1>9, <1>k DEF Request
<1>10. CASE UNCHANGED vars
  BY Zenon, <1>10, <1>k DEF vars
<1> QED BY Zenon, <1>1, <1>2, <1>3, <1>4, <1>5, <1>6, <1>7, <1>8, <1>9, <1>10 DEF Next

-----------------------------------------------------------------------------
(* The queue and the reducer                                               *)

(* A waiting reducer is handed the first entry of the new queue q, if any; *)
(* nothing is lost or reordered.                                           *)
LEMMA ResolveResult ==
    ASSUME QueueLaws, NEW q, QueueOK(q), ResolveWaiters(q),
           DOMAIN reducer = {"pc", "held", "consumed", "valid"}, reducer.held \in Seq(Items),
           reducer.pc # "held" => reducer.held = <<>>
    PROVE  /\ QueueOK(queue')
           /\ queue'.staged = q.staged /\ queue'.ended = q.ended /\ queue'.recovering = q.recovering
           /\ queue'.accepted = q.accepted
           /\ DOMAIN reducer' = DOMAIN reducer /\ reducer'.held \in Seq(Items)
           /\ reducer'.consumed = reducer.consumed /\ reducer'.valid = reducer.valid
           /\ EntriesOf(queue') \cup Range(reducer'.held) = EntriesOf(q) \cup Range(reducer.held)
           /\ reducer'.held \o queue'.values = reducer.held \o q.values
           /\ \/ queue' = q /\ reducer' = reducer
              \/ queue' = q /\ reducer.pc = "waiting" /\ reducer'.pc = "woken" /\ reducer'.held = reducer.held
              \/ /\ reducer.pc = "waiting" /\ reducer'.pc = "held" /\ Len(reducer'.held) = 1
                 /\ q.values # <<>> /\ reducer'.held = <<Head(q.values)>>
                 /\ queue'.values = Tail(q.values)
                 /\ \A e \in Range(reducer'.held) :
                       e \in EntriesOf(q) /\ \A f \in Range(queue'.values) : e.seq < f.seq
<1>1. CASE queue' = q /\ reducer' = reducer
  BY Zenon, <1>1
<1>2. CASE queue' = q /\ reducer' = [reducer EXCEPT !.pc = "woken"] /\ reducer.pc = "waiting"
  BY Zenon, <1>2
<1>3. CASE /\ reducer.pc = "waiting" /\ q.values # <<>> /\ queue' = Take(q)
           /\ reducer' = [reducer EXCEPT !.pc = "held", !.held = <<Head(q.values)>>]
  <2> DEFINE h == Head(q.values)
             one == <<h>>
  <2>1. /\ QueueOK(queue') /\ queue'.values = Tail(q.values) /\ queue'.staged = q.staged
        /\ queue'.ended = q.ended /\ queue'.recovering = q.recovering /\ queue'.accepted = q.accepted
        /\ EntriesOf(q) = EntriesOf(queue') \cup {h} /\ h \in Items
        /\ \A e \in Range(queue'.values) : h.seq < e.seq
    BY Zenon, <1>3, TakeResult
  <2>2. one \in Seq(Items) /\ Len(one) = 1 /\ Range(one) = {h}
    BY <2>1, EntrySets
  <2>3. reducer.held = <<>> /\ Range(reducer.held) = {}
    BY Zenon, <1>3, EntrySets
  <2>4. one \o Tail(q.values) = <<>> \o q.values
    <3>1. q.values \in Seq(Items)
      BY Zenon DEF QueueOK, QueueTypes
    <3>2. \A t \in Seq(Items) : t # <<>> => <<Head(t)>> \o Tail(t) = <<>> \o t
      OBVIOUS
    <3> QED BY Zenon, <1>3, <3>1, <3>2
  <2>5. reducer' = [reducer EXCEPT !.pc = "held", !.held = one]
    BY Zenon, <1>3
  <2> HIDE DEF one, h
  <2>6. /\ DOMAIN reducer' = DOMAIN reducer /\ reducer'.pc = "held" /\ reducer'.held = one
        /\ reducer'.consumed = reducer.consumed /\ reducer'.valid = reducer.valid
    BY Zenon, <2>5
  <2>7. EntriesOf(queue') \cup Range(reducer'.held) = EntriesOf(q) \cup Range(reducer.held)
    BY Zenon, <2>1, <2>2, <2>3, <2>6
  <2>8. reducer'.held \o queue'.values = reducer.held \o q.values
    BY Zenon, <2>1, <2>3, <2>4, <2>6
  <2>9. \A e \in Range(reducer'.held) : e \in EntriesOf(q) /\ \A f \in Range(queue'.values) : e.seq < f.seq
    BY Zenon, <2>1, <2>2, <2>6
  <2> QED BY Zenon, <1>3, <2>1, <2>2, <2>6, <2>7, <2>8, <2>9 DEF one, h
<1> QED BY Zenon, <1>1, <1>2, <1>3 DEF ResolveWaiters

(* The queue becomes p, of which only new entries are numbered anew, and a *)
(* waiting reducer is served.                                              *)
LEMMA ResolveStep ==
    ASSUME QueueLaws, QueueInv, told \in Nat, told' \in Nat, told' >= told, conn' = conn,
           NEW p, QueueOK(p), Within(p, told'), p.recovering = queue.recovering,
           p.accepted >= queue.accepted,
           \A e \in EntriesOf(p) : e.seq > queue.accepted \/ \E f \in EntriesOf(queue) : f.seq = e.seq,
           ~queue.recovering /\ queue.staged = <<>> => p.staged = <<>>,
           ResolveWaiters(p)
    PROVE  QueueInv'
<1> DEFINE held == reducer.held
<1>q. /\ p.values \in Seq(Items) /\ p.staged \in Seq(Items) /\ p.accepted \in Nat
      /\ queue.values \in Seq(Items) /\ queue.staged \in Seq(Items) /\ queue.accepted \in Nat
  BY Zenon DEF QueueInv, QueueOK, QueueTypes
<1>i. EntriesOf(p) \subseteq Items /\ EntriesOf(queue) \subseteq Items /\ Range(held) \subseteq Items
  BY Zenon, <1>q, EntrySets DEF EntriesOf, QueueInv, ReducerInv
<1>r. /\ DOMAIN reducer = {"pc", "held", "consumed", "valid"} /\ held \in Seq(Items)
      /\ IF reducer.pc = "held" THEN Len(held) = 1 ELSE held = <<>>
      /\ \A e \in Range(held) :
            e.at <= told /\ e.seq <= queue.accepted /\ \A f \in Range(queue.values) : e.seq < f.seq
      /\ queue.recovering <=> reducer.pc = "recovering"
      /\ ~queue.recovering => queue.staged = <<>>
      /\ reducer.pc = "unborn" <=> conn.pc # "connected"
      /\ reducer.consumed \in Nat /\ reducer.consumed <= queue.accepted
      /\ conn.pc = "connected" /\ reducer.valid =>
            \A e \in EntriesOf(queue) \cup Range(held) : e.seq > reducer.consumed
  BY Zenon DEF QueueInv, ReducerInv, ConsumedInv
<1>1. /\ QueueOK(queue')
      /\ queue'.staged = p.staged /\ queue'.recovering = p.recovering /\ queue'.accepted = p.accepted
      /\ DOMAIN reducer' = DOMAIN reducer /\ reducer'.held \in Seq(Items)
      /\ reducer'.consumed = reducer.consumed /\ reducer'.valid = reducer.valid
      /\ EntriesOf(queue') \cup Range(reducer'.held) = EntriesOf(p) \cup Range(held)
      /\ \/ queue' = p /\ reducer' = reducer
         \/ queue' = p /\ reducer.pc = "waiting" /\ reducer'.pc = "woken" /\ reducer'.held = held
         \/ /\ reducer.pc = "waiting" /\ reducer'.pc = "held" /\ Len(reducer'.held) = 1
            /\ \A e \in Range(reducer'.held) :
                  e \in EntriesOf(p) /\ \A f \in Range(queue'.values) : e.seq < f.seq
  BY Zenon, <1>r, ResolveResult
<1> HIDE DEF held
<1>2. Within(queue', told')
  <2>1. \A e \in Range(held) : e.at <= told'
    BY <1>i, <1>r DEF Items
  <2> QED BY Zenon, <1>1, <2>1 DEF Within
<1>3. \A e \in Range(reducer'.held) :
          e.at <= told' /\ e.seq <= queue'.accepted /\ \A f \in Range(queue'.values) : e.seq < f.seq
  <2>1. CASE queue' = p /\ reducer'.held = held
    <3> SUFFICES ASSUME NEW e \in Range(held)
                 PROVE  e.at <= told' /\ e.seq <= p.accepted /\ \A f \in Range(p.values) : e.seq < f.seq
      BY Zenon, <2>1
    <3>1. held # <<>>
      BY Zenon, EntrySets
    <3>2. reducer.pc = "held"
      BY Zenon, <3>1, <1>r
    <3>3. EntriesOf(queue) = Range(queue.values)
      BY Zenon, <1>r, <3>2, EntrySets DEF EntriesOf
    <3>4. \A f \in Range(p.values) : f \in EntriesOf(p)
      BY Zenon DEF EntriesOf
    <3>5. e \in Items
      BY Zenon, <1>i
    <3>6. ASSUME NEW f \in Range(p.values) PROVE e.seq < f.seq
      <4>1. CASE f.seq > queue.accepted
        BY <1>q, <1>i, <1>r, <3>4, <3>5, <4>1 DEF Items
      <4>2. CASE \E g \in EntriesOf(queue) : g.seq = f.seq
        BY Zenon, <1>r, <3>3, <4>2
      <4> QED BY Zenon, <3>4, <4>1, <4>2
    <3> QED BY <1>q, <1>r, <3>5, <3>6 DEF Items
  <2>2. CASE \A e \in Range(reducer'.held) :
                e \in EntriesOf(p) /\ \A f \in Range(queue'.values) : e.seq < f.seq
    BY Zenon, <1>1, <2>2 DEF Within, QueueOK
  <2> QED BY Zenon, <1>1, <2>1, <2>2 DEF held
<1>4. ASSUME conn.pc = "connected", reducer.valid, NEW e \in EntriesOf(p) \cup Range(held)
      PROVE  e.seq > reducer.consumed
  <2>1. CASE e \in Range(held)
    BY Zenon, <1>r, <1>4, <2>1
  <2>2. CASE e \in EntriesOf(p)
    <3>1. CASE e.seq > queue.accepted
      BY <1>q, <1>i, <1>r, <2>2, <3>1 DEF Items
    <3>2. CASE \E g \in EntriesOf(queue) : g.seq = e.seq
      BY Zenon, <1>4, <1>r, <3>2
    <3> QED BY Zenon, <2>2, <3>1, <3>2
  <2> QED BY Zenon, <1>4, <2>1, <2>2
<1>5. ReducerInv'
  BY Zenon, <1>r, <1>1, <1>3 DEF ReducerInv, held
<1>6. reducer'.consumed <= queue'.accepted
  BY <1>q, <1>r, <1>1
<1>7. ConsumedInv'
  BY Zenon, <1>r, <1>1, <1>4, <1>6 DEF ConsumedInv, held
<1> QED BY Zenon, <1>1, <1>2, <1>5, <1>7 DEF QueueInv

(* An update of the stream, or a gap the pump adds, is pushed.             *)
LEMMA PushStep ==
    ASSUME QueueLaws, QueueInv, SourceTypes, told' \in Nat, told' >= told, conn' = conn,
           NEW u, u.kind \in Kinds, u.at \in Nat, u.at <= told',
           ResolveWaiters(PushCharged(queue, u))
    PROVE  QueueInv'
<1> DEFINE p == PushCharged(queue, u)
<1>1. Within(queue, told')
  <2>1. \A e \in EntriesOf(queue) : e.at \in Nat /\ e.at <= told
    <3>1. queue.values \in Seq(Items) /\ queue.staged \in Seq(Items)
      BY Zenon DEF QueueInv, QueueOK, QueueTypes
    <3>2. EntriesOf(queue) \subseteq Items
      BY Zenon, <3>1, EntrySets DEF EntriesOf
    <3> QED BY Zenon, <3>2 DEF QueueInv, Within, Items
  <2>2. told \in Nat
    BY Zenon DEF SourceTypes
  <2> QED BY <2>1, <2>2 DEF Within
<1>2. /\ QueueOK(p) /\ Within(p, told') /\ p.ended = queue.ended /\ p.recovering = queue.recovering
      /\ p.accepted >= queue.accepted
      /\ \A e \in EntriesOf(p) : e.seq > queue.accepted \/ \E f \in EntriesOf(queue) : f.seq = e.seq
      /\ ~queue.recovering /\ queue.staged = <<>> => p.staged = <<>>
  BY <1>1, PushResult DEF QueueInv
<1>3. \A e \in EntriesOf(p) : e.seq > queue.accepted \/ \E f \in EntriesOf(queue) : f.seq = e.seq
  BY Zenon, <1>2
<1>4. told \in Nat
  BY Zenon DEF SourceTypes
<1> HIDE DEF p
<1> QED BY Zenon, <1>2, <1>3, <1>4, ResolveStep DEF p

(* A step after which the queue is empty and the reducer holds nothing.    *)
LEMMA DrainedStep ==
    ASSUME QueueLaws, QueueOK(queue'), EntriesOf(queue') = {}, queue'.staged = <<>>, ~queue'.recovering,
           DOMAIN reducer' = {"pc", "held", "consumed", "valid"}, reducer'.held = <<>>,
           reducer'.pc \notin {"held", "recovering"}, reducer'.pc = "unborn" <=> conn'.pc # "connected",
           reducer'.consumed \in Nat, reducer'.consumed <= queue'.accepted
    PROVE  QueueInv'
<1>1. <<>> \in Seq(Items) /\ Range(<<>>) = {}
  BY EntrySets
<1>2. ReducerInv'
  BY Zenon, <1>1 DEF ReducerInv
<1>3. ConsumedInv'
  BY Zenon, <1>1 DEF ConsumedInv
<1> QED BY Zenon, <1>2, <1>3 DEF QueueInv, Within

(* The recovery begins, with what the reducer holds or after it.           *)
LEMMA BeginStep ==
    ASSUME QueueLaws, QueueInv, told \in Nat, told' = told, conn' = conn, NEW failed, NEW consumed \in Nat,
           queue' = BeginRecovery(queue, failed), conn.pc = "connected", failed \in {<<>>, reducer.held},
           reducer' = [reducer EXCEPT !.pc = "recovering", !.held = <<>>, !.consumed = consumed],
           consumed <= queue.accepted,
           reducer.valid => \A e \in EntriesOf(queue) \cup Range(failed) : e.seq > consumed
    PROVE  QueueInv'
<1> DEFINE p == BeginRecovery(queue, failed)
<1>h. /\ DOMAIN reducer = {"pc", "held", "consumed", "valid"} /\ reducer.held \in Seq(Items)
      /\ IF reducer.pc = "held" THEN Len(reducer.held) = 1 ELSE reducer.held = <<>>
      /\ \A e \in Range(reducer.held) : e.at <= told /\ e.seq <= queue.accepted
  BY Zenon DEF QueueInv, ReducerInv
<1>e. <<>> \in Seq(Items) /\ Range(<<>>) = {} /\ Len(<<>>) <= 1
  BY EntrySets
<1>f. failed \in Seq(Items) /\ Len(failed) <= 1 /\ \A e \in Range(failed) : e.at <= told /\ e.seq <= queue.accepted
  <2>1. CASE failed = <<>>
    BY Zenon, <1>e, <2>1
  <2>2. CASE failed = reducer.held
    <3>1. Len(failed) <= 1
      <4>1. CASE failed = <<>>
        BY Zenon, <1>e, <4>1
      <4>2. CASE Len(failed) = 1
        BY <4>2
      <4> QED BY Zenon, <1>h, <2>2, <4>1, <4>2
    <3> QED BY Zenon, <1>h, <2>2, <3>1
  <2> QED BY Zenon, <2>1, <2>2
<1>1. /\ QueueOK(p) /\ Within(p, told) /\ p.recovering /\ p.accepted >= queue.accepted
      /\ \A e \in EntriesOf(p) : e.seq > queue.accepted \/ e \in EntriesOf(queue) \cup Range(failed)
  BY Zenon, <1>f, BeginResult DEF QueueInv
<1>q. p.values \in Seq(Items) /\ p.staged \in Seq(Items) /\ p.accepted \in Nat /\ queue.accepted \in Nat
  BY Zenon, <1>1 DEF QueueOK, QueueTypes, QueueInv
<1> HIDE DEF p
<1>2. EntriesOf(p) \subseteq Items
  BY Zenon, <1>q, EntrySets DEF EntriesOf
<1>3. ASSUME reducer.valid, NEW e \in EntriesOf(p) PROVE e.seq > consumed
  <2>1. CASE e.seq > queue.accepted
    BY <1>2, <1>3, <1>q, <2>1 DEF Items
  <2> QED BY Zenon, <1>1, <1>3, <2>1
<1>4. /\ DOMAIN reducer' = {"pc", "held", "consumed", "valid"} /\ reducer'.pc = "recovering"
      /\ reducer'.held = <<>> /\ reducer'.consumed = consumed /\ reducer'.valid = reducer.valid
  BY Zenon, <1>h
<1>5. queue' = p
  BY Zenon DEF p
<1>6. ReducerInv'
  BY Zenon, <1>1, <1>4, <1>5, <1>e DEF ReducerInv
<1>7. consumed <= p.accepted
  BY <1>1, <1>q
<1>8. ConsumedInv'
  BY Zenon, <1>3, <1>4, <1>5, <1>7, <1>e DEF ConsumedInv
<1> QED BY Zenon, <1>1, <1>5, <1>6, <1>8 DEF QueueInv

(* The reducer takes the first entry.                                      *)
LEMMA TakeStep ==
    ASSUME QueueLaws, QueueInv, told' = told, conn' = conn, reducer.pc = "loop",
           queue.values # <<>>, queue' = Take(queue),
           reducer' = [reducer EXCEPT !.pc = "held", !.held = <<Head(queue.values)>>]
    PROVE  QueueInv'
<1> DEFINE p == Take(queue)
           h == Head(queue.values)
           one == <<h>>
<1>r. DOMAIN reducer = {"pc", "held", "consumed", "valid"} /\ reducer.held = <<>>
  BY Zenon DEF QueueInv, ReducerInv
<1>1. /\ QueueOK(p) /\ p.values = Tail(queue.values) /\ p.staged = queue.staged
      /\ p.recovering = queue.recovering /\ p.accepted = queue.accepted
      /\ EntriesOf(queue) = EntriesOf(p) \cup {h} /\ h \in Items
      /\ \A e \in Range(p.values) : h.seq < e.seq
  BY Zenon, TakeResult DEF QueueInv
<1>2. one \in Seq(Items) /\ Len(one) = 1 /\ Range(one) = {h} /\ Range(<<>>) = {}
  BY <1>1, EntrySets
<1>3. queue' = p /\ reducer' = [reducer EXCEPT !.pc = "held", !.held = one]
  BY Zenon
<1> HIDE DEF p, h, one
<1>4. /\ DOMAIN reducer' = DOMAIN reducer /\ reducer'.pc = "held" /\ reducer'.held = one
      /\ reducer'.consumed = reducer.consumed /\ reducer'.valid = reducer.valid
  BY Zenon, <1>r, <1>3
<1>5. h.at <= told /\ h.seq <= queue.accepted
  BY Zenon, <1>1 DEF QueueInv, QueueOK, Within
<1>6. Within(p, told)
  BY Zenon, <1>1 DEF QueueInv, Within
<1>7. ReducerInv'
  BY <1>r, <1>1, <1>2, <1>3, <1>4, <1>5 DEF ReducerInv, QueueInv
<1>8. ConsumedInv'
  BY Zenon, <1>r, <1>1, <1>2, <1>3, <1>4 DEF ConsumedInv, QueueInv
<1> QED BY Zenon, <1>1, <1>3, <1>6, <1>7, <1>8 DEF QueueInv

(* Every step keeps the queue and the reducer in order.                    *)
LEMMA QueueStep ==
    ASSUME QueueLaws, SourceTypes, QueueInv, TaskLink, [Next]_vars, told' \in Nat, told' >= told
    PROVE  QueueInv'
<1>t. told \in Nat
  BY Zenon DEF SourceTypes
<1>q. /\ QueueOK(queue) /\ queue \in QueueTypes /\ queue.values \in Seq(Items) /\ queue.staged \in Seq(Items)
      /\ queue.accepted \in Nat
  BY Zenon DEF QueueInv, QueueOK, QueueTypes
<1>r. /\ DOMAIN reducer = {"pc", "held", "consumed", "valid"} /\ reducer.held \in Seq(Items)
      /\ IF reducer.pc = "held" THEN Len(reducer.held) = 1 ELSE reducer.held = <<>>
      /\ queue.recovering <=> reducer.pc = "recovering"
      /\ ~queue.recovering => queue.staged = <<>>
      /\ reducer.pc = "unborn" <=> conn.pc # "connected"
      /\ reducer.consumed \in Nat /\ reducer.consumed <= queue.accepted
  BY Zenon DEF QueueInv, ReducerInv, ConsumedInv
<1>v. \A e \in EntriesOf(queue) \cup Range(reducer.held) : e \in Items /\ e.seq \in Nat
  BY Zenon, <1>q, <1>r, EntrySets DEF EntriesOf, Items
<1>c. conn.pc = "connected" /\ reducer.valid =>
          \A e \in EntriesOf(queue) \cup Range(reducer.held) : e.seq > reducer.consumed
  BY Zenon DEF QueueInv, ConsumedInv
<1>k. ASSUME UNCHANGED <<queue, reducer>>, conn'.pc = "connected" <=> conn.pc = "connected" PROVE QueueInv'
  <2>1. \A e \in EntriesOf(queue) \cup Range(reducer.held) : e.at <= told'
    BY <1>t, <1>v DEF Items, QueueInv, Within, ReducerInv
  <2>2. ReducerInv'
    BY Zenon, <1>k, <2>1 DEF QueueInv, ReducerInv
  <2>3. ConsumedInv'
    BY Zenon, <1>k DEF QueueInv, ConsumedInv
  <2> QED BY Zenon, <1>k, <2>1, <2>2, <2>3 DEF QueueInv, Within
<1>p. ASSUME NEW u, u.kind \in Kinds, u.at \in Nat, u.at <= told', conn' = conn, ResolveWaiters(PushCharged(queue, u))
      PROVE  QueueInv'
  BY Zenon, <1>p, PushStep
<1>g. ASSUME conn' = conn, ResolveWaiters(PushCharged(queue, Update("Gap", None))) PROVE QueueInv'
  BY <1>g, <1>p DEF Update, Kinds, None
<1>1. CASE NewBlock
  BY Zenon, <1>1, <1>k DEF NewBlock
<1>2. CASE Pump
  <2>1. ASSUME NEW u, NEW next, u.kind \in Kinds, u.at \in Nat, Receive(u, next) PROVE QueueInv'
    <3>1. told' = Highest({told, u.at}) /\ conn' = conn /\ ResolveWaiters(PushCharged(queue, u))
      BY Zenon, <2>1 DEF Receive
    <3>2. u.at <= told'
      BY Zenon, <1>t, <2>1, <3>1, HighestOfTwo
    <3> QED BY Zenon, <1>p, <2>1, <3>1, <3>2
  <2>2. sub.next \in Nat /\ head \in Nat /\ None \in Nat
    BY Zenon DEF SourceTypes, None
  <2>3. CASE ReceiveLog
    BY <2>1, <2>2, <2>3 DEF ReceiveLog, Update, Kinds
  <2>4. CASE ReceiveReorg
    BY <2>1, <2>2, <2>4 DEF ReceiveReorg, Update, Kinds
  <2>5. CASE ReceiveGap
    <3>1. PICK at \in {None} \cup (sub.next - 1 .. head) : Receive(Update("Gap", at), sub.next)
      BY Zenon, <2>5 DEF ReceiveGap
    <3>2. at \in Nat
      BY <2>2 DEF SourceTypes
    <3> QED BY <2>1, <3>1, <3>2 DEF Update, Kinds
  <2>6. CASE Subscribe \/ StreamThrows \/ StreamCancelled \/ Reconnect
    BY Zenon, <2>6, <1>k DEF Subscribe, StreamThrows, StreamCancelled, Reconnect
  <2>7. CASE SubscribeFails
    BY Zenon, <2>7, <1>k, <1>g DEF SubscribeFails
  <2>8. CASE StreamEnds
    BY Zenon, <2>8, <1>g DEF StreamEnds
  <2>9. CASE StreamClosed
    BY Zenon, <2>9, <1>k, <1>g DEF StreamClosed
  <2> QED BY Zenon, <1>2, <2>3, <2>4, <2>5, <2>6, <2>7, <2>8, <2>9 DEF Pump
<1>a. ASSUME NEW pc, Await(pc), pc # "connected", conn.pc # "connected", UNCHANGED <<queue, reducer>> PROVE QueueInv'
  <2>1. conn'.pc = pc
    BY Zenon, <1>a DEF Await, SourceTypes
  <2> QED BY Zenon, <1>a, <1>k, <2>1
<1>d. conn.pc # "connected" => /\ reducer.held = <<>> /\ queue.staged = <<>> /\ ~queue.recovering
                              /\ reducer.pc = "unborn"
  BY Zenon, <1>r
<1>3. CASE Connect
  <2>c. ASSUME NEW st, Connected(st), conn.pc # "connected" PROVE QueueInv'
    <3>1. /\ queue' = DrainAll(queue) /\ reducer' = [reducer EXCEPT !.pc = "loop", !.consumed = queue.accepted]
          /\ conn'.pc = "connected"
      BY Zenon, <2>c DEF Connected
    <3>2. /\ QueueOK(queue') /\ EntriesOf(queue') = {} /\ queue'.staged = <<>> /\ ~queue'.recovering
          /\ queue'.accepted = queue.accepted
      BY Zenon, <1>d, <1>q, <2>c, <3>1, DrainResult
    <3>3. /\ DOMAIN reducer' = {"pc", "held", "consumed", "valid"} /\ reducer'.held = <<>>
          /\ reducer'.pc = "loop" /\ reducer'.consumed = queue.accepted
      BY Zenon, <1>d, <1>r, <2>c, <3>1
    <3> QED BY <1>q, <3>1, <3>2, <3>3, DrainedStep
  <2>r. ASSUME queue' = DrainAll(queue), Await("snapshot"), UNCHANGED reducer, conn.pc # "connected" PROVE QueueInv'
    <3>1. conn'.pc = "snapshot"
      BY Zenon, <2>r DEF Await, SourceTypes
    <3>2. /\ QueueOK(queue') /\ EntriesOf(queue') = {} /\ queue'.staged = <<>> /\ ~queue'.recovering
          /\ queue'.accepted = queue.accepted
      BY Zenon, <1>d, <1>q, <2>r, DrainResult
    <3> QED BY Zenon, <1>d, <1>r, <2>r, <3>1, <3>2, DrainedStep
  <2>f. ASSUME NEW st, FinishRestore(st), conn.pc # "connected" PROVE QueueInv'
    BY Zenon, <2>c, <2>f, <2>r DEF FinishRestore
  <2>x. ASSUME FailConnect(queue), conn.pc # "connected" PROVE QueueInv'
    <3>1. queue' = Close(queue) /\ conn'.pc = "failed" /\ reducer' = reducer
      BY Zenon, <2>x DEF FailConnect
    <3>2. /\ QueueOK(queue') /\ queue'.values = queue.values /\ queue'.staged = queue.staged
          /\ queue'.recovering = queue.recovering
          /\ queue'.accepted = queue.accepted /\ EntriesOf(queue') = EntriesOf(queue)
      BY Zenon, <1>q, <3>1, CloseResult
    <3>3. Within(queue', told')
      BY <1>t, <1>v, <3>2 DEF Within, QueueInv, Items
    <3>4. ReducerInv'
      BY Zenon, <1>d, <1>r, <2>x, <3>1, <3>2, EntrySets DEF ReducerInv
    <3>5. ConsumedInv'
      BY Zenon, <1>r, <3>1, <3>2 DEF ConsumedInv
    <3> QED BY Zenon, <3>2, <3>3, <3>4, <3>5 DEF QueueInv
  <2>y. ASSUME FailConnect(DrainAll(queue)), conn.pc # "connected" PROVE QueueInv'
    <3> DEFINE p == DrainAll(queue)
    <3>1. queue' = Close(p) /\ conn'.pc = "failed" /\ reducer' = reducer
      BY Zenon, <2>y DEF FailConnect
    <3>2. /\ QueueOK(p) /\ EntriesOf(p) = {} /\ p.staged = <<>> /\ ~p.recovering
          /\ p.accepted = queue.accepted
      BY Zenon, <1>d, <1>q, <2>y, DrainResult
    <3> HIDE DEF p
    <3>3. /\ QueueOK(queue') /\ EntriesOf(queue') = {} /\ queue'.staged = <<>> /\ ~queue'.recovering
          /\ queue'.accepted = queue.accepted
      BY Zenon, <3>1, <3>2, CloseResult
    <3> QED BY Zenon, <1>d, <1>r, <2>y, <3>1, <3>3, DrainedStep
  <2>1. CASE BootstrapActive
    BY Zenon, <1>a, <2>1 DEF BootstrapActive
  <2>2. CASE ConnectFails
    BY Zenon, <2>2, <2>x DEF ConnectFails
  <2>3. ASSUME NEW valid \in BOOLEAN, CheckpointValidated(valid) PROVE QueueInv'
    BY Zenon, <1>a, <2>3 DEF CheckpointValidated
  <2>4. CASE RestoreHead
    <3>1. ASSUME NEW h, conn' = [conn EXCEPT !.pc = "page", !.through = h], UNCHANGED <<queue, reducer>>, conn.pc = "head"
          PROVE  QueueInv'
      <4>1. conn'.pc = "page"
        BY Zenon, <3>1 DEF SourceTypes
      <4> QED BY Zenon, <3>1, <1>k, <4>1
    <3> QED BY Zenon, <1>a, <2>4, <2>f, <3>1 DEF RestoreHead
  <2>5. CASE RestorePage
    BY Zenon, <1>k, <2>5, <2>f DEF RestorePage
  <2>6. CASE RestoreFails
    BY Zenon, <1>a, <2>6 DEF RestoreFails
  <2>7. CASE SnapshotIndexer
    BY Zenon, <2>7, <2>c, <2>y DEF SnapshotIndexer
  <2> QED BY Zenon, <1>3, <2>1, <2>2, <2>3, <2>4, <2>5, <2>6, <2>7 DEF Connect
<1>f. ASSUME NEW st, FailReducer(st), reducer.pc # "unborn" PROVE QueueInv'
  <2> DEFINE p == AbortRecovery(queue)
  <2>1. queue' = Close(p) /\ conn' = conn /\ reducer' = [reducer EXCEPT !.pc = "done", !.held = <<>>]
    BY Zenon, <1>f DEF FailReducer
  <2>2. /\ QueueOK(p) /\ EntriesOf(p) = {} /\ p.staged = <<>> /\ ~p.recovering
        /\ p.accepted = queue.accepted
    BY Zenon, <1>q, AbortResult
  <2> HIDE DEF p
  <2>3. /\ QueueOK(queue') /\ EntriesOf(queue') = {} /\ queue'.staged = <<>> /\ ~queue'.recovering
        /\ queue'.accepted = queue.accepted
    BY Zenon, <2>1, <2>2, CloseResult
  <2>4. /\ DOMAIN reducer' = {"pc", "held", "consumed", "valid"} /\ reducer'.held = <<>>
        /\ reducer'.pc = "done" /\ reducer'.consumed = reducer.consumed
    BY Zenon, <1>r, <2>1
  <2> QED BY Zenon, <1>f, <1>r, <2>1, <2>3, <2>4, DrainedStep
<1>b. ASSUME NEW st, NEW c \in Nat, NEW failed \in {<<>>, reducer.held}, Run(st, c, failed),
             reducer.pc # "unborn", c <= queue.accepted,
             reducer.valid => \A e \in EntriesOf(queue) \cup Range(failed) : e.seq > c
      PROVE  QueueInv'
  <2>1. CASE stop.source
    BY Zenon, <1>b, <1>f, <2>1 DEF Run
  <2>2. CASE ~stop.source
    <3>1. /\ queue' = BeginRecovery(queue, failed) /\ told' = told /\ conn' = conn
          /\ reducer' = [reducer EXCEPT !.pc = "recovering", !.held = <<>>, !.consumed = c]
      BY Zenon, <1>b, <2>2 DEF Run, env
    <3> QED BY Zenon, <1>b, <1>r, <1>t, <3>1, BeginStep
  <2> QED BY Zenon, <2>1, <2>2
<1>w. ASSUME NEW pc \in {"loop", "woken", "waiting"}, reducer' = [reducer EXCEPT !.pc = pc], conn' = conn, queue' = queue,
             reducer.pc \in {"loop", "woken", "waiting"}
      PROVE  QueueInv'
  <2>1. /\ DOMAIN reducer' = DOMAIN reducer /\ reducer'.pc = pc /\ reducer'.held = reducer.held
        /\ reducer'.consumed = reducer.consumed /\ reducer'.valid = reducer.valid /\ pc # "held" /\ pc # "recovering"
    BY Zenon, <1>r, <1>w
  <2>2. Within(queue', told')
    BY <1>t, <1>v, <1>w DEF Within, QueueInv, Items
  <2>3. ReducerInv'
    BY Zenon, <1>r, <1>w, <2>1, EntrySets DEF ReducerInv
  <2>4. ConsumedInv'
    BY Zenon, <1>w, <2>1 DEF QueueInv, ConsumedInv
  <2> QED BY Zenon, <1>w, <2>2, <2>3, <2>4 DEF QueueInv
<1>s. ASSUME reducer.pc = "recovering", conn' = conn, UNCHANGED reducer,
             queue' = StageQueuedForRecovery(queue)
      PROVE  QueueInv'
  <2>1. /\ QueueOK(queue') /\ queue'.values = <<>> /\ queue'.recovering /\ EntriesOf(queue') = EntriesOf(queue)
        /\ queue'.accepted = queue.accepted
    BY Zenon, <1>q, <1>s, StageResult
  <2>2. Within(queue', told')
    BY <1>t, <1>v, <2>1 DEF Within, QueueInv, Items
  <2>3. ReducerInv'
    BY Zenon, <1>r, <1>s, <2>1, EntrySets DEF ReducerInv
  <2>4. ConsumedInv'
    BY Zenon, <1>s, <2>1 DEF QueueInv, ConsumedInv
  <2> QED BY Zenon, <2>1, <2>2, <2>3, <2>4 DEF QueueInv
<1>4. CASE ReduceLoop
  <2>1. CASE Run(state, reducer.consumed, <<>>)
    BY Zenon, <1>4, <1>b, <1>c, <1>r, <2>1, EntrySets DEF ReduceLoop
  <2>2. CASE /\ queue.values # <<>> /\ queue' = Take(queue) /\ UNCHANGED <<env, conn>>
             /\ reducer' = [reducer EXCEPT !.pc = "held", !.held = <<Head(queue.values)>>]
    BY Zenon, <1>4, <2>2, TakeStep DEF ReduceLoop, env
  <2>3. ASSUME NEW pc \in {"woken", "waiting"}, reducer' = [reducer EXCEPT !.pc = pc], UNCHANGED <<queue, conn>>
        PROVE  QueueInv'
    BY Zenon, <1>4, <1>w, <2>3 DEF ReduceLoop
  <2> QED BY Zenon, <1>4, <2>1, <2>2, <2>3 DEF ReduceLoop
<1>5. CASE ReduceWoken
  <2>1. CASE stop.reducer \/ queue.ended
    <3>1. queue' = AbortRecovery(queue) /\ reducer' = [reducer EXCEPT !.pc = "done"] /\ conn' = conn
      BY Zenon, <1>5, <2>1 DEF ReduceWoken
    <3>2. /\ QueueOK(queue') /\ EntriesOf(queue') = {} /\ queue'.staged = <<>> /\ ~queue'.recovering
          /\ queue'.accepted = queue.accepted
      BY Zenon, <1>q, <3>1, AbortResult
    <3>3. /\ DOMAIN reducer' = {"pc", "held", "consumed", "valid"} /\ reducer'.held = <<>>
          /\ reducer'.pc = "done" /\ reducer'.consumed = reducer.consumed /\ reducer.pc = "woken"
      BY Zenon, <1>5, <1>r, <3>1 DEF ReduceWoken
    <3> QED BY Zenon, <1>r, <3>1, <3>2, <3>3, DrainedStep
  <2>2. CASE ~(stop.reducer \/ queue.ended)
    BY Zenon, <1>5, <1>w, <2>2 DEF ReduceWoken
  <2> QED BY Zenon, <2>1, <2>2
<1>6. CASE ReduceHeld
  <2> DEFINE e == reducer.held[1]
             c == Consume(e)
  <2>1. reducer.pc = "held" /\ reducer.held # <<>> /\ reducer.held = <<e>> /\ e \in Items
    BY Zenon, <1>6, <1>r, OneEntry DEF ReduceHeld
  <2>2. Range(reducer.held) = {e}
    BY Zenon, <2>1, EntrySets
  <2>3. /\ e.seq \in Nat /\ e.seq <= queue.accepted /\ \A f \in Range(queue.values) : e.seq < f.seq
        /\ EntriesOf(queue) = Range(queue.values) /\ Range(<<>>) = {}
    <3>1. queue.staged = <<>>
      BY Zenon, <1>r, <2>1
    <3> QED BY Zenon, <2>1, <2>2, <3>1, EntrySets DEF QueueInv, ReducerInv, Items, EntriesOf
  <2>4. c \in Nat /\ c \in {reducer.consumed, e.seq} /\ c <= queue.accepted
    BY Zenon, <1>r, <2>3, HighestOfTwo DEF Consume
  <2>5. conn.pc = "connected" /\ reducer.pc # "unborn"
    BY Zenon, <1>r, <2>1
  <2>6. reducer.valid => \A f \in EntriesOf(queue) : f.seq > c
    BY Zenon, <1>c, <2>3, <2>4, <2>5
  <2>n. ASSUME NEW n \in {reducer.consumed, c}, NEW valid,
               reducer' = [reducer EXCEPT !.pc = "loop", !.held = <<>>, !.consumed = n, !.valid = valid],
               UNCHANGED <<queue, conn>>, valid => reducer.valid
        PROVE  QueueInv'
    <3>1. /\ DOMAIN reducer' = DOMAIN reducer /\ reducer'.pc = "loop" /\ reducer'.held = <<>>
          /\ reducer'.consumed = n /\ reducer'.valid = valid
      BY Zenon, <1>r, <2>n
    <3>2. Within(queue', told')
      BY <1>t, <1>v, <2>n DEF Within, QueueInv, Items
    <3>3. <<>> \in Seq(Items)
      OBVIOUS
    <3>4. ReducerInv'
      BY Zenon, <1>r, <2>1, <2>3, <2>5, <2>n, <3>1, <3>3 DEF ReducerInv
    <3>5. n \in Nat /\ n <= queue.accepted
      BY Zenon, <1>r, <2>4, <2>n
    <3>6. reducer.valid => \A f \in EntriesOf(queue) : f.seq > n
      BY Zenon, <1>c, <2>5, <2>6, <2>n
    <3>7. ConsumedInv'
      BY Zenon, <2>3, <2>n, <3>1, <3>5, <3>6 DEF ConsumedInv
    <3> QED BY Zenon, <1>q, <2>n, <3>2, <3>4, <3>7 DEF QueueInv
  <2> HIDE DEF c
  <2>7. CASE Run(state, reducer.consumed, reducer.held)
    <3>1. reducer.valid => \A f \in EntriesOf(queue) \cup Range(reducer.held) : f.seq > reducer.consumed
      BY Zenon, <1>c, <2>5
    <3> QED BY Zenon, <1>b, <1>r, <2>5, <2>7, <3>1
  <2>8. ASSUME NEW st, Run(st, c, <<>>) PROVE QueueInv'
    <3>1. reducer.valid => \A f \in EntriesOf(queue) \cup Range(<<>>) : f.seq > c
      BY Zenon, <2>3, <2>6
    <3> QED BY Zenon, <1>b, <2>4, <2>5, <2>8, <3>1
  <2>9. QueueInv' \/ Run(state, reducer.consumed, reducer.held) \/ \E st : Run(st, c, <<>>)
    BY Zenon, <1>6, <2>n DEF ReduceHeld, c
  <2> QED BY Zenon, <2>7, <2>8, <2>9
<1>7. CASE Recover
  <2>0. recovery.pc # "none" => reducer.pc = "recovering"
    BY Zenon DEF TaskLink
  <2>1. ASSUME NEW rec, StageAndRead(rec), UNCHANGED <<conn, reducer>>, recovery.pc # "none" PROVE QueueInv'
    BY Zenon, <1>s, <2>0, <2>1 DEF StageAndRead
  <2>2. CASE RecoverLease \/ RecoverValidated
    <3>1. CASE UNCHANGED <<conn, queue, reducer>>
      BY Zenon, <1>k, <3>1
    <3> QED BY Zenon, <2>1, <2>2, <3>1 DEF RecoverLease, RecoverValidated
  <2>3. CASE RecoverHead \/ RecoverFails \/ RecoverRetries
    BY Zenon, <1>k, <2>3 DEF RecoverHead, RecoverFails, RecoverRetries
  <2>4. CASE RecoverPermanent \/ RecoverAborted
    <3>1. FailReducer(state) /\ reducer.pc = "recovering"
      BY Zenon, <2>0, <2>4 DEF RecoverPermanent, RecoverAborted
    <3> QED BY Zenon, <1>f, <3>1
  <2>5. ASSUME NEW s \in 1 .. MaxBlock, RecoverSnapshot(s) PROVE QueueInv'
    <3> DEFINE p == StageQueuedForRecovery(queue)
    <3>1. conn' = conn /\ reducer.pc = "recovering"
      BY Zenon, <2>0, <2>5 DEF RecoverSnapshot
    <3>2. CASE UNCHANGED <<queue, reducer>>
      BY Zenon, <1>k, <3>1, <3>2
    <3>3. CASE queue' = p /\ UNCHANGED reducer
      BY Zenon, <1>s, <3>1, <3>3
    <3>4. CASE /\ queue' = CompleteRecovery(p)
               /\ reducer' = [reducer EXCEPT !.pc = "loop", !.consumed = Highest({reducer.consumed, p.accepted})]
      <4>1. QueueOK(p) /\ p.values = <<>> /\ ~p.overflowed /\ p.accepted = queue.accepted
        BY Zenon, <1>q, StageResult
      <4> HIDE DEF p
      <4>2. /\ QueueOK(queue') /\ EntriesOf(queue') = {} /\ queue'.staged = <<>> /\ ~queue'.recovering
            /\ queue'.accepted = queue.accepted
        BY Zenon, <3>4, <4>1, CompleteResult
      <4>3. /\ DOMAIN reducer' = {"pc", "held", "consumed", "valid"} /\ reducer'.held = <<>>
            /\ reducer'.pc = "loop" /\ reducer'.consumed = Highest({reducer.consumed, p.accepted})
        BY Zenon, <1>r, <3>1, <3>4
      <4>4. reducer'.consumed \in Nat /\ reducer'.consumed <= queue'.accepted
        BY <1>q, <1>r, <4>1, <4>2, <4>3, HighestOfTwo
      <4> QED BY Zenon, <1>r, <3>1, <4>2, <4>3, <4>4, DrainedStep
    <3> QED BY Zenon, <2>5, <3>2, <3>3, <3>4 DEF RecoverSnapshot, Restage
  <2> QED BY Zenon, <1>7, <2>2, <2>3, <2>4, <2>5 DEF Recover
<1>8. CASE Shutdown \/ ShutdownReducer
  BY Zenon, <1>8, <1>k DEF Shutdown, ShutdownReducer
<1>9. CASE ShutdownPump
  <2> DEFINE p == Close(queue)
  <2>1. ResolveWaiters(p) /\ conn' = conn
    BY Zenon, <1>9 DEF ShutdownPump
  <2>2. /\ QueueOK(p) /\ p.staged = queue.staged /\ p.recovering = queue.recovering
        /\ p.accepted = queue.accepted /\ EntriesOf(p) = EntriesOf(queue)
    BY Zenon, <1>q, CloseResult
  <2> HIDE DEF p
  <2>3. Within(p, told')
    BY <1>t, <1>v, <2>2 DEF Within, QueueInv, Items
  <2>4. p.accepted >= queue.accepted
    BY <1>q, <2>2
  <2> QED BY Zenon, <1>t, <2>1, <2>2, <2>3, <2>4, ResolveStep
<1>10. ASSUME NEW r \in Requests, Request(r) PROVE QueueInv'
  <2>1. queue' = queue /\ conn' = conn
    BY Zenon, <1>10 DEF Request
  <2>2. CASE reducer' = reducer
    BY Zenon, <1>k, <2>1, <2>2
  <2>3. CASE reducer' = [reducer EXCEPT !.pc = "woken"] /\ reducer.pc = "waiting"
    BY Zenon, <1>w, <2>1, <2>3
  <2> QED BY Zenon, <1>10, <2>2, <2>3 DEF Request
<1>11. CASE UNCHANGED vars
  BY Zenon, <1>11, <1>k DEF vars
<1> QED BY Zenon, <1>1, <1>2, <1>3, <1>4, <1>5, <1>6, <1>7, <1>8, <1>9, <1>10, <1>11 DEF Next, Reduce

-----------------------------------------------------------------------------
(* The end of a client                                                     *)

(* A reducer that is over leaves a closed and empty queue and no caller of *)
(* recover() that waits.                                                   *)
DoneInv ==
    /\ DOMAIN calls = Requests /\ \A r \in Requests : DOMAIN calls[r] = {"status", "owed"}
    /\ stop.reducer \/ stop.pc \in {"reducer", "done"} => queue.ended
    /\ reducer.pc = "done" =>
          /\ queue.ended /\ queue.values = <<>> /\ queue.staged = <<>>
          /\ \A r \in Requests : calls[r].status # "waiting"
    /\ stop.pc = "done" /\ ~stop.expired => reducer.pc = "done"

(* What the steps keep of the queue, all together.                         *)
QueueInvariant == SourceTypes /\ QueueInv /\ TaskLink /\ PumpInv /\ DoneInv

-----------------------------------------------------------------------------
(* A ready client has no hole                                              *)

(* The conditions of ReadyIsComplete on the options.                       *)
Tame == ~ReadsLag /\ Checkpoint = None

StateFields == {"at", "logs", "floor", "ready"}

(* Where the tasks are, and what a ready client has: an active source, no  *)
(* recovery and a reducer that goes on.                                    *)
TasksInv ==
    /\ DOMAIN state = StateFields
    /\ conn.pc \in {"activity", "snapshot", "connected", "failed"}
    /\ conn.pc \in {"activity", "snapshot"} => ~stop.source
    /\ queue.ended \/ ~reducer.valid => stop.source
    /\ pump.pc \in {"consuming", "closing"} \/ activity.active \/ conn.pc = "snapshot" => pump.ever
    /\ recovery.lease <= activity.generation
    /\ conn.pc = "connected" /\ state.ready => activity.active /\ ~stop.source /\ recovery.pc = "none"

(* S holds a log or a reorganisation for every block after n that the      *)
(* subscription has delivered, and no log of a block it has not.           *)
HandsOff(n, S) ==
    /\ \A b \in n + 1 .. sub.next - 1 : \E e \in S : e.kind # "Gap" /\ e.at = b
    /\ \A e \in S : e.kind = "Log" => e.at <= n \/ e.at < sub.next

(* What the snapshot being read does not cover is queued or staged, while  *)
(* the subscription is the one it was started under.                       *)
RecoveryInv ==
    /\ sub.next = sub.base + 1 \/ sub.next <= told + 1
    /\ recovery.pc = "snapshot" /\ IsCurrent(recovery.lease) => HandsOff(recovery.asked, EntriesOf(queue))

(* Until connect has its snapshot the queue keeps all that the subscription *)
(* delivered, or a barrier that tells of what is missing.                  *)
BootstrapInv ==
    conn.pc \in {"activity", "snapshot"} =>
        /\ ~pump.ever => queue.values = <<>>
        /\ ~HasBarrier(Range(queue.values)) =>
              /\ HandsOff(sub.base, Range(queue.values))
              /\ pump.ever => pump.pc = "consuming" \/ (pump.pc = "closing" /\ pump.failed)
              /\ conn.pc = "snapshot" => sub.base <= conn.asked

(* The entries of s before its first barrier are the logs of the blocks    *)
(* from n on; without a barrier the subscription goes on where they end.   *)
LogsTo(s, i) == \A j \in 1 .. i : s[j].kind = "Log"

Follows(n, s, next) ==
    /\ \A i \in 1 .. Len(s) : LogsTo(s, i) => s[i].at = n + i - 1
    /\ LogsTo(s, Len(s)) => next = n + Len(s)

(* The log of block n extends the state st, or is in it already.           *)
Joins(st, n) == n = st.at + 1 \/ (n <= st.at /\ st.at = st.floor)

Complete(st) == st.logs = 1 .. st.at /\ st.at \in Nat /\ st.floor \in Nat /\ st.floor <= st.at

Pending == reducer.held \o queue.values

ReadyInv ==
    conn.pc = "connected" /\ state.ready =>
        /\ Complete(state)
        /\ \E n \in Nat : Joins(state, n) /\ Follows(n, Pending, sub.next)

CompleteInv == Tame => TasksInv /\ RecoveryInv /\ BootstrapInv /\ ReadyInv

(* Another log at the end, and the first log taken.                        *)
LEMMA FollowsFacts ==
    ASSUME NEW s \in Seq(Items), NEW n \in Nat, NEW next \in Nat, Follows(n, s, next)
    PROVE  /\ \A e \in Items : e.kind = "Log" /\ e.at = next => Follows(n, Append(s, e), next + 1)
           /\ \A e \in Items, m \in Nat : e.kind # "Log" => Follows(n, Append(s, e), m)
           /\ s # <<>> /\ s[1].kind = "Log" => s[1].at = n /\ Follows(n + 1, Tail(s), next)
<1>1. ASSUME NEW e \in Items
      PROVE  /\ Len(Append(s, e)) = Len(s) + 1 /\ Append(s, e)[Len(s) + 1] = e
             /\ \A i \in 1 .. Len(s) : Append(s, e)[i] = s[i]
  OBVIOUS
<1>2. Len(s) \in Nat
  OBVIOUS
<1>3. ASSUME NEW e \in Items, NEW i \in 1 .. Len(s), LogsTo(Append(s, e), i) PROVE Append(s, e)[i].at = n + i - 1
  <2>1. LogsTo(s, i)
    BY <1>1, <1>2, <1>3 DEF LogsTo
  <2> QED BY Zenon, <1>1, <2>1 DEF Follows
<1>4. ASSUME NEW e \in Items, e.kind = "Log", e.at = next PROVE Follows(n, Append(s, e), next + 1)
  <2>1. ASSUME LogsTo(Append(s, e), Len(s) + 1) PROVE next = n + Len(s)
    <3>1. LogsTo(s, Len(s))
      BY <1>1, <1>2, <2>1 DEF LogsTo
    <3> QED BY Zenon, <3>1 DEF Follows
  <2>2. ASSUME NEW i \in 1 .. Len(s) + 1, LogsTo(Append(s, e), i) PROVE Append(s, e)[i].at = n + i - 1
    <3>1. CASE i \in 1 .. Len(s)
      BY Zenon, <1>3, <2>2, <3>1
    <3>2. CASE i = Len(s) + 1
      <4>1. next = n + Len(s) /\ Append(s, e)[i].at = next
        BY Zenon, <1>1, <1>4, <2>1, <2>2, <3>2
      <4> QED BY <1>2, <3>2, <4>1
    <3> QED BY <1>2, <3>1, <3>2
  <2>3. LogsTo(Append(s, e), Len(s) + 1) => next + 1 = n + (Len(s) + 1)
    BY <1>2, <2>1
  <2> QED BY Zenon, <1>1, <2>2, <2>3 DEF Follows
<1>5. ASSUME NEW e \in Items, NEW m \in Nat, e.kind # "Log" PROVE Follows(n, Append(s, e), m)
  <2>1. ~LogsTo(Append(s, e), Len(s) + 1)
    BY <1>1, <1>2, <1>5 DEF LogsTo
  <2>2. ASSUME NEW i \in 1 .. Len(s) + 1, LogsTo(Append(s, e), i) PROVE Append(s, e)[i].at = n + i - 1
    <3>1. i \in 1 .. Len(s)
      <4>1. i # Len(s) + 1
        BY Zenon, <2>1, <2>2
      <4> QED BY <1>2, <4>1
    <3> QED BY Zenon, <1>3, <2>2, <3>1
  <2> QED BY Zenon, <1>1, <2>1, <2>2 DEF Follows
<1>6. ASSUME s # <<>>, s[1].kind = "Log" PROVE s[1].at = n /\ Follows(n + 1, Tail(s), next)
  <2>1. Len(Tail(s)) = Len(s) - 1 /\ Len(s) >= 1 /\ \A i \in 1 .. Len(s) - 1 : Tail(s)[i] = s[i + 1]
    BY <1>6
  <2>2. s[1].at = n
    <3>1. LogsTo(s, 1) /\ 1 \in 1 .. Len(s)
      BY <1>6, <2>1 DEF LogsTo
    <3>2. s[1].at = n + 1 - 1
      BY Zenon, <3>1 DEF Follows
    <3> QED BY <3>2
  <2>3. ASSUME NEW i \in 0 .. Len(s) - 1, LogsTo(Tail(s), i) PROVE LogsTo(s, i + 1)
    <3> SUFFICES ASSUME NEW j \in 1 .. i + 1 PROVE s[j].kind = "Log"
      BY Zenon DEF LogsTo
    <3>1. CASE j = 1
      BY Zenon, <1>6, <3>1
    <3>2. CASE j # 1
      <4>1. j - 1 \in 1 .. i /\ j - 1 \in 1 .. Len(s) - 1 /\ (j - 1) + 1 = j
        BY <1>2, <3>2
      <4>2. Tail(s)[j - 1].kind = "Log"
        BY Zenon, <2>3, <4>1 DEF LogsTo
      <4> QED BY Zenon, <2>1, <4>1, <4>2
    <3> QED BY Zenon, <3>1, <3>2
  <2>4. ASSUME NEW i \in 1 .. Len(s) - 1, LogsTo(Tail(s), i) PROVE Tail(s)[i].at = (n + 1) + i - 1
    <3>1. i \in 0 .. Len(s) - 1 /\ i + 1 \in 1 .. Len(s) /\ n + (i + 1) - 1 = (n + 1) + i - 1
      BY <1>2
    <3>2. s[i + 1].at = n + (i + 1) - 1
      BY Zenon, <2>3, <2>4, <3>1 DEF Follows
    <3> QED BY Zenon, <2>1, <3>1, <3>2
  <2>5. ASSUME LogsTo(Tail(s), Len(s) - 1) PROVE next = (n + 1) + (Len(s) - 1)
    <3>1. Len(s) - 1 \in 0 .. Len(s) - 1 /\ (Len(s) - 1) + 1 = Len(s)
      BY <1>2, <2>1
    <3>2. next = n + Len(s)
      BY Zenon, <2>3, <2>5, <3>1 DEF Follows
    <3> QED BY <1>2, <3>2
  <2> QED BY Zenon, <2>1, <2>2, <2>4, <2>5 DEF Follows
<1> QED BY Zenon, <1>4, <1>5, <1>6

(* Nothing is pending.                                                     *)
LEMMA FollowsNothing ==
    ASSUME NEW n \in Nat
    PROVE  Follows(n, <<>>, n)
BY DEF Follows

(* A snapshot at s and the hand-off make a complete state that the next    *)
(* block of the subscription extends.                                      *)
LEMMA HandoffCompletes ==
    ASSUME QueueLaws, SourceTypes, NEW a \in Nat, NEW s \in Nat, a <= s,
           NEW S \in SUBSET Items, HandsOff(a, S), NEW n \in Nat, \A e \in S : e.at <= n,
           NEW B \in SUBSET S, ~HasBarrier(B), \A e \in S \ B : IsBarrier(e) /\ e.at <= s
    PROVE  LET st == ReplayHandoff(FromSnapshot(s), B)
           IN  Complete(st) /\ Joins(st, sub.next)
<1> DEFINE above == {e.at : e \in {x \in B : x.at > s}}
           top == Highest(above \cup {s})
           st == ReplayHandoff(FromSnapshot(s), B)
<1>0. sub.next \in Nat /\ sub.next >= 1
  BY DEF SourceTypes
<1>1. \A e \in S : e.kind \in Kinds /\ e.at \in Nat
  BY DEF Items
<1>2. st = [at |-> top, logs |-> (1 .. s) \cup above, floor |-> s, ready |-> TRUE]
  <2> DEFINE base == FromSnapshot(s)
             logs == 1 .. s
  <2>1. base = [at |-> s, logs |-> logs, floor |-> s, ready |-> TRUE]
    BY Zenon DEF FromSnapshot
  <2>2. base.at = s /\ base.logs = logs
    <3> HIDE DEF base, logs
    <3> QED BY <2>1
  <2>3. st = [base EXCEPT !.at = top, !.logs = logs \cup above]
    BY Zenon, <2>2 DEF ReplayHandoff
  <2> HIDE DEF base, logs, above, top, st
  <2>4. st = [at |-> top, logs |-> logs \cup above, floor |-> s, ready |-> TRUE]
    BY Zenon, <2>1, <2>3
  <2> QED BY Zenon, <2>4 DEF logs
<1>3. ASSUME NEW e \in B PROVE e.kind = "Log"
  BY Zenon, <1>1 DEF HasBarrier, IsBarrier, Kinds
<1>4. above = s + 1 .. sub.next - 1
  <2>1. ASSUME NEW x \in above PROVE x \in s + 1 .. sub.next - 1
    <3>1. PICK e \in B : e.at > s /\ x = e.at
      BY Zenon
    <3>2. e.at <= a \/ e.at < sub.next
      BY Zenon, <1>3 DEF HandsOff
    <3> QED BY <1>0, <1>1, <3>1, <3>2
  <2>2. ASSUME NEW x \in s + 1 .. sub.next - 1 PROVE x \in above
    <3>1. x \in a + 1 .. sub.next - 1 /\ x > s /\ ~(x <= s)
      BY <1>0
    <3>2. PICK e \in S : e.kind # "Gap" /\ e.at = x
      BY Zenon, <3>1 DEF HandsOff
    <3>3. e \in B
      BY Zenon, <3>1, <3>2
    <3> QED BY Zenon, <3>1, <3>2, <3>3
  <2> QED BY Zenon, <2>1, <2>2
<1> HIDE DEF above
<1>5. top \in Nat /\ top \in above \cup {s} \cup {0} /\ \A x \in above \cup {s} : x <= top
  <2>1. above \cup {s} \in SUBSET Nat /\ n + s \in Nat /\ s + sub.next \in Nat /\ \A x \in above \cup {s} : x <= s + sub.next
    BY <1>0, <1>4
  <2> HIDE DEF top
  <2>2. top = Highest(above \cup {s})
    BY Zenon DEF top
  <2> QED BY Zenon, <2>1, <2>2, HighestIsMax
<1> HIDE DEF top, st
<1>6. st.at = top /\ st.logs = (1 .. s) \cup above /\ st.floor = s
  BY Zenon, <1>2
<1>7. s <= top /\ (1 .. s) \cup above = 1 .. top /\ (sub.next = top + 1 \/ (sub.next <= top /\ top = s))
  <2>1. CASE sub.next - 1 > s
    <3>1. top = sub.next - 1
      BY <1>0, <1>4, <1>5, <2>1
    <3> QED BY <1>0, <1>4, <2>1, <3>1
  <2>2. CASE ~(sub.next - 1 > s)
    <3>1. above = {}
      BY <1>0, <1>4, <2>2
    <3>2. top = s
      BY <1>5, <3>1
    <3> QED BY <1>0, <2>2, <3>1, <3>2
  <2> QED BY Zenon, <2>1, <2>2
<1> QED BY Zenon, <1>5, <1>6, <1>7 DEF Complete, Joins, st

(* What an update that is pushed leaves in the queue and with the reducer. *)
LEMMA PushedUpdate ==
    ASSUME QueueLaws, QueueInv, told \in Nat, told' \in Nat, told' >= told,
           NEW u, u.kind \in Kinds, u.at \in Nat, u.at <= told', ResolveWaiters(PushCharged(queue, u))
    PROVE  LET e == Entry(u, queue.accepted + 1)
           IN  /\ queue'.ended = queue.ended /\ reducer'.valid = reducer.valid
               /\ Admitted(queue, u) => Pending' = Append(Pending, e)
               /\ reducer.pc = "recovering" /\ Admitted(queue, u) => EntriesOf(queue') = EntriesOf(queue) \cup {e}
               /\ conn.pc # "connected" =>
                     /\ HasBarrier(Range(queue.values)) => HasBarrier(Range(queue'.values))
                     /\ ~queue.ended /\ (~Admitted(queue, u) \/ IsBarrier(u)) => HasBarrier(Range(queue'.values))
                     /\ Admitted(queue, u) => Range(queue'.values) = Range(queue.values) \cup {e}
<1> DEFINE p == PushCharged(queue, u)
           e == Entry(u, queue.accepted + 1)
<1>1. QueueOK(queue) /\ Within(queue, told')
  <2>1. \A x \in EntriesOf(queue) : x.at \in Nat /\ x.at <= told
    <3>1. queue.values \in Seq(Items) /\ queue.staged \in Seq(Items)
      BY DEF QueueInv, QueueOK, QueueTypes
    <3>2. EntriesOf(queue) \subseteq Items
      BY Zenon, <3>1, EntrySets DEF EntriesOf
    <3> QED BY <3>2 DEF QueueInv, Within, Items
  <2> QED BY <2>1 DEF QueueInv, Within
<1>2. /\ QueueOK(p) /\ p.ended = queue.ended
      /\ Admitted(queue, u) => p.values = Append(queue.values, e) /\ p.staged = queue.staged
      /\ ~Admitted(queue, u) /\ ~queue.ended /\ ~queue.recovering => HasBarrier(Range(p.values))
      /\ queue.ended => p = queue
  BY <1>1, PushResult
<1>3. /\ DOMAIN reducer = {"pc", "held", "consumed", "valid"} /\ reducer.held \in Seq(Items)
      /\ reducer.pc # "held" => reducer.held = <<>>
      /\ queue.recovering <=> reducer.pc = "recovering"
      /\ reducer.pc = "unborn" <=> conn.pc # "connected"
  BY Zenon DEF QueueInv, ReducerInv
<1> HIDE DEF p, e
<1>4. /\ queue'.ended = p.ended /\ reducer'.valid = reducer.valid
      /\ reducer'.held \o queue'.values = reducer.held \o p.values
      /\ reducer.pc # "waiting" => queue' = p
  <2>1. ResolveWaiters(p)
    BY Zenon DEF p
  <2> QED BY Zenon, <1>2, <1>3, <2>1, ResolveResult
<1>5. queue.values \in Seq(Items) /\ e \in Items /\ e.kind = u.kind
  <2>1. queue.values \in Seq(Items) /\ queue.accepted \in Nat
    BY DEF QueueInv, QueueOK, QueueTypes
  <2> QED BY <2>1 DEF e, Entry, Items
<1>6. ASSUME Admitted(queue, u)
      PROVE  Pending' = Append(Pending, e) /\ Range(p.values) = Range(queue.values) \cup {e}
  <2>1. p.values = Append(queue.values, e)
    BY Zenon, <1>2, <1>6
  <2>2. reducer.held \o Append(queue.values, e) = Append(reducer.held \o queue.values, e)
    BY <1>3, <1>5
  <2>3. Pending' = Append(Pending, e)
    BY Zenon, <1>4, <2>1, <2>2 DEF Pending
  <2>4. \A s \in Seq(Items), x \in Items : Range(Append(s, x)) = Range(s) \cup {x}
    BY Zenon, EntrySets
  <2>5. Range(Append(queue.values, e)) = Range(queue.values) \cup {e}
    BY Zenon, <1>5, <2>4
  <2> QED BY Zenon, <2>1, <2>3, <2>5
<1>7. ASSUME Admitted(queue, u), reducer.pc = "recovering" PROVE EntriesOf(queue') = EntriesOf(queue) \cup {e}
  <2>1. queue' = p /\ p.staged = queue.staged
    <3>1. reducer.pc # "waiting"
      BY <1>7
    <3> QED BY Zenon, <1>2, <1>4, <1>7, <3>1
  <2>2. Range(queue'.values) = Range(queue.values) \cup {e} /\ Range(queue'.staged) = Range(queue.staged)
    BY Zenon, <1>6, <1>7, <2>1
  <2> HIDE DEF e
  <2> QED BY Zenon, <2>2 DEF EntriesOf
<1>8. ASSUME conn.pc # "connected"
      PROVE  /\ HasBarrier(Range(queue.values)) => HasBarrier(Range(queue'.values))
             /\ ~queue.ended /\ (~Admitted(queue, u) \/ IsBarrier(u)) => HasBarrier(Range(queue'.values))
             /\ Admitted(queue, u) => Range(queue'.values) = Range(queue.values) \cup {e}
  <2>1. queue' = p /\ ~queue.recovering
    <3>1. reducer.pc = "unborn"
      BY Zenon, <1>3, <1>8
    <3> QED BY <1>3, <1>4, <3>1
  <2>2. CASE Admitted(queue, u)
    <3>1. IsBarrier(u) => IsBarrier(e)
      BY Zenon, <1>5 DEF IsBarrier
    <3> QED BY Zenon, <1>6, <2>1, <2>2, <3>1 DEF HasBarrier
  <2>3. CASE ~Admitted(queue, u)
    BY Zenon, <1>2, <2>1, <2>3
  <2> QED BY Zenon, <2>2, <2>3
<1> QED BY Zenon, <1>2, <1>4, <1>6, <1>7, <1>8 DEF e

(* The three updates a stream may deliver.                                 *)
LEMMA ReceivedUpdate ==
    ASSUME SourceTypes, ReceiveLog \/ ReceiveReorg \/ ReceiveGap
    PROVE  \E u, next :
              /\ Receive(u, next) /\ u.kind \in Kinds /\ u.at \in Nat /\ u.at <= told' /\ next \in Nat
              /\ u.kind = "Log" => u.at = sub.next /\ next = sub.next + 1
              /\ u.kind = "Reorg" => u.at = sub.next /\ next \in {sub.next, sub.next + 1}
              /\ u.kind = "Gap" => next = sub.next
<1>0. sub.next \in Nat /\ sub.next + 1 \in Nat /\ sub.next - 1 \in Nat /\ told \in Nat /\ head \in Nat
  BY DEF SourceTypes
<1>1. ASSUME NEW k \in Kinds, NEW b \in Nat
      PROVE  Update(k, b).kind \in Kinds /\ Update(k, b).at \in Nat /\ Update(k, b).kind = k /\ Update(k, b).at = b
  BY Zenon, <1>1 DEF Update
<1>2. ASSUME NEW u, NEW next, Receive(u, next), u.at \in Nat PROVE u.at <= told'
  <2>1. told' = Highest({told, u.at})
    BY Zenon, <1>2 DEF Receive
  <2> QED BY <1>0, <1>2, <2>1, HighestOfTwo
<1>3. CASE ReceiveLog
  <2>1. Receive(Update("Log", sub.next), sub.next + 1) /\ "Log" \in Kinds
    BY Zenon, <1>3 DEF ReceiveLog, Kinds
  <2> QED BY Zenon, <1>0, <1>1, <1>2, <2>1
<1>4. CASE ReceiveReorg
  <2>1. PICK next \in {sub.next, sub.next + 1} : Receive(Update("Reorg", sub.next), next)
    BY Zenon, <1>4 DEF ReceiveReorg
  <2>2. "Reorg" \in Kinds /\ next \in Nat
    BY Zenon, <1>0 DEF Kinds
  <2> QED BY Zenon, <1>0, <1>1, <1>2, <2>1, <2>2
<1>5. CASE ReceiveGap
  <2>1. PICK at \in {None} \cup (sub.next - 1 .. head) : Receive(Update("Gap", at), sub.next)
    BY Zenon, <1>5 DEF ReceiveGap
  <2>2. at \in Nat
    BY <1>0 DEF None
  <2>3. "Gap" \in Kinds
    BY Zenon DEF Kinds
  <2> QED BY Zenon, <1>0, <1>1, <1>2, <2>1, <2>2, <2>3
<1> QED BY Zenon, <1>3, <1>4, <1>5

(* The gap that the pump pushes by itself.                                 *)
LEMMA GapUpdate ==
    LET u == Update("Gap", None)
    IN  u.kind \in Kinds /\ u.at = 0 /\ IsBarrier(u)
BY Zenon DEF Update, Kinds, None, IsBarrier

(* A state that is taken back is not ready.                                *)
LEMMA NotReadyFacts ==
    ASSUME NEW st, DOMAIN st = StateFields
    PROVE  ~NotReady(st).ready /\ DOMAIN NotReady(st) = StateFields
BY Zenon DEF NotReady, StateFields

(* Every step keeps what is known of the tasks.                            *)
LEMMA TasksStep ==
    ASSUME QueueLaws, QueueInvariant, Tame, TasksInv, [Next]_vars, told' \in Nat, told' >= told
    PROVE  TasksInv'
<1>0. SourceTypes /\ QueueInv /\ TaskLink /\ PumpInv /\ DoneInv /\ told \in Nat /\ activity.generation \in Nat
  BY Zenon DEF QueueInvariant, SourceTypes
<1>d. /\ DOMAIN pump = {"pc", "ever", "failed"} /\ DOMAIN stop = {"source", "reducer", "pc", "expired"}
      /\ DOMAIN conn = {"pc", "asked", "through"} /\ DOMAIN state = StateFields
      /\ DOMAIN reducer = {"pc", "held", "consumed", "valid"}
  BY Zenon, <1>0 DEF SourceTypes, QueueInv, ReducerInv, TasksInv
<1>k. ASSUME conn'.pc = conn.pc, stop.source => stop'.source,
             conn.pc = "connected" \/ (stop'.source => stop.source),
             queue'.ended => queue.ended \/ stop'.source, ~reducer'.valid => ~reducer.valid \/ stop'.source,
             pump.ever => pump'.ever, pump'.pc \in {"consuming", "closing"} => pump'.ever,
             activity'.active => activity.active \/ pump'.ever,
             recovery'.lease <= activity'.generation, DOMAIN state' = StateFields,
             conn.pc = "connected" /\ state'.ready =>
                 state.ready /\ activity' = activity /\ stop' = stop /\ recovery'.pc = "none"
      PROVE  TasksInv'
  BY Zenon, <1>k DEF TasksInv
<1>g. \A a : SetActive(a).generation >= activity.generation
  BY <1>0 DEF SetActive
<1>l. /\ recovery.lease <= activity.generation /\ SetActive(FALSE).active = FALSE
      /\ \A a : recovery.lease <= SetActive(a).generation /\ SetActive(a).generation \in Nat
  <2>1. \A a : SetActive(a).generation \in Nat
    BY <1>0 DEF SetActive
  <2>2. SetActive(FALSE).active = FALSE
    BY Zenon DEF SetActive
  <2>3. recovery.lease <= activity.generation /\ recovery.lease \in Nat
    BY Zenon, <1>0 DEF TasksInv, TaskLink
  <2>4. \A a : recovery.lease <= SetActive(a).generation
    BY <1>0, <1>g, <2>1, <2>3
  <2> QED BY Zenon, <2>1, <2>2, <2>3, <2>4
<1>n. NoRecovery.lease = 0 /\ NoRecovery.pc = "none"
  BY Zenon DEF NoRecovery
<1>i. DOMAIN AfterInactive = StateFields /\ (conn.pc = "connected" => ~AfterInactive.ready)
  BY Zenon, <1>d, NotReadyFacts DEF AfterInactive, TasksInv
<1>p. ASSUME NEW u, u.kind \in Kinds, u.at \in Nat, u.at <= told', ResolveWaiters(PushCharged(queue, u))
      PROVE  queue'.ended = queue.ended /\ reducer'.valid = reducer.valid
  BY Zenon, <1>0, <1>p, PushedUpdate
<1>q. ASSUME ResolveWaiters(PushCharged(queue, Update("Gap", None)))
      PROVE  queue'.ended = queue.ended /\ reducer'.valid = reducer.valid
  <2>1. 0 \in Nat /\ 0 <= told'
    OBVIOUS
  <2> QED BY Zenon, <1>p, <1>q, <2>1, GapUpdate
<1>1. CASE NewBlock
  BY Zenon, <1>1, <1>k, <1>d, <1>l DEF NewBlock, TasksInv
<1>2. CASE Pump
  <2>0. ASSUME NEW pc, pump.pc \in {"consuming", "closing"}, pump' \in {[pump EXCEPT !.pc = pc], [pump EXCEPT !.pc = pc, !.failed = TRUE]}
        PROVE  pump'.ever
    BY Zenon, <1>d, <2>0 DEF TasksInv
  <2>1. CASE ReceiveLog \/ ReceiveReorg \/ ReceiveGap
    <3>1. PICK u, next : Receive(u, next) /\ u.kind \in Kinds /\ u.at \in Nat /\ u.at <= told'
      BY Zenon, <1>0, <2>1, ReceivedUpdate
    <3>2. queue'.ended = queue.ended /\ reducer'.valid = reducer.valid /\ UNCHANGED <<conn, stop, recovery>> /\ pump'.ever
      BY Zenon, <1>p, <2>0, <3>1 DEF Receive
    <3>3. CASE activity' = SetActive(FALSE) /\ state' = AfterInactive
      BY Zenon, <1>k, <1>l, <1>i, <3>2, <3>3
    <3>4. CASE UNCHANGED <<activity, state>>
      BY Zenon, <1>k, <1>l, <1>d, <3>2, <3>4 DEF TasksInv
    <3> QED BY Zenon, <3>1, <3>3, <3>4 DEF Receive
  <2>2. CASE Subscribe
    <3>1. pump' = [pump EXCEPT !.pc = "consuming", !.ever = TRUE] /\ activity' = SetActive(TRUE) /\ ~activity.active
      BY Zenon, <1>0, <2>2 DEF Subscribe, PumpInv
    <3>2. pump'.ever
      BY Zenon, <1>d, <3>1
    <3>3. conn.pc = "connected" => ~state.ready
      BY Zenon, <3>1 DEF TasksInv
    <3> QED BY Zenon, <1>k, <1>l, <1>d, <2>2, <3>1, <3>2, <3>3 DEF Subscribe
  <2>3. CASE SubscribeFails
    <3>1. queue'.ended = queue.ended /\ reducer'.valid = reducer.valid
      BY Zenon, <1>q, <2>3 DEF SubscribeFails
    <3>2. pump'.ever = pump.ever /\ pump'.pc \in {"done", "delay"}
      BY Zenon, <1>d, <2>3 DEF SubscribeFails
    <3>3. pump'.pc \notin {"consuming", "closing"}
      BY Zenon, <3>2
    <3> QED BY Zenon, <1>k, <1>l, <1>i, <2>3, <3>1, <3>2, <3>3 DEF SubscribeFails
  <2>4. CASE StreamEnds
    BY Zenon, <1>k, <1>l, <1>i, <1>q, <2>0, <2>4 DEF StreamEnds
  <2>5. CASE StreamThrows \/ StreamCancelled
    <3>1. pump'.ever /\ UNCHANGED <<activity, queue, conn, state, reducer, recovery, stop>>
      BY Zenon, <2>0, <2>5 DEF StreamThrows, StreamCancelled
    <3> QED BY Zenon, <1>k, <1>l, <1>d, <3>1 DEF TasksInv
  <2>6. CASE StreamClosed
    <3>1. queue'.ended = queue.ended /\ reducer'.valid = reducer.valid
      BY Zenon, <1>q, <2>6 DEF StreamClosed
    <3>2. pump'.ever = pump.ever /\ pump'.pc \in {"done", "delay"}
      BY Zenon, <1>d, <2>6 DEF StreamClosed
    <3>3. pump'.pc \notin {"consuming", "closing"}
      BY Zenon, <3>2
    <3> QED BY Zenon, <1>k, <1>l, <1>i, <2>6, <3>1, <3>2, <3>3 DEF StreamClosed
  <2>7. CASE Reconnect
    <3>1. pump'.ever = pump.ever /\ pump'.pc \in {"done", "subscribing"}
      BY Zenon, <1>d, <2>7 DEF Reconnect
    <3>2. pump'.pc \notin {"consuming", "closing"}
      BY Zenon, <3>1
    <3> QED BY Zenon, <1>k, <1>l, <1>d, <2>7, <3>1, <3>2 DEF Reconnect, TasksInv
  <2> QED BY Zenon, <1>2, <2>1, <2>2, <2>3, <2>4, <2>5, <2>6, <2>7 DEF Pump
<1>3. CASE Connect
  <2>f. ASSUME NEW q, FailConnect(q) PROVE TasksInv'
    <3>1. /\ stop' = [stop EXCEPT !.source = TRUE, !.reducer = TRUE] /\ activity' = SetActive(FALSE)
          /\ conn'.pc = "failed" /\ UNCHANGED <<pump, state, reducer, recovery>>
      BY Zenon, <2>f DEF FailConnect
    <3>2. stop'.source
      BY Zenon, <1>d, <3>1
    <3> QED BY Zenon, <1>l, <3>1, <3>2 DEF TasksInv
  <2>1. CASE BootstrapActive
    <3>1. conn'.pc = "snapshot" /\ activity.active /\ conn.pc = "activity"
      BY Zenon, <1>d, <2>1 DEF BootstrapActive, Await, Tame
    <3>2. pump.ever
      BY Zenon, <3>1 DEF TasksInv
    <3> QED BY Zenon, <2>1, <3>1, <3>2 DEF BootstrapActive, TasksInv
  <2>2. CASE SnapshotIndexer
    <3>1. CASE \E q : FailConnect(q)
      BY Zenon, <2>f, <3>1
    <3>2. CASE \E s : Connected(ReplayHandoff(FromSnapshot(s), Range(queue.values)))
      <4>1. PICK s : Connected(ReplayHandoff(FromSnapshot(s), Range(queue.values)))
        BY Zenon, <3>2
      <4> DEFINE st == ReplayHandoff(FromSnapshot(s), Range(queue.values))
      <4>2. DOMAIN st = StateFields
        <5>1. DOMAIN FromSnapshot(s) = StateFields
          BY Zenon DEF FromSnapshot, StateFields
        <5> QED BY Zenon, <5>1 DEF ReplayHandoff
      <4> HIDE DEF st
      <4>3. Connected(st)
        BY Zenon, <4>1 DEF st
      <4>4. /\ conn'.pc = "connected" /\ queue' = DrainAll(queue) /\ reducer' = [reducer EXCEPT !.pc = "loop", !.consumed = queue.accepted]
            /\ state' = (IF activity.active THEN st ELSE NotReady(st)) /\ UNCHANGED <<pump, activity, recovery, stop>>
        BY Zenon, <4>3 DEF Connected
      <4>5. reducer'.valid = reducer.valid /\ reducer.pc = "unborn" /\ conn.pc = "snapshot"
        BY Zenon, <1>d, <1>0, <2>2, <4>4 DEF SnapshotIndexer, QueueInv, ReducerInv
      <4>6. queue'.ended = queue.ended
        <5>1. queue.staged = <<>>
          BY Zenon, <1>0, <4>5 DEF QueueInv, ReducerInv
        <5> QED BY Zenon, <1>0, <4>4, <5>1, DrainResult DEF QueueInv
      <4>7. DOMAIN state' = StateFields /\ (state'.ready => activity.active)
        BY Zenon, <4>2, <4>4, NotReadyFacts
      <4>8. recovery.pc = "none" /\ ~stop.source
        BY Zenon, <1>0, <4>5 DEF TaskLink, TasksInv
      <4> QED BY Zenon, <4>4, <4>5, <4>6, <4>7, <4>8 DEF TasksInv
    <3> QED BY Zenon, <2>2, <3>1, <3>2 DEF SnapshotIndexer
  <2>3. CASE ConnectFails
    BY Zenon, <2>3, <2>f DEF ConnectFails
  <2>4. CASE RestoreHead \/ RestorePage \/ RestoreFails \/ \E valid \in BOOLEAN : CheckpointValidated(valid)
    BY Zenon, <2>4 DEF RestoreHead, RestorePage, RestoreFails, CheckpointValidated, TasksInv
  <2> QED BY Zenon, <1>3, <2>1, <2>2, <2>3, <2>4 DEF Connect
<1>f. ASSUME NEW st, DOMAIN st = StateFields, FailReducer(st), conn.pc = "connected" PROVE TasksInv'
  <2>1. /\ stop' = [stop EXCEPT !.source = TRUE, !.reducer = TRUE] /\ activity' = SetActive(FALSE)
        /\ UNCHANGED <<pump, conn>> /\ recovery' = NoRecovery /\ state' = NotReady(st)
    BY Zenon, <1>f DEF FailReducer
  <2>2. stop'.source /\ DOMAIN state' = StateFields /\ ~state'.ready
    BY Zenon, <1>d, <1>f, <2>1, NotReadyFacts
  <2>3. recovery'.lease <= activity'.generation
    <3>1. \A n \in Nat : 0 <= n
      OBVIOUS
    <3> QED BY Zenon, <1>l, <1>n, <2>1, <3>1
  <2> QED BY Zenon, <1>l, <1>f, <2>1, <2>2, <2>3 DEF TasksInv
<1>b. ASSUME NEW st, DOMAIN st = StateFields, NEW c, NEW failed, Run(st, c, failed), conn.pc = "connected" PROVE TasksInv'
  <2>1. CASE stop.source
    BY Zenon, <1>b, <1>f, <2>1 DEF Run
  <2>2. CASE ~stop.source
    <3>1. /\ state' = NotReady(st) /\ queue' = BeginRecovery(queue, failed)
          /\ reducer' = [reducer EXCEPT !.pc = "recovering", !.held = <<>>, !.consumed = c]
          /\ UNCHANGED <<pump, activity, conn, stop>>
          /\ \E r : recovery' = [NoRecovery EXCEPT !.pc = "lease", !.required = r]
      BY Zenon, <1>b, <2>2 DEF Run
    <3>2. recovery'.lease = 0
      BY Zenon, <1>n, <3>1 DEF NoRecovery
    <3>3. recovery'.lease <= activity'.generation
      BY <1>0, <3>1, <3>2
    <3>4. reducer'.valid = reducer.valid /\ DOMAIN state' = StateFields /\ ~state'.ready
      BY Zenon, <1>b, <1>d, <3>1, NotReadyFacts
    <3>5. queue'.ended = queue.ended
      <4>1. DOMAIN queue = {"values", "staged", "bytes", "accepted", "drained", "ended", "overflowed", "recovering"}
        BY <1>0 DEF QueueInv, QueueOK, QueueTypes
      <4> QED BY Zenon, <3>1, <4>1 DEF BeginRecovery, CollapseOverflow
    <3> QED BY Zenon, <1>b, <3>1, <3>3, <3>4, <3>5 DEF TasksInv
  <2> QED BY Zenon, <2>1, <2>2
<1>t. queue.values # <<>> => Take(queue).ended = queue.ended
  BY Zenon, <1>0, TakeResult DEF QueueInv
<1>4. CASE Reduce
  <2>0. conn.pc = "connected" /\ recovery.pc = "none"
    BY Zenon, <1>0, <1>4 DEF Reduce, ReduceLoop, ReduceWoken, ReduceHeld, QueueInv, ReducerInv, TaskLink
  <2>1. ASSUME UNCHANGED <<pump, activity, conn, recovery, stop>>, queue'.ended = queue.ended,
               reducer'.valid = reducer.valid \/ stop.source,
               state' = state \/ (DOMAIN state' = StateFields /\ (state'.ready => state.ready))
        PROVE  TasksInv'
    BY Zenon, <1>l, <1>d, <2>0, <2>1 DEF TasksInv
  <2>2. CASE ReduceLoop
    <3>1. CASE ReachedBarrier(reducer.consumed) /\ ~stop.reducer
      BY Zenon, <1>b, <1>d, <2>0, <2>2, <3>1 DEF ReduceLoop
    <3>2. CASE ~(ReachedBarrier(reducer.consumed) /\ ~stop.reducer)
      <4>1. reducer'.valid = reducer.valid /\ queue'.ended = queue.ended /\ UNCHANGED <<pump, activity, conn, recovery, stop, state>>
        BY Zenon, <1>d, <1>t, <2>2, <3>2 DEF ReduceLoop
      <4> QED BY Zenon, <2>1, <4>1
    <3> QED BY Zenon, <3>1, <3>2
  <2>3. CASE ReduceWoken
    <3>1. AbortRecovery(queue).ended = queue.ended
      BY Zenon, <1>0, AbortResult DEF QueueInv
    <3>2. reducer'.valid = reducer.valid /\ queue'.ended = queue.ended /\ UNCHANGED <<pump, activity, conn, recovery, stop, state>>
      BY Zenon, <1>d, <2>3, <3>1 DEF ReduceWoken
    <3> QED BY Zenon, <2>1, <3>2
  <2>4. CASE ReduceHeld
    <3> DEFINE e == reducer.held[1]
    <3>1. DOMAIN ApplyLog(state, e) = StateFields /\ ApplyLog(state, e).ready = state.ready
      BY Zenon, <1>d DEF ApplyLog, StateFields
    <3>2. CASE UNCHANGED state \/ state' = ApplyLog(state, e) \/ state' = NotReady(state)
      <4>1. CASE /\ UNCHANGED <<pump, activity, conn, recovery, stop, queue>>
                 /\ \E c, v : /\ reducer' = [reducer EXCEPT !.pc = "loop", !.held = <<>>, !.consumed = c, !.valid = v]
                              /\ v \/ ~reducer.valid \/ stop.source
        <5>1. reducer'.valid \/ ~reducer.valid \/ stop.source
          BY Zenon, <1>d, <4>1
        <5>2. DOMAIN state' = StateFields /\ (state'.ready => state.ready)
          BY Zenon, <1>d, <3>1, <3>2, NotReadyFacts
        <5> QED BY Zenon, <1>l, <1>d, <2>0, <4>1, <5>1, <5>2 DEF TasksInv
      <4>2. CASE \E st, c, failed : DOMAIN st = StateFields /\ Run(st, c, failed)
        BY Zenon, <1>b, <2>0, <4>2
      <4> QED BY Zenon, <1>d, <2>4, <3>1, <4>1, <4>2 DEF ReduceHeld
    <3>3. CASE \E st, c, failed : DOMAIN st = StateFields /\ Run(st, c, failed)
      BY Zenon, <1>b, <2>0, <3>3
    <3> QED BY Zenon, <1>d, <2>4, <3>1, <3>2, <3>3 DEF ReduceHeld
  <2> QED BY Zenon, <1>4, <2>2, <2>3, <2>4 DEF Reduce
<1>5. CASE Recover
  <2>0. conn.pc = "connected" /\ reducer.pc = "recovering" /\ recovery.pc # "none" /\ ~state.ready
    <3>1. recovery.pc # "none"
      BY Zenon, <1>5 DEF Recover, RecoverLease, RecoverValidated, RecoverHead, RecoverFails, RecoverRetries,
                         RecoverPermanent, RecoverAborted, RecoverSnapshot
    <3> QED BY Zenon, <1>0, <3>1 DEF TaskLink, QueueInv, ReducerInv, TasksInv
  <2>1. CASE RecoverPermanent \/ RecoverAborted
    BY Zenon, <1>d, <1>f, <2>0, <2>1 DEF RecoverPermanent, RecoverAborted
  <2>s. StageQueuedForRecovery(queue).ended = queue.ended
    BY Zenon, <1>0, StageResult DEF QueueInv
  <2>d. DOMAIN recovery = {"pc", "lease", "required", "cursorless", "through", "validated", "asked", "pending", "barrier"}
    BY Zenon, <1>0 DEF TaskLink
  <2>k. ASSUME UNCHANGED <<pump, activity, conn, stop, state>>, reducer'.valid = reducer.valid, queue'.ended = queue.ended,
               recovery'.lease \in {recovery.lease, activity.generation}
        PROVE  TasksInv'
    <3>1. recovery'.lease <= activity'.generation
      BY <1>0, <1>l, <2>k
    <3> QED BY Zenon, <1>d, <2>0, <2>k, <3>1 DEF TasksInv
  <2>2. ASSUME NEW rec, DOMAIN rec = DOMAIN recovery, StageAndRead(rec) PROVE recovery'.lease = rec.lease /\ queue'.ended = queue.ended
    BY Zenon, <2>2, <2>d, <2>s DEF StageAndRead
  <2>3. CASE RecoverLease
    <3> DEFINE rec == [recovery EXCEPT !.lease = activity.generation]
    <3>1. DOMAIN rec = DOMAIN recovery /\ rec.lease = activity.generation
      BY Zenon, <2>d
    <3>2. StageAndRead(rec) \/ (recovery' = [rec EXCEPT !.pc = "validate"] /\ UNCHANGED queue)
      BY Zenon, <2>3 DEF RecoverLease
    <3>3. recovery'.lease = activity.generation /\ queue'.ended = queue.ended
      <4>1. CASE StageAndRead(rec)
        <5>1. DOMAIN rec = DOMAIN recovery
          BY Zenon, <3>1
        <5>2. recovery'.lease = rec.lease /\ queue'.ended = queue.ended
          BY Zenon, <2>2, <4>1, <5>1
        <5> QED BY Zenon, <3>1, <5>2
      <4>2. CASE recovery' = [rec EXCEPT !.pc = "validate"] /\ UNCHANGED queue
        BY Zenon, <2>d, <3>1, <4>2
      <4> QED BY Zenon, <3>2, <4>1, <4>2
    <3> QED BY Zenon, <2>3, <2>k, <3>3 DEF RecoverLease
  <2>4. CASE RecoverValidated
    <3> DEFINE rec == [recovery EXCEPT !.validated = TRUE]
    <3>1. DOMAIN rec = DOMAIN recovery /\ rec.lease = recovery.lease
      BY Zenon, <2>d
    <3>2. recovery'.lease = recovery.lease /\ queue'.ended = queue.ended
      BY Zenon, <2>2, <2>4, <3>1 DEF RecoverValidated
    <3> QED BY Zenon, <2>4, <2>k, <3>2 DEF RecoverValidated
  <2>5. CASE RecoverHead \/ RecoverFails \/ RecoverRetries
    <3>1. recovery'.lease = recovery.lease
      BY Zenon, <2>5, <2>d DEF RecoverHead, RecoverFails, RecoverRetries
    <3> QED BY Zenon, <2>5, <2>k, <3>1 DEF RecoverHead, RecoverFails, RecoverRetries
  <2>6. ASSUME NEW s, RecoverSnapshot(s) PROVE TasksInv'
    <3> DEFINE q == Restage(queue)
               buffered == Buffered(s, Range(q.staged))
    <3>1. QueueOK(q) /\ q.values = <<>> /\ ~q.overflowed /\ q.ended = queue.ended
      BY Zenon, <1>0, StageResult DEF QueueInv, Restage
    <3>2. CASE ~(s < recovery.required) /\ MayInstall(buffered)
      <4>1. /\ state' = ReplayHandoff(FromSnapshot(s), buffered) /\ queue' = CompleteRecovery(q) /\ recovery' = NoRecovery
            /\ \E c : reducer' = [reducer EXCEPT !.pc = "loop", !.consumed = c]
            /\ UNCHANGED <<pump, activity, conn, stop>> /\ ~stop.source
        BY Zenon, <2>6, <3>2 DEF RecoverSnapshot
      <4>2. queue'.ended = queue.ended
        <5> HIDE DEF q
        <5> QED BY Zenon, <3>1, <4>1, CompleteResult
      <4>3. reducer'.valid = reducer.valid
        BY Zenon, <1>d, <4>1
      <4>4. DOMAIN state' = StateFields
        <5>1. DOMAIN FromSnapshot(s) = StateFields
          BY Zenon DEF FromSnapshot, StateFields
        <5> QED BY Zenon, <4>1, <5>1 DEF ReplayHandoff
      <4>5. recovery'.pc = "none" /\ recovery'.lease <= activity'.generation
        BY <1>0, <1>n, <4>1
      <4>6. activity.active
        BY Zenon, <3>2 DEF MayInstall, IsCurrent
      <4> QED BY Zenon, <2>0, <4>1, <4>2, <4>3, <4>4, <4>5, <4>6 DEF TasksInv
    <3>3. CASE s < recovery.required \/ ~MayInstall(buffered)
      <4>1. /\ UNCHANGED <<pump, activity, conn, stop, state, reducer>> /\ (queue' = q \/ queue' = queue)
            /\ recovery' = [recovery EXCEPT !.pc = "delay"] \/ \E r : recovery' = [recovery EXCEPT !.pc = "delay", !.required = r]
        BY Zenon, <2>6, <3>3 DEF RecoverSnapshot
      <4>2. recovery'.lease = recovery.lease /\ queue'.ended = queue.ended
        BY Zenon, <2>d, <3>1, <4>1
      <4> QED BY Zenon, <2>k, <4>1, <4>2
    <3> QED BY Zenon, <3>2, <3>3
  <2> QED BY Zenon, <1>5, <2>1, <2>3, <2>4, <2>5, <2>6 DEF Recover
<1>6. CASE Shutdown
  <2>1. stop' = [stop EXCEPT !.pc = "pump", !.source = TRUE] /\ activity' = SetActive(FALSE) /\ state' = NotReady(state)
        /\ UNCHANGED <<pump, queue, conn, reducer, recovery>> /\ conn.pc = "connected"
    BY Zenon, <1>6 DEF Shutdown
  <2>2. stop'.source /\ DOMAIN state' = StateFields /\ ~state'.ready
    BY Zenon, <1>d, <2>1, NotReadyFacts
  <2> QED BY Zenon, <1>k, <1>l, <2>1, <2>2 DEF TasksInv
<1>7. CASE ShutdownPump
  <2>1. stop.source /\ conn.pc = "connected" /\ ~state.ready
    BY Zenon, <1>0, <1>7 DEF ShutdownPump, PumpInv, TasksInv
  <2>2. stop'.source = stop.source
    BY Zenon, <1>d, <1>7 DEF ShutdownPump
  <2> QED BY Zenon, <1>d, <1>l, <1>7, <2>1, <2>2 DEF ShutdownPump, TasksInv
<1>8. CASE ShutdownReducer
  <2>1. stop.source /\ conn.pc = "connected" /\ ~state.ready
    BY Zenon, <1>0, <1>8 DEF ShutdownReducer, PumpInv, TasksInv
  <2>2. stop'.source = stop.source
    BY Zenon, <1>d, <1>8 DEF ShutdownReducer
  <2> QED BY Zenon, <1>d, <1>l, <1>8, <2>1, <2>2 DEF ShutdownReducer, TasksInv
<1>9. ASSUME NEW r \in Requests, Request(r) PROVE TasksInv'
  <2>1. reducer'.valid = reducer.valid /\ UNCHANGED <<pump, activity, queue, conn, recovery, stop>>
    BY Zenon, <1>d, <1>9 DEF Request
  <2>2. state' = state \/ state' = NotReady(state)
    BY Zenon, <1>9 DEF Request
  <2>3. DOMAIN state' = StateFields /\ (state'.ready => state.ready)
    BY Zenon, <1>d, <2>2, NotReadyFacts
  <2> QED BY Zenon, <1>l, <2>1, <2>3 DEF TasksInv
<1>10. CASE UNCHANGED vars
  BY Zenon, <1>10, <1>k, <1>l, <1>d DEF vars, TasksInv
<1> QED BY Zenon, <1>1, <1>2, <1>3, <1>4, <1>5, <1>6, <1>7, <1>8, <1>9, <1>10 DEF Next

(* Every step keeps what a recovery has to hand off.                       *)
LEMMA RecoveryStep ==
    ASSUME QueueLaws, QueueInvariant, Tame, TasksInv, RecoveryInv, [Next]_vars, told' \in Nat, told' >= told
    PROVE  RecoveryInv'
<1>0. /\ SourceTypes /\ QueueInv /\ TaskLink /\ PumpInv /\ told \in Nat /\ activity.generation \in Nat
      /\ sub.next \in Nat /\ sub.base \in Nat /\ recovery.lease \in Nat /\ recovery.asked \in Nat
      /\ DOMAIN sub = {"base", "next"}
  <2>1. sub \in [base : Nat, next : Nat]
    BY Zenon DEF QueueInvariant, SourceTypes
  <2>2. sub.next \in Nat /\ sub.base \in Nat /\ DOMAIN sub = {"base", "next"}
    BY <2>1
  <2> QED BY Zenon, <2>2 DEF QueueInvariant, SourceTypes, TaskLink
<1> DEFINE Reached == sub.next = sub.base + 1 \/ sub.next <= told + 1
<1>s. sub' = sub => Reached'
  BY <1>0 DEF RecoveryInv
<1>x. ASSUME Reached', ~activity'.active \/ recovery'.pc # "snapshot" PROVE RecoveryInv'
  BY Zenon, <1>x DEF RecoveryInv, IsCurrent
<1>k. ASSUME sub' = sub, activity' = activity, EntriesOf(queue') = EntriesOf(queue), recovery' = recovery PROVE RecoveryInv'
  BY Zenon, <1>k, <1>s DEF RecoveryInv, IsCurrent, HandsOff
<1>a. SetActive(FALSE).active = FALSE
  BY Zenon DEF SetActive
<1>n. NoRecovery.pc = "none" /\ DOMAIN NoRecovery = DOMAIN recovery
  BY Zenon, <1>0 DEF NoRecovery, TaskLink
<1>1. CASE NewBlock
  BY Zenon, <1>1, <1>k DEF NewBlock
<1>2. CASE Pump
  <2>1. CASE ReceiveLog \/ ReceiveReorg \/ ReceiveGap
    <3>1. PICK u, next :
             /\ Receive(u, next) /\ u.kind \in Kinds /\ u.at \in Nat /\ u.at <= told' /\ next \in Nat
             /\ u.kind = "Log" => u.at = sub.next /\ next = sub.next + 1
             /\ u.kind = "Reorg" => u.at = sub.next /\ next \in {sub.next, sub.next + 1}
             /\ u.kind = "Gap" => next = sub.next
      BY Zenon, <1>0, <2>1, ReceivedUpdate
    <3>2. sub' = [sub EXCEPT !.next = next] /\ recovery' = recovery /\ ResolveWaiters(PushCharged(queue, u))
      BY Zenon, <3>1 DEF Receive
    <3>3. sub'.next = next /\ sub'.base = sub.base
      BY Zenon, <1>0, <3>2
    <3>4. next = sub.next \/ (next = sub.next + 1 /\ u.at = sub.next)
      BY Zenon, <3>1 DEF Kinds
    <3>5. Reached'
      <4>1. sub.next = sub.base + 1 \/ sub.next <= told + 1
        BY Zenon DEF RecoveryInv
      <4>2. told \in Nat /\ sub.next \in Nat /\ sub.base \in Nat /\ u.at \in Nat /\ u.at <= told'
        BY Zenon, <1>0, <3>1
      <4>3. sub'.next = sub'.base + 1 \/ sub'.next <= told' + 1
        BY <3>3, <3>4, <4>1, <4>2
      <4> QED BY Zenon, <4>3
    <3>6. CASE activity' = SetActive(FALSE) \/ recovery.pc # "snapshot"
      BY Zenon, <1>a, <1>x, <3>2, <3>5, <3>6
    <3>7. CASE Admitted(queue, u) /\ u.kind # "Gap" /\ activity' = activity /\ recovery.pc = "snapshot"
      <4> DEFINE e == Entry(u, queue.accepted + 1)
      <4>1. reducer.pc = "recovering"
        BY Zenon, <1>0, <3>7 DEF TaskLink
      <4>2. EntriesOf(queue') = EntriesOf(queue) \cup {e}
        BY Zenon, <1>0, <3>1, <3>2, <3>7, <4>1, PushedUpdate
      <4>3. e.kind = u.kind /\ e.at = u.at
        BY Zenon DEF Entry
      <4> HIDE DEF e
      <4>4. ASSUME IsCurrent(recovery.lease), NEW b \in recovery.asked + 1 .. next - 1
            PROVE  \E x \in EntriesOf(queue') : x.kind # "Gap" /\ x.at = b
        <5>1. b \in recovery.asked + 1 .. sub.next - 1 \/ (b = sub.next /\ u.at = sub.next)
          BY <1>0, <3>1, <3>4
        <5>2. CASE b \in recovery.asked + 1 .. sub.next - 1
          BY Zenon, <3>7, <4>2, <4>4, <5>2 DEF RecoveryInv, HandsOff
        <5>3. CASE b = sub.next /\ u.at = sub.next
          BY Zenon, <3>7, <4>2, <4>3, <5>3
        <5> QED BY Zenon, <5>1, <5>2, <5>3
      <4>5. ASSUME IsCurrent(recovery.lease), NEW x \in EntriesOf(queue'), x.kind = "Log"
            PROVE  x.at <= recovery.asked \/ x.at < next
        <5>1. CASE x \in EntriesOf(queue)
          <6>1. x.at <= recovery.asked \/ x.at < sub.next
            BY Zenon, <3>7, <4>5, <5>1 DEF RecoveryInv, HandsOff
          <6>2. x.at \in Nat
            <7>1. queue.values \in Seq(Items) /\ queue.staged \in Seq(Items)
              BY <1>0 DEF QueueInv, QueueOK, QueueTypes
            <7>2. EntriesOf(queue) \subseteq Items
              BY Zenon, <7>1, EntrySets DEF EntriesOf
            <7> QED BY <5>1, <7>2 DEF Items
          <6> QED BY <1>0, <3>4, <6>1, <6>2
        <5>2. CASE x = e
          <6>1. x.at = sub.next /\ next = sub.next + 1
            BY Zenon, <3>1, <4>3, <4>5, <5>2
          <6> QED BY <1>0, <6>1
        <5> QED BY Zenon, <4>2, <5>1, <5>2
      <4>6. IsCurrent(recovery.lease)' => IsCurrent(recovery.lease)
        BY Zenon, <3>2, <3>7 DEF IsCurrent
      <4> QED BY Zenon, <3>2, <3>3, <3>5, <4>4, <4>5, <4>6 DEF RecoveryInv, HandsOff
    <3> QED BY Zenon, <3>1, <3>6, <3>7 DEF Receive
  <2>2. CASE Subscribe
    <3>1. sub' = [base |-> head, next |-> head + 1] /\ activity' = SetActive(TRUE) /\ ~activity.active /\ recovery' = recovery
      BY Zenon, <1>0, <2>2 DEF Subscribe, PumpInv
    <3>2. sub'.next = head + 1 /\ sub'.base = head
      BY Zenon, <3>1
    <3>3. activity'.generation = activity.generation + 1
      BY Zenon, <3>1 DEF SetActive
    <3>4. activity'.generation # recovery'.lease
      <4>1. recovery'.lease <= activity.generation /\ recovery'.lease \in Nat /\ activity.generation \in Nat
        BY Zenon, <1>0, <3>1 DEF TasksInv
      <4> QED BY <3>3, <4>1
    <3> QED BY Zenon, <3>2, <3>4 DEF RecoveryInv, IsCurrent
  <2>3. CASE SubscribeFails \/ StreamEnds \/ StreamClosed
    <3>1. sub' = sub /\ activity' = SetActive(FALSE)
      BY Zenon, <2>3 DEF SubscribeFails, StreamEnds, StreamClosed, env
    <3> QED BY Zenon, <1>a, <1>s, <1>x, <3>1
  <2>4. CASE StreamThrows \/ StreamCancelled \/ Reconnect
    BY Zenon, <1>k, <2>4 DEF StreamThrows, StreamCancelled, Reconnect, env
  <2> QED BY Zenon, <1>2, <2>1, <2>2, <2>3, <2>4 DEF Pump
<1>3. CASE Connect
  <2>1. conn.pc # "connected" /\ sub' = sub /\ recovery' = recovery
    BY Zenon, <1>3 DEF Connect, BootstrapActive, ConnectFails, RestoreHead, RestorePage, RestoreFails, SnapshotIndexer,
                       CheckpointValidated, FailConnect, FinishRestore, Connected, env
  <2>2. recovery.pc = "none"
    BY Zenon, <1>0, <2>1 DEF TaskLink, QueueInv, ReducerInv
  <2> QED BY Zenon, <1>s, <1>x, <2>1, <2>2
<1>4. CASE Reduce
  <2>1. recovery.pc = "none"
    BY Zenon, <1>0, <1>4 DEF Reduce, ReduceLoop, ReduceWoken, ReduceHeld, TaskLink
  <2>2. ASSUME NEW st, NEW c, NEW failed, Run(st, c, failed) PROVE sub' = sub /\ recovery'.pc # "snapshot"
    <3>1. CASE stop.source
      BY Zenon, <1>n, <2>2, <3>1 DEF Run, FailReducer
    <3>2. CASE ~stop.source
      <4>1. sub' = sub /\ \E r : recovery' = [NoRecovery EXCEPT !.pc = "lease", !.required = r]
        BY Zenon, <2>2, <3>2 DEF Run, env
      <4>2. recovery'.pc = "lease"
        BY Zenon, <1>0, <1>n, <4>1 DEF TaskLink
      <4> QED BY Zenon, <4>1, <4>2
    <3> QED BY Zenon, <3>1, <3>2
  <2>3. CASE sub' = sub /\ recovery' = recovery
    BY Zenon, <1>s, <1>x, <2>1, <2>3
  <2>4. CASE \E st, c, failed : Run(st, c, failed)
    BY Zenon, <1>s, <1>x, <2>2, <2>4
  <2> QED BY Zenon, <1>4, <2>3, <2>4 DEF Reduce, ReduceLoop, ReduceWoken, ReduceHeld, env
<1>5. CASE Recover
  <2>d. DOMAIN recovery = {"pc", "lease", "required", "cursorless", "through", "validated", "asked", "pending", "barrier"}
    BY Zenon, <1>0 DEF TaskLink
  <2>e. ASSUME sub' = sub, recovery'.asked = ReadFloor, EntriesOf(queue') = EntriesOf(queue) PROVE RecoveryInv'
    <3>1. ReadFloor \in Nat /\ ReadFloor >= sub.base /\ ReadFloor >= told
      BY Zenon, <1>0, ReadFloorFacts DEF Tame
    <3>2. ReadFloor + 1 .. sub.next - 1 = {}
      BY <1>0, <3>1 DEF RecoveryInv
    <3>3. \A x \in EntriesOf(queue) : x.at <= ReadFloor
      <4>1. queue.values \in Seq(Items) /\ queue.staged \in Seq(Items)
        BY <1>0 DEF QueueInv, QueueOK, QueueTypes
      <4>2. EntriesOf(queue) \subseteq Items
        BY Zenon, <4>1, EntrySets DEF EntriesOf
      <4>3. \A x \in EntriesOf(queue) : x.at \in Nat
        BY <4>2 DEF Items
      <4>4. \A x \in EntriesOf(queue) : x.at <= told
        BY Zenon, <1>0 DEF QueueInv, Within
      <4> QED BY <1>0, <3>1, <4>3, <4>4
    <3> QED BY Zenon, <1>s, <2>e, <3>2, <3>3 DEF RecoveryInv, HandsOff
  <2>2. ASSUME NEW rec, DOMAIN rec = DOMAIN recovery, StageAndRead(rec), sub' = sub PROVE RecoveryInv'
    <3>1. EntriesOf(queue') = EntriesOf(queue)
      BY Zenon, <1>0, <2>2, StageResult DEF StageAndRead, QueueInv
    <3>2. recovery'.asked = ReadFloor
      BY Zenon, <2>2, <2>d DEF StageAndRead
    <3> QED BY Zenon, <2>2, <2>e, <3>1, <3>2
  <2>3. CASE RecoverLease
    <3> DEFINE rec == [recovery EXCEPT !.lease = activity.generation]
    <3>1. DOMAIN rec = DOMAIN recovery /\ sub' = sub
      BY Zenon, <2>d, <2>3 DEF RecoverLease, env
    <3>2. CASE StageAndRead(rec)
      BY Zenon, <2>2, <3>1, <3>2
    <3>3. CASE recovery' = [rec EXCEPT !.pc = "validate"]
      <4>1. recovery'.pc = "validate"
        BY Zenon, <2>d, <3>1, <3>3
      <4> QED BY Zenon, <1>s, <1>x, <3>1, <4>1
    <3> QED BY Zenon, <2>3, <3>2, <3>3 DEF RecoverLease
  <2>4. CASE RecoverValidated
    <3> DEFINE rec == [recovery EXCEPT !.validated = TRUE]
    <3>1. DOMAIN rec = DOMAIN recovery /\ sub' = sub /\ StageAndRead(rec)
      BY Zenon, <2>4 DEF RecoverValidated, env
    <3> QED BY Zenon, <2>2, <3>1
  <2>5. CASE RecoverHead
    <3>1. sub' = sub /\ queue' = queue /\ recovery'.asked = ReadFloor
      BY Zenon, <2>5, <2>d DEF RecoverHead, env
    <3> QED BY Zenon, <2>e, <3>1
  <2>6. CASE RecoverFails \/ RecoverRetries
    <3>1. sub' = sub /\ recovery'.pc \in {"delay", "lease"}
      BY Zenon, <2>6, <2>d DEF RecoverFails, RecoverRetries, env
    <3> QED BY Zenon, <1>s, <1>x, <3>1
  <2>7. CASE RecoverPermanent \/ RecoverAborted
    <3>1. sub' = sub /\ recovery' = NoRecovery
      BY Zenon, <2>7 DEF RecoverPermanent, RecoverAborted, FailReducer
    <3> QED BY Zenon, <1>n, <1>s, <1>x, <3>1
  <2>8. ASSUME NEW s, RecoverSnapshot(s) PROVE RecoveryInv'
    <3>1. sub' = sub
      BY Zenon, <2>8 DEF RecoverSnapshot, env
    <3>2. \/ recovery' = NoRecovery \/ recovery' = [recovery EXCEPT !.pc = "delay"]
          \/ \E r : recovery' = [recovery EXCEPT !.pc = "delay", !.required = r]
      BY Zenon, <2>8 DEF RecoverSnapshot
    <3>3. recovery'.pc # "snapshot"
      BY Zenon, <1>n, <2>d, <3>2
    <3> QED BY Zenon, <1>s, <1>x, <3>1, <3>3
  <2> QED BY Zenon, <1>5, <2>3, <2>4, <2>5, <2>6, <2>7, <2>8 DEF Recover
<1>6. CASE Shutdown
  <2>1. sub' = sub /\ activity' = SetActive(FALSE)
    BY Zenon, <1>6 DEF Shutdown, env
  <2> QED BY Zenon, <1>a, <1>s, <1>x, <2>1
<1>7. CASE ShutdownPump
  <2>1. sub' = sub /\ activity' = activity /\ recovery' = recovery /\ ResolveWaiters(Close(queue))
    BY Zenon, <1>7 DEF ShutdownPump, env
  <2>2. CASE recovery.pc # "snapshot"
    BY Zenon, <1>s, <1>x, <2>1, <2>2
  <2>3. CASE recovery.pc = "snapshot"
    <3>1. reducer.pc = "recovering"
      BY Zenon, <1>0, <2>3 DEF TaskLink
    <3>2. queue' = Close(queue)
      BY Zenon, <2>1, <3>1 DEF ResolveWaiters
    <3>3. EntriesOf(queue') = EntriesOf(queue)
      BY Zenon, <1>0, <3>2, CloseResult DEF QueueInv
    <3> QED BY Zenon, <1>k, <2>1, <3>3
  <2> QED BY Zenon, <2>2, <2>3
<1>8. CASE ShutdownReducer
  BY Zenon, <1>k, <1>8 DEF ShutdownReducer, env
<1>9. ASSUME NEW r \in Requests, Request(r) PROVE RecoveryInv'
  BY Zenon, <1>k, <1>9 DEF Request, env
<1>10. CASE UNCHANGED vars
  BY Zenon, <1>10, <1>k DEF vars
<1> QED BY Zenon, <1>1, <1>2, <1>3, <1>4, <1>5, <1>6, <1>7, <1>8, <1>9, <1>10 DEF Next

(* Every step keeps what connect has to hand off.                          *)
LEMMA BootstrapStep ==
    ASSUME QueueLaws, QueueInvariant, Tame, TasksInv, BootstrapInv, [Next]_vars, told' \in Nat, told' >= told
    PROVE  BootstrapInv'
<1> SUFFICES ASSUME conn'.pc \in {"activity", "snapshot"} PROVE BootstrapInv'
  BY Zenon DEF BootstrapInv
<1>0. /\ SourceTypes /\ QueueInv /\ TaskLink /\ PumpInv /\ told \in Nat /\ head \in Nat
      /\ sub.next \in Nat /\ sub.base \in Nat /\ DOMAIN sub = {"base", "next"}
      /\ DOMAIN pump = {"pc", "ever", "failed"} /\ DOMAIN conn = {"pc", "asked", "through"}
  <2>1. sub \in [base : Nat, next : Nat]
    BY Zenon DEF QueueInvariant, SourceTypes
  <2>2. sub.next \in Nat /\ sub.base \in Nat /\ DOMAIN sub = {"base", "next"}
    BY <2>1
  <2> QED BY Zenon, <2>2 DEF QueueInvariant, SourceTypes
<1>c. ASSUME Connect PROVE conn.pc \in {"activity", "snapshot"}
  BY Zenon, <1>c DEF Connect, BootstrapActive, ConnectFails, RestoreHead, RestorePage, RestoreFails, SnapshotIndexer,
                     CheckpointValidated, TasksInv
<1>u. Connect \/ conn' = conn
  BY Zenon DEF Next, NewBlock, Pump, Subscribe, SubscribeFails, ReceiveLog, ReceiveReorg, ReceiveGap, Receive, StreamEnds,
               StreamThrows, StreamCancelled, StreamClosed, Reconnect, Reduce, ReduceLoop, ReduceWoken, ReduceHeld, Run, FailReducer,
               Recover, RecoverLease, RecoverValidated, RecoverHead, RecoverFails, RecoverRetries, RecoverPermanent, RecoverAborted,
               RecoverSnapshot, Shutdown, ShutdownPump, ShutdownReducer, Request, vars
<1>b. conn.pc \in {"activity", "snapshot"}
  BY Zenon, <1>c, <1>u
<1>h. conn.pc # "connected" /\ reducer.pc = "unborn" /\ recovery.pc = "none" /\ ~stop.source /\ ~queue.ended /\ stop.pc = "running" /\ ~Halted
  BY Zenon, <1>0, <1>b DEF QueueInv, ReducerInv, TaskLink, TasksInv, PumpInv, Halted
<1>i. /\ ~pump.ever => queue.values = <<>>
      /\ ~HasBarrier(Range(queue.values)) =>
            /\ HandsOff(sub.base, Range(queue.values))
            /\ pump.ever => pump.pc = "consuming" \/ (pump.pc = "closing" /\ pump.failed)
            /\ conn.pc = "snapshot" => sub.base <= conn.asked
  BY Zenon, <1>b DEF BootstrapInv
<1>w. ASSUME pump'.ever, HasBarrier(Range(queue'.values)) PROVE BootstrapInv'
  BY Zenon, <1>w DEF BootstrapInv
<1>k. ASSUME UNCHANGED <<sub, queue, conn>>, pump'.ever = pump.ever,
             pump'.ever => pump'.pc = "consuming" \/ (pump'.pc = "closing" /\ pump'.failed)
      PROVE  BootstrapInv'
  BY Zenon, <1>i, <1>k DEF BootstrapInv, HandsOff
<1>p. ASSUME NEW u, u.kind \in Kinds, u.at \in Nat, u.at <= told', ResolveWaiters(PushCharged(queue, u))
      PROVE  /\ HasBarrier(Range(queue.values)) => HasBarrier(Range(queue'.values))
             /\ ~Admitted(queue, u) \/ IsBarrier(u) => HasBarrier(Range(queue'.values))
             /\ Admitted(queue, u) => Range(queue'.values) = Range(queue.values) \cup {Entry(u, queue.accepted + 1)}
  BY Zenon, <1>0, <1>h, <1>p, PushedUpdate
<1>q. ASSUME ResolveWaiters(PushCharged(queue, Update("Gap", None))) PROVE HasBarrier(Range(queue'.values))
  <2>1. 0 \in Nat /\ 0 <= told'
    OBVIOUS
  <2> QED BY Zenon, <1>p, <1>q, <2>1, GapUpdate
<1>1. CASE NewBlock \/ UNCHANGED vars
  <2>1. UNCHANGED <<sub, pump, queue, conn>>
    BY Zenon, <1>1 DEF NewBlock, vars
  <2> QED BY Zenon, <1>i, <2>1 DEF BootstrapInv, HandsOff
<1>2. CASE Pump
  <2>1. CASE ReceiveLog \/ ReceiveReorg \/ ReceiveGap
    <3>1. PICK u, next :
             /\ Receive(u, next) /\ u.kind \in Kinds /\ u.at \in Nat /\ u.at <= told' /\ next \in Nat
             /\ u.kind = "Log" => u.at = sub.next /\ next = sub.next + 1
      BY Zenon, <1>0, <2>1, ReceivedUpdate
    <3>2. /\ sub' = [sub EXCEPT !.next = next] /\ conn' = conn /\ ResolveWaiters(PushCharged(queue, u))
          /\ pump.pc = "consuming" /\ \E pc : pump' = [pump EXCEPT !.pc = pc]
          /\ Admitted(queue, u) /\ u.kind # "Gap" => pump' = [pump EXCEPT !.pc = "consuming"]
      BY Zenon, <1>h, <3>1 DEF Receive
    <3>3. sub'.next = next /\ sub'.base = sub.base /\ pump'.ever
      BY Zenon, <1>0, <3>2 DEF TasksInv
    <3>4. CASE ~Admitted(queue, u) \/ IsBarrier(u) \/ HasBarrier(Range(queue.values))
      BY Zenon, <1>p, <1>w, <3>1, <3>2, <3>3, <3>4
    <3>5. CASE Admitted(queue, u) /\ ~IsBarrier(u) /\ ~HasBarrier(Range(queue.values))
      <4> DEFINE e == Entry(u, queue.accepted + 1)
      <4>1. u.kind = "Log" /\ u.at = sub.next /\ next = sub.next + 1
        BY Zenon, <3>1, <3>5 DEF IsBarrier, Kinds
      <4>2. pump'.pc = "consuming"
        BY Zenon, <1>0, <3>2, <3>5, <4>1
      <4>3. Range(queue'.values) = Range(queue.values) \cup {e}
        BY Zenon, <1>p, <3>1, <3>2, <3>5
      <4>4. e.kind = "Log" /\ e.at = sub.next
        BY Zenon, <4>1 DEF Entry
      <4> HIDE DEF e
      <4>5. HandsOff(sub.base, Range(queue.values)) /\ (conn.pc = "snapshot" => sub.base <= conn.asked)
        BY Zenon, <1>i, <3>5
      <4>6. ASSUME NEW b \in sub.base + 1 .. next - 1 PROVE \E x \in Range(queue'.values) : x.kind # "Gap" /\ x.at = b
        <5>1. b \in sub.base + 1 .. sub.next - 1 \/ b = sub.next
          BY <1>0, <4>1
        <5> QED BY Zenon, <4>3, <4>4, <4>5, <5>1 DEF HandsOff
      <4>7. ASSUME NEW x \in Range(queue'.values), x.kind = "Log" PROVE x.at <= sub.base \/ x.at < next
        <5>1. CASE x \in Range(queue.values)
          <6>1. x.at <= sub.base \/ x.at < sub.next
            BY Zenon, <4>5, <4>7, <5>1 DEF HandsOff
          <6>2. x.at \in Nat
            <7>1. queue.values \in Seq(Items)
              BY <1>0 DEF QueueInv, QueueOK, QueueTypes
            <7>2. Range(queue.values) \subseteq Items
              BY Zenon, <7>1, EntrySets
            <7> QED BY <5>1, <7>2 DEF Items
          <6> QED BY <1>0, <4>1, <6>1, <6>2
        <5>2. CASE x = e
          BY <1>0, <4>1, <4>4, <5>2
        <5> QED BY Zenon, <4>3, <5>1, <5>2
      <4> QED BY Zenon, <3>2, <3>3, <4>2, <4>5, <4>6, <4>7 DEF BootstrapInv, HandsOff
    <3> QED BY Zenon, <3>4, <3>5
  <2>2. CASE Subscribe
    <3>1. /\ sub' = [base |-> head, next |-> head + 1] /\ pump' = [pump EXCEPT !.pc = "consuming", !.ever = TRUE]
          /\ pump.pc = "subscribing" /\ UNCHANGED <<queue, conn>>
      BY Zenon, <2>2 DEF Subscribe
    <3>2. sub'.base = head /\ sub'.next = head + 1 /\ pump'.pc = "consuming" /\ pump'.ever
      BY Zenon, <1>0, <3>1
    <3>3. CASE pump.ever
      BY Zenon, <1>i, <1>w, <3>1, <3>2, <3>3
    <3>4. CASE ~pump.ever
      <4>1. conn.pc # "snapshot" /\ Range(queue'.values) = {}
        BY Zenon, <1>i, <3>1, <3>4, EntrySets DEF TasksInv
      <4>2. head + 1 .. (head + 1) - 1 = {}
        BY <1>0
      <4> QED BY Zenon, <3>1, <3>2, <4>1, <4>2 DEF BootstrapInv, HandsOff
    <3> QED BY Zenon, <3>3, <3>4
  <2>3. CASE SubscribeFails
    <3>1. pump'.ever = pump.ever /\ UNCHANGED <<sub, conn>>
      BY Zenon, <1>0, <2>3 DEF SubscribeFails
    <3>2. CASE pump.ever
      BY Zenon, <1>h, <1>q, <1>w, <2>3, <3>1, <3>2 DEF SubscribeFails
    <3>3. CASE ~pump.ever
      BY Zenon, <1>k, <2>3, <3>1, <3>3 DEF SubscribeFails
    <3> QED BY Zenon, <3>2, <3>3
  <2>4. CASE StreamEnds
    <3>1. pump'.ever = pump.ever /\ pump.ever
      BY Zenon, <1>0, <2>4 DEF StreamEnds, TasksInv
    <3> QED BY Zenon, <1>q, <1>w, <2>4, <3>1 DEF StreamEnds
  <2>5. CASE StreamThrows
    <3>1. pump'.ever = pump.ever /\ pump'.pc = "closing" /\ pump'.failed
      BY Zenon, <1>0, <2>5 DEF StreamThrows
    <3> QED BY Zenon, <1>k, <2>5, <3>1 DEF StreamThrows
  <2>6. CASE StreamClosed
    <3>1. pump'.ever = pump.ever /\ pump.ever
      BY Zenon, <1>0, <2>6 DEF StreamClosed, TasksInv
    <3>2. CASE pump.failed
      BY Zenon, <1>h, <1>q, <1>w, <2>6, <3>1, <3>2 DEF StreamClosed
    <3>3. CASE ~pump.failed
      <4>1. HasBarrier(Range(queue.values)) /\ queue' = queue
        BY Zenon, <1>i, <2>6, <3>1, <3>3 DEF StreamClosed
      <4> QED BY Zenon, <1>w, <3>1, <4>1
    <3> QED BY Zenon, <3>2, <3>3
  <2>7. CASE Reconnect
    <3>1. pump'.ever = pump.ever /\ pump.pc = "delay" /\ UNCHANGED <<sub, queue, conn>>
      BY Zenon, <1>0, <2>7 DEF Reconnect, env
    <3>2. CASE pump.ever
      BY Zenon, <1>i, <1>w, <3>1, <3>2
    <3>3. CASE ~pump.ever
      BY Zenon, <1>k, <3>1, <3>3
    <3> QED BY Zenon, <3>2, <3>3
  <2>8. ~StreamCancelled
    BY Zenon, <1>h DEF StreamCancelled
  <2> QED BY Zenon, <1>2, <2>1, <2>2, <2>3, <2>4, <2>5, <2>6, <2>7, <2>8 DEF Pump
<1>3. CASE Connect
  <2>1. CASE BootstrapActive
    <3>1. conn' = [conn EXCEPT !.pc = "snapshot", !.asked = ReadFloor] /\ UNCHANGED <<sub, pump, queue>>
      BY Zenon, <2>1 DEF BootstrapActive, Await, Tame, env
    <3>2. conn'.asked = ReadFloor
      BY Zenon, <1>0, <3>1
    <3>3. sub.base <= conn'.asked
      <4>1. ReadFloor \in Nat /\ ReadFloor >= sub.base
        BY Zenon, <1>0, ReadFloorFacts DEF Tame
      <4> QED BY <1>0, <3>2, <4>1
    <3> QED BY Zenon, <1>i, <3>1, <3>3 DEF BootstrapInv, HandsOff
  <2>2. CASE ConnectFails \/ SnapshotIndexer
    <3>1. ASSUME NEW q, FailConnect(q) PROVE conn'.pc = "failed"
      BY Zenon, <3>1 DEF FailConnect
    <3>2. ASSUME NEW st, Connected(st) PROVE conn'.pc = "connected"
      BY Zenon, <3>2 DEF Connected
    <3> QED BY Zenon, <2>2, <3>1, <3>2 DEF ConnectFails, SnapshotIndexer
  <2>3. CASE RestoreHead \/ RestorePage \/ RestoreFails \/ \E valid \in BOOLEAN : CheckpointValidated(valid)
    BY Zenon, <1>b, <2>3 DEF RestoreHead, RestorePage, RestoreFails, CheckpointValidated
  <2> QED BY Zenon, <1>3, <2>1, <2>2, <2>3 DEF Connect
<1>4. ~Reduce
  BY Zenon, <1>h DEF Reduce, ReduceLoop, ReduceWoken, ReduceHeld
<1>5. ~Recover
  BY Zenon, <1>h DEF Recover, RecoverLease, RecoverValidated, RecoverHead, RecoverFails, RecoverRetries, RecoverPermanent,
                     RecoverAborted, RecoverSnapshot
<1>6. ~Shutdown /\ ~ShutdownPump /\ ~ShutdownReducer /\ \A r \in Requests : ~Request(r)
  BY Zenon, <1>h DEF Shutdown, ShutdownPump, ShutdownReducer, Request
<1> QED BY Zenon, <1>1, <1>2, <1>3, <1>4, <1>5, <1>6 DEF Next
=============================================================================
