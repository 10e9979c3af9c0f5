------------------------ MODULE ParserSessionProofs -------------------------
(***************************************************************************)
(* The session with a Monad parser, for every acknowledgement interval and *)
(* every number of records, parsers and faults: what the lifecycle has     *)
(* seen is the records after the tail it started from, and only records    *)
(* that the session has processed are acknowledged.                        *)
(***************************************************************************)
EXTENDS ParserSession, TLAPS

(* The connection has read no record that the session has not, and waits   *)
(* only for an acknowledgement between the session's two cursors.          *)
Cursors(s, c) ==
    /\ DOMAIN s = {"connected", "stream", "acknowledged", "processed", "rebase", "lifecycle", "base"}
    /\ s.base \in Nat /\ s.acknowledged \in Nat /\ s.processed \in Nat
    /\ s.base <= s.acknowledged /\ s.acknowledged <= s.processed
    /\ DOMAIN c = {"phase", "stream", "lastSeen", "pending", "left"}
    /\ c.lastSeen \in Nat /\ c.pending \in Nat /\ c.lastSeen <= s.processed
    /\ c.pending # 0 => AckIsValid(s, c.pending)

Remote(p) == DOMAIN p = {"stream", "latest", "earliest", "acked"} /\ p.latest \in Nat

SessionInv == Remote(parser) /\ Cursors(session, conn) /\ ReplayedOnce

-----------------------------------------------------------------------------
(* Giving up a connection keeps the cursors of the session.                *)
LEMMA Disconnected ==
    ASSUME NEW s, NEW c, Cursors(s, c), Disconnect(s)
    PROVE  Cursors(session', conn') /\ session'.base = s.base /\ session'.processed = s.processed
<1>1. conn' = NoConn /\ session' = [s EXCEPT !.connected = FALSE]
  BY DEF Disconnect
<1>2. /\ DOMAIN NoConn = {"phase", "stream", "lastSeen", "pending", "left"}
      /\ NoConn.lastSeen = 0 /\ NoConn.pending = 0
  BY DEF NoConn
<1> QED BY <1>1, <1>2 DEF Cursors

(* A rebase keeps the cursors until the next connection.                   *)
LEMMA Rebased ==
    ASSUME NEW s, NEW c, Cursors(s, c)
    PROVE  /\ Cursors(MarkRebase(s), c) /\ MarkRebase(s).base = s.base /\ MarkRebase(s).processed = s.processed
           /\ Cursors(ClearIdentityForRebase(s), c)
           /\ ClearIdentityForRebase(s).base = s.base /\ ClearIdentityForRebase(s).processed = s.processed
BY DEF Cursors, MarkRebase, ClearIdentityForRebase, AckIsValid

(* An acknowledgement that is sent names the last record read.             *)
LEMMA Acknowledged ==
    ASSUME NEW s, NEW c, Cursors(s, c), Remote(parser), SendAck(c, s)
    PROVE  Cursors(s, conn') /\ Remote(parser')
<1>0. AckInterval \in Nat
  BY ParserSessionAssumption
<1>1. CASE c.pending = 0 /\ c.lastSeen - s.acknowledged >= AckInterval
  <2>1. /\ conn' = [c EXCEPT !.phase = "streaming", !.pending = c.lastSeen]
        /\ parser' = [parser EXCEPT !.acked = c.lastSeen]
    BY <1>1 DEF SendAck
  <2> QED BY <1>0, <1>1, <2>1 DEF Cursors, Remote, AckIsValid
<1>2. CASE ~(c.pending = 0 /\ c.lastSeen - s.acknowledged >= AckInterval)
  <2>1. conn' = [c EXCEPT !.phase = "streaming"] /\ parser' = parser
    BY <1>2 DEF SendAck
  <2> QED BY <2>1 DEF Cursors, Remote, AckIsValid
<1> QED BY <1>1, <1>2

(* The records after b up to n, and the next one.                          *)
LEMMA OneMoreRecord ==
    ASSUME NEW b \in Nat, NEW n \in Nat, b <= n
    PROVE  Append([i \in 1..(n - b) |-> b + i], n + 1) = [i \in 1..((n + 1) - b) |-> b + i]
<1> DEFINE old == [i \in 1..(n - b) |-> b + i]
           new == [i \in 1..((n + 1) - b) |-> b + i]
<1>1. n - b \in Nat /\ old \in Seq(Nat) /\ Len(old) = n - b /\ new \in Seq(Nat) /\ Len(new) = n - b + 1
  OBVIOUS
<1>2. Append(old, n + 1) \in Seq(Nat) /\ Len(Append(old, n + 1)) = n - b + 1
  BY <1>1
<1>3. ASSUME NEW i \in 1..(n - b + 1) PROVE Append(old, n + 1)[i] = new[i]
  <2>1. CASE i \in 1..(n - b)
    BY <1>1, <2>1
  <2>2. CASE i = n - b + 1
    BY <1>1, <2>2
  <2> QED BY <1>1, <2>1, <2>2
<1> HIDE DEF old, new
<1>4. Append(old, n + 1) = new
  BY <1>1, <1>2, <1>3
<1> QED BY <1>4 DEF old, new

-----------------------------------------------------------------------------
(* A step that keeps session and feed.                                     *)
LEMMA SessionKept ==
    ASSUME ReplayedOnce, session'.base = session.base, session'.processed = session.processed, feed' = feed
    PROVE  ReplayedOnce'
BY DEF ReplayedOnce

(* connect(): a new lifecycle starts at the tail with nothing handed over. *)
LEMMA ConnectStep ==
    ASSUME SessionInv, Connect
    PROVE  SessionInv'
<1>0. Remote(parser) /\ Cursors(session, conn) /\ ReplayedOnce /\ parser' = parser
  BY DEF SessionInv, Connect
<1>1. CASE IdentityChanged(session, parser.stream) /\ Disconnect(ClearIdentityForRebase(session)) /\ UNCHANGED feed
  <2>1. Cursors(session', conn') /\ session'.base = session.base /\ session'.processed = session.processed
    BY Zenon, <1>0, <1>1, Rebased, Disconnected
  <2> QED BY Zenon, <1>0, <1>1, <2>1, SessionKept DEF SessionInv
<1>2. CASE ~IdentityChanged(session, parser.stream)
  <2>0. PICK s : s = Prepare(session, parser.stream, parser.latest)
    OBVIOUS
  <2>1. /\ session' = [s EXCEPT !.connected = TRUE]
        /\ conn' = [NoConn EXCEPT !.phase = "subscribing", !.stream = parser.stream, !.lastSeen = s.acknowledged]
        /\ feed' = IF StartsAtTail(session) THEN <<>> ELSE feed
    BY <1>2, <2>0 DEF Connect
  <2>2. /\ DOMAIN s = {"connected", "stream", "acknowledged", "processed", "rebase", "lifecycle", "base"}
        /\ s.base \in Nat /\ s.acknowledged \in Nat /\ s.processed \in Nat
        /\ s.base <= s.acknowledged /\ s.acknowledged <= s.processed
        /\ IF StartsAtTail(session) THEN s.base = s.processed ELSE s = session
    BY <1>0, <2>0 DEF Prepare, Cursors, Remote
  <2>3. Cursors(session', conn') /\ session'.base = s.base /\ session'.processed = s.processed
    BY <2>1, <2>2 DEF Cursors, NoConn
  <2>4. CASE StartsAtTail(session)
    <3>1. feed' = <<>> /\ session'.processed - session'.base = 0 /\ session'.base \in Nat
      BY <2>1, <2>2, <2>3, <2>4
    <3>2. ReplayedOnce'
      BY <3>1 DEF ReplayedOnce
    <3> QED BY Zenon, <1>0, <2>3, <3>2 DEF SessionInv
  <2>5. CASE ~StartsAtTail(session)
    <3>1. ReplayedOnce'
      BY Zenon, <1>0, <2>1, <2>2, <2>3, <2>5, SessionKept
    <3> QED BY Zenon, <1>0, <2>3, <3>1 DEF SessionInv
  <2> QED BY <2>4, <2>5
<1> QED BY Zenon, <1>1, <1>2 DEF Connect

(* process(): a record behind the cursor is skipped, the one after it is   *)
(* handed over, any other gives the session up.                            *)
LEMMA ReadRecordStep ==
    ASSUME SessionInv, ReadRecord
    PROVE  SessionInv'
<1> DEFINE n == conn.lastSeen + 1
           c == [conn EXCEPT !.lastSeen = n]
<1>0. Remote(parser) /\ Cursors(session, conn) /\ ReplayedOnce /\ n \in Nat
  BY DEF SessionInv, Cursors
<1>1. CASE IsReplayed(session, n) /\ SendAck(c, session) /\ UNCHANGED <<session, feed>>
  <2>1. Cursors(session, c)
    BY <1>0, <1>1 DEF Cursors, IsReplayed
  <2>2. Cursors(session, conn') /\ Remote(parser')
    BY Zenon, <1>0, <1>1, <2>1, Acknowledged
  <2> QED BY Zenon, <1>0, <1>1, <2>2, SessionKept DEF SessionInv
<1>2. CASE /\ Accepts(session, n) /\ session' = [session EXCEPT !.processed = n] /\ feed' = Append(feed, n)
           /\ IF Yields[n] = 0 THEN SendAck(c, session')
              ELSE conn' = [c EXCEPT !.phase = "yielding", !.left = Yields[n]] /\ UNCHANGED parser
  <2>1. n = session.processed + 1 /\ session'.base = session.base /\ session'.processed = n
    BY <1>0, <1>2 DEF Accepts, Cursors
  <2>2. Cursors(session', c)
    BY <1>0, <1>2, <2>1 DEF Cursors, AckIsValid
  <2>3. Cursors(session', conn') /\ Remote(parser')
    <3>1. CASE Yields[n] = 0
      BY Zenon, <1>0, <1>2, <2>2, <3>1, Acknowledged
    <3>2. CASE Yields[n] # 0
      BY <1>0, <1>2, <2>2, <3>2 DEF Cursors, AckIsValid
    <3> QED BY <3>1, <3>2
  <2>4. ReplayedOnce'
    BY <1>0, <1>2, <2>1, OneMoreRecord DEF ReplayedOnce, Cursors
  <2> QED BY Zenon, <2>3, <2>4 DEF SessionInv
<1>3. CASE Disconnect(MarkRebase(session)) /\ UNCHANGED <<parser, feed>>
  <2>1. Cursors(session', conn') /\ session'.base = session.base /\ session'.processed = session.processed
    BY Zenon, <1>0, <1>3, Rebased, Disconnected
  <2> QED BY Zenon, <1>0, <1>3, <2>1, SessionKept DEF SessionInv
<1> HIDE DEF c, n
<1> QED BY Zenon, <1>1, <1>2, <1>3 DEF ReadRecord, c, n

(* Every step keeps the session's cursors and what was handed over.        *)
LEMMA SessionStep ==
    ASSUME SessionInv, [Next]_vars
    PROVE  SessionInv'
<1>0. Remote(parser) /\ Cursors(session, conn) /\ ReplayedOnce
  BY DEF SessionInv
<1>d. ASSUME UNCHANGED <<parser, feed>>, Disconnect(session) \/ Disconnect(MarkRebase(session))
      PROVE  SessionInv'
  <2>1. Cursors(session', conn') /\ session'.base = session.base /\ session'.processed = session.processed
    BY Zenon, <1>0, <1>d, Rebased, Disconnected
  <2> QED BY Zenon, <1>0, <1>d, <2>1, SessionKept DEF SessionInv
<1>k. ASSUME UNCHANGED <<session, conn, feed>>, Remote(parser') PROVE SessionInv'
  BY Zenon, <1>0, <1>k, SessionKept DEF SessionInv
<1>1. CASE Connect
  BY Zenon, <1>1, ConnectStep
<1>2. CASE Subscribe
  <2>1. CASE Disconnect(session) \/ Disconnect(ReplayGap(session))
    BY Zenon, <1>2, <1>d, <2>1 DEF Subscribe, ReplayGap
  <2>2. CASE conn' = [conn EXCEPT !.phase = "streaming"] /\ UNCHANGED session
    <3>1. Cursors(session, conn')
      BY <1>0, <2>2 DEF Cursors
    <3> QED BY Zenon, <1>0, <1>2, <2>2, <3>1, SessionKept DEF SessionInv, Subscribe
  <2> QED BY Zenon, <1>2, <2>1, <2>2 DEF Subscribe
<1>3. CASE ReadRecord
  BY Zenon, <1>3, ReadRecordStep
<1>4. CASE YieldEvent
  <2> DEFINE c == [conn EXCEPT !.left = @ - 1]
  <2>1. Cursors(session, c)
    BY <1>0 DEF Cursors
  <2>2. Cursors(session, conn') /\ Remote(parser')
    BY Zenon, <1>0, <1>4, <2>1, Acknowledged DEF YieldEvent
  <2> QED BY Zenon, <1>0, <1>4, <2>2, SessionKept DEF SessionInv, YieldEvent
<1>5. CASE ReadAck
  <2>1. CASE AckIsValid(session, conn.pending)
    <3>1. session' = [session EXCEPT !.acknowledged = conn.pending] /\ conn' = [conn EXCEPT !.pending = 0]
      BY Zenon, <1>5, <2>1 DEF ReadAck, ConfirmAck
    <3>2. Cursors(session', conn') /\ session'.base = session.base /\ session'.processed = session.processed
      BY <1>0, <2>1, <3>1 DEF Cursors, AckIsValid
    <3> QED BY Zenon, <1>0, <1>5, <3>2, SessionKept DEF SessionInv, ReadAck
  <2>2. CASE ~AckIsValid(session, conn.pending)
    BY Zenon, <1>5, <1>d, <2>2 DEF ReadAck
  <2> QED BY <2>1, <2>2
<1>6. CASE ReadGap \/ ReadInvalid \/ Closed \/ Dropped
  BY Zenon, <1>6, <1>d DEF ReadGap, ReadInvalid, Closed, Dropped
<1>7. CASE AppendRecord
  <2>1. Remote(parser')
    BY <1>0, <1>7 DEF AppendRecord, Remote
  <2> QED BY Zenon, <1>7, <1>k, <2>1 DEF AppendRecord
<1>8. CASE ExpireRecord
  <2>1. Remote(parser')
    BY <1>0, <1>8 DEF ExpireRecord, Remote
  <2> QED BY Zenon, <1>8, <1>k, <2>1 DEF ExpireRecord
<1>9. CASE ReplaceParser
  <2>1. Remote(parser')
    BY <1>9 DEF ReplaceParser, Remote
  <2> QED BY Zenon, <1>9, <1>k, <2>1 DEF ReplaceParser
<1>10. CASE Commit
  BY Zenon, <1>0, <1>10, <1>k DEF Commit
<1>11. CASE UNCHANGED vars
  BY Zenon, <1>0, <1>11, <1>k DEF vars
<1> QED BY Zenon, <1>1, <1>2, <1>3, <1>4, <1>5, <1>6, <1>7, <1>8, <1>9, <1>10, <1>11 DEF Next

(* The cursors of the session, of its connection and of what the lifecycle *)
(* has seen stay related through any reconnects, replays, rebases and      *)
(* replaced parsers.                                                       *)
THEOREM SessionInvariant ==
    Spec => []SessionInv
<1>1. Init => SessionInv
  <2> SUFFICES ASSUME Init PROVE SessionInv
    OBVIOUS
  <2>1. Remote(parser)
    BY DEF Init, Remote
  <2>2. Cursors(session, conn)
    BY DEF Init, Cursors, NewSession, NoConn
  <2>3. ReplayedOnce
    BY DEF Init, ReplayedOnce, NewSession
  <2> QED BY Zenon, <2>1, <2>2, <2>3 DEF SessionInv
<1>2. SessionInv /\ [Next]_vars => SessionInv'
  BY Zenon, SessionStep
<1> QED BY <1>1, <1>2, PTL DEF Spec

(* The lifecycle sees every record after its tail once and in order, and   *)
(* confirm_ack() refuses no answer to an acknowledgement (session.rs       *)
(* prepare, process, confirm_ack; v2.rs stream).                           *)
THEOREM RecordsHandedOverOnce ==
    Spec => []HandedOverOnce
<1>1. SessionInv => HandedOverOnce
  BY Zenon DEF SessionInv, Cursors, HandedOverOnce, AckNeverRefused
<1> QED BY <1>1, SessionInvariant, PTL
=============================================================================
