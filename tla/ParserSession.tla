---------------------------- MODULE ParserSession ----------------------------
(***************************************************************************)
(* The durable (protocol v2) session of the Monad parser source: a resume  *)
(* cursor and a proposal lifecycle that outlive connections, over a parser *)
(* that numbers its records, retains a suffix of them, and may be replaced *)
(* by one with a new stream identity.                                      *)
(*                                                                         *)
(* A record is its sequence; what the lifecycle makes of it is modelled in *)
(* MonadLifecycle and is here the number of events it yields, or a refusal *)
(* (a persisted gap record or an error of the lifecycle).  A malformed     *)
(* message, a wrong subscription or response id and a skipped sequence end *)
(* the stream alike and are one action.  Events leave one at a time: the   *)
(* consumer may drop the stream between any two of them.                   *)
(***************************************************************************)
EXTENDS Integers, Sequences

CONSTANTS
    AckInterval,
    Yields,       \* number of events of each record, by sequence
    Refused,      \* sequences that end the stream: persisted gap or lifecycle error
    MaxStreams, MaxFaults

VARIABLES
    parser,     \* the remote parser: identity, retained records, acknowledgement
    session,    \* ParserV2Session
    conn,       \* the one connection: handshake and stream
    feed,       \* ghost: records handed over under the present lifecycle
    committed,  \* ghost: last record whose events the consumer has stored
    faults

vars == <<parser, session, conn, feed, committed, faults>>

MaxSeq == Len(Yields)
NoStream == 0

ASSUME ParserSessionAssumption ==
    /\ AckInterval \in Nat \ {0} /\ MaxStreams \in Nat \ {0} /\ MaxFaults \in Nat
    /\ Yields \in Seq(Nat) /\ Refused \subseteq 1..Len(Yields)
-----------------------------------------------------------------------------
(* ParserV2Session *)

NewSession == [connected |-> FALSE, stream |-> NoStream, acknowledged |-> 0,
               processed |-> 0, rebase |-> FALSE, lifecycle |-> FALSE, base |-> 0]

MarkRebase(s) == [s EXCEPT !.rebase = TRUE, !.lifecycle = FALSE]
ClearIdentityForRebase(s) == [MarkRebase(s) EXCEPT !.stream = NoStream]

IdentityChanged(s, stream) == s.stream # NoStream /\ s.stream # stream
StartsAtTail(s) == s.stream = NoStream \/ s.rebase

\* prepare() for an identity that did not change: a new or rebased session
\* starts at the tail with a fresh lifecycle, another resumes where it was.
Prepare(s, stream, latest) ==
    IF StartsAtTail(s)
    THEN [s EXCEPT !.stream = stream, !.acknowledged = latest, !.processed = latest,
                   !.rebase = FALSE, !.lifecycle = TRUE, !.base = latest]
    ELSE s

\* process(): a record at or below the cursor was processed before.
IsReplayed(s, n) == n <= s.processed

Accepts(s, n) == n = s.processed + 1 /\ s.lifecycle /\ n \notin Refused

\* One cursor for both: what was processed since is forgotten.
ConfirmAckRewinds(s, n) == [s EXCEPT !.acknowledged = n, !.processed = n]

ConfirmAck(s, n) == [s EXCEPT !.acknowledged = n]
AckIsValid(s, n) == s.acknowledged <= n /\ n <= s.processed
-----------------------------------------------------------------------------
(* The connection *)

NoConn == [phase |-> "none", stream |-> NoStream, lastSeen |-> 0, pending |-> 0, left |-> 0]

\* Dropping the connection, or the future that was opening it, drops its lease.
Disconnect(s) ==
    /\ conn' = NoConn
    /\ session' = [s EXCEPT !.connected = FALSE]

\* connect() takes the lease and establish() sends the handshake.  A parser
\* asked for another identity answers with an error or with its own.
Connect ==
    /\ conn.phase = "none" /\ ~session.connected
    /\ \/ /\ IdentityChanged(session, parser.stream)
          /\ Disconnect(ClearIdentityForRebase(session))
          /\ UNCHANGED feed
       \/ /\ ~IdentityChanged(session, parser.stream)
          /\ LET s == Prepare(session, parser.stream, parser.latest)
             IN  /\ session' = [s EXCEPT !.connected = TRUE]
                 /\ conn' = [NoConn EXCEPT !.phase = "subscribing", !.stream = parser.stream,
                                           !.lastSeen = s.acknowledged]
          /\ feed' = IF StartsAtTail(session) THEN <<>> ELSE feed
    /\ UNCHANGED <<parser, committed, faults>>

\* An expired replay position without a rebase: only the attempt is given up.
ReplayGapKept(s) == s
ReplayGap(s) == MarkRebase(s)

\* The subscription names the position to resume after and is answered by its
\* replay bounds, by a gap when that position has expired, or by an error when
\* the parser was replaced since the handshake.
Subscribe ==
    /\ conn.phase = "subscribing"
    /\ \/ /\ parser.stream # conn.stream
          /\ Disconnect(session)
       \/ /\ parser.stream = conn.stream
          /\ conn.lastSeen + 1 < parser.earliest
          /\ Disconnect(ReplayGap(session))
       \/ /\ parser.stream = conn.stream
          /\ conn.lastSeen + 1 >= parser.earliest
          /\ conn' = [conn EXCEPT !.phase = "streaming"]
          /\ UNCHANGED session
    /\ UNCHANGED <<parser, feed, committed, faults>>

\* An acknowledgement one record too far.
SendAckAhead(c, s) ==
    IF c.pending = 0 /\ c.lastSeen - s.acknowledged >= AckInterval
    THEN /\ conn' = [c EXCEPT !.phase = "streaming", !.pending = c.lastSeen + 1]
         /\ parser' = [parser EXCEPT !.acked = c.lastSeen + 1]
    ELSE /\ conn' = [c EXCEPT !.phase = "streaming"]
         /\ UNCHANGED parser

\* The tail of the loop: one acknowledgement in flight, sent once enough
\* records have passed since the last one confirmed.
SendAck(c, s) ==
    IF c.pending = 0 /\ c.lastSeen - s.acknowledged >= AckInterval
    THEN /\ conn' = [c EXCEPT !.phase = "streaming", !.pending = c.lastSeen]
         /\ parser' = [parser EXCEPT !.acked = c.lastSeen]
    ELSE /\ conn' = [c EXCEPT !.phase = "streaming"]
         /\ UNCHANGED parser

Streaming == conn.phase = "streaming"
Attached == parser.stream = conn.stream

\* The next record in order.  Its events are handed over before the loop goes
\* on; a replayed record has none.
ReadRecord ==
    LET n == conn.lastSeen + 1
        c == [conn EXCEPT !.lastSeen = n]
    IN  /\ Streaming /\ Attached
        /\ parser.earliest <= n /\ n <= parser.latest
        /\ \/ /\ IsReplayed(session, n)
              /\ SendAck(c, session)
              /\ UNCHANGED <<session, feed>>
           \/ /\ ~IsReplayed(session, n) /\ Accepts(session, n)
              /\ session' = [session EXCEPT !.processed = n]
              /\ feed' = Append(feed, n)
              /\ IF Yields[n] = 0 THEN SendAck(c, session')
                 ELSE /\ conn' = [c EXCEPT !.phase = "yielding", !.left = Yields[n]]
                      /\ UNCHANGED parser
           \/ /\ ~IsReplayed(session, n) /\ ~Accepts(session, n)
              /\ Disconnect(MarkRebase(session))
              /\ UNCHANGED <<parser, feed>>
        /\ UNCHANGED <<committed, faults>>

YieldEvent ==
    /\ conn.phase = "yielding"
    /\ LET c == [conn EXCEPT !.left = @ - 1]
       IN  IF c.left > 0 THEN conn' = c /\ UNCHANGED parser ELSE SendAck(c, session)
    /\ UNCHANGED <<session, feed, committed, faults>>

ReadAck ==
    /\ Streaming /\ Attached
    /\ conn.pending # 0
    /\ IF AckIsValid(session, conn.pending)
       THEN /\ session' = ConfirmAck(session, conn.pending)
            /\ conn' = [conn EXCEPT !.pending = 0]
       ELSE Disconnect(session)
    /\ UNCHANGED <<parser, feed, committed, faults>>

\* The records to send next have expired: the parser says so.
ReadGap ==
    /\ Streaming /\ Attached
    /\ conn.lastSeen + 1 < parser.earliest
    /\ Disconnect(MarkRebase(session))
    /\ UNCHANGED <<parser, feed, committed, faults>>

\* A message that breaks the protocol: unreadable, unsolicited, for another
\* subscription, out of sequence, or a refused acknowledgement.
ReadInvalid ==
    /\ faults < MaxFaults
    /\ faults' = faults + 1
    /\ Streaming
    /\ Disconnect(MarkRebase(session))
    /\ UNCHANGED <<parser, feed, committed>>

\* The socket closes while the loop waits for a message.
Closed ==
    /\ Streaming
    /\ \/ ~Attached /\ UNCHANGED faults
       \/ Attached /\ faults < MaxFaults /\ faults' = faults + 1
    /\ Disconnect(session)
    /\ UNCHANGED <<parser, feed, committed>>

\* The consumer drops the stream, or the attempt to open it, at any await.
Dropped ==
    /\ faults < MaxFaults
    /\ faults' = faults + 1
    /\ conn.phase # "none"
    /\ Disconnect(session)
    /\ UNCHANGED <<parser, feed, committed>>
-----------------------------------------------------------------------------
(* The remote parser and the consumer's store *)

AppendRecord ==
    /\ parser.latest < MaxSeq
    /\ parser' = [parser EXCEPT !.latest = @ + 1]
    /\ UNCHANGED <<session, conn, feed, committed, faults>>

ExpireRecord ==
    /\ parser.earliest <= parser.latest
    /\ faults < MaxFaults
    /\ faults' = faults + 1
    /\ \E e \in (parser.earliest + 1)..(parser.latest + 1) :
           parser' = [parser EXCEPT !.earliest = e]
    /\ UNCHANGED <<session, conn, feed, committed>>

ReplaceParser ==
    /\ parser.stream < MaxStreams
    /\ \E n \in 0..1 : parser' = [stream |-> parser.stream + 1, latest |-> n,
                                  earliest |-> 1, acked |-> 0]
    /\ committed' = 0
    /\ UNCHANGED <<session, conn, feed, faults>>

\* What has been handed over completely is stored some time later.
Handed == IF feed = <<>> THEN 0
          ELSE IF conn.phase = "yielding" THEN feed[Len(feed)] - 1 ELSE feed[Len(feed)]

Commit ==
    /\ session.stream = parser.stream
    /\ committed < Handed
    /\ committed' = Handed
    /\ UNCHANGED <<parser, session, conn, feed, faults>>

Init ==
    /\ \E n \in 0..1 : parser = [stream |-> 1, latest |-> n, earliest |-> 1, acked |-> 0]
    /\ session = NewSession
    /\ conn = NoConn
    /\ feed = <<>>
    /\ committed = 0
    /\ faults = 0

Next ==
    \/ Connect \/ Subscribe \/ ReadRecord \/ YieldEvent \/ ReadAck \/ ReadGap
    \/ ReadInvalid \/ Closed \/ Dropped
    \/ AppendRecord \/ ExpireRecord \/ ReplaceParser \/ Commit

Spec == Init /\ [][Next]_vars

\* The consumer reconnects, the socket is read and its loss is noticed.
Progress ==
    \/ Connect \/ Subscribe \/ ReadRecord \/ YieldEvent \/ ReadGap
    \/ ~Attached /\ Closed
FairSpec == Spec /\ WF_vars(Progress)
-----------------------------------------------------------------------------
(* Properties *)

\* The session's cursors are ordered and there is a lifecycle wherever records
\* are processed: acknowledged never passes processed across rebases, and an
\* open connection holds the lease (prepare(), process(), confirm_ack()).
TypeOK ==
    /\ session.base <= session.acknowledged /\ session.acknowledged <= session.processed
    /\ session.processed <= MaxSeq
    /\ session.connected <=> conn.phase # "none"
    /\ conn.phase \in {"none", "subscribing", "streaming", "yielding"}
    /\ conn.phase # "none" => session.lifecycle /\ conn.stream = session.stream
    /\ conn.lastSeen <= session.processed \/ conn.phase = "none"
    /\ faults \in 0..MaxFaults

\* The lifecycle sees every record after the tail it started from exactly once
\* and in order, whatever part of them is replayed to it by reconnects after a
\* lost connection, a dropped stream or a lost acknowledgement.
ReplayedOnce ==
    feed = [i \in 1..(session.processed - session.base) |-> session.base + i]

\* The parser never answers an acknowledgement that the session would refuse:
\* confirm_ack() cannot end a healthy stream, even when the acknowledged
\* position is one replayed after a reconnect.
AckNeverRefused ==
    (Streaming /\ Attached /\ conn.pending # 0) => AckIsValid(session, conn.pending)

\* Both together: through lost connections, replays and rebases each record is handed
\* over once, and no acknowledgement contradicts the parser (session.rs).
HandedOverOnce == ReplayedOnce /\ AckNeverRefused

\* Once the parser stays up and retains what is asked for, the session ends in
\* step with it: no identity change, expired position or refused record leaves
\* it reconnecting forever.
Resumes ==
    <>[](/\ conn.phase = "streaming" /\ session.stream = parser.stream
         /\ session.processed = parser.latest)

\* An acknowledgement is visible to the parser only when every event of the
\* records it covers has been stored by the consumer (docs/EVENT_DELIVERY.md).
\* Refuted: it is sent when the stream is polled after the last event.
AckAfterCommit == parser.acked <= committed
=============================================================================
