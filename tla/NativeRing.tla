----------------------------- MODULE NativeRing ------------------------------
(***************************************************************************)
(* The native Monad source (lunarbase-source-monad-native native.rs and    *)
(* native/queue.rs, native/lifecycle.rs): a thread reads the execution     *)
(* node's shared-memory ring, turns descriptors into events and hands them *)
(* to the async stream through a queue bounded in entries and, by          *)
(* semaphore permits, in bytes.                                            *)
(*                                                                         *)
(* written is what the node wrote; only the last RingSize descriptors are  *)
(* still there.  A descriptor is a record: its kind, the bytes its event   *)
(* takes, and what the official block builder reports at it, if anything.  *)
(* The ring and the builder are external; the builder's failures and a     *)
(* ring that cannot be opened may happen at any time.                      *)
(***************************************************************************)
EXTENDS Naturals, Sequences, SequencesExt

CONSTANTS Descriptors,     \* what the node may write
          Mode,            \* MonadDeliveryMode
          EmitRemoved,     \* emit_removed_logs
          RingSize,
          QueueBound,      \* queue_bound
          ByteBound,       \* queue_byte_bound
          MaxWritten       \* descriptors of a behaviour

VARIABLES written,
          pos,       \* the last descriptor the reader took
          index,     \* block_log_index
          pc,        \* the reader: Open, Poll, Payload, Acquire, Send, Done
          todo,      \* events to hand over
          then,      \* where the reader goes on after them
          queue,
          held,      \* bytes of the event the consumer is working on
          received,
          cancelled, open, ended

reader == <<pos, index, pc, todo, then>>
vars == <<written, pos, index, pc, todo, then, queue, held, received, cancelled, open, ended>>

GapSize == 1

ConstantsOK ==
    /\ Mode \in {"Realtime", "BlockOrdered", "Finalized"} /\ EmitRemoved \in BOOLEAN
    /\ {RingSize, QueueBound, ByteBound} \subseteq Nat \ {0} /\ MaxWritten \in Nat
    /\ \A d \in Descriptors :
          /\ d.kind \in {"Start", "Log", "OtherLog", "Head", "Reject", "Bad", "Skip"}
          /\ d.size \in Nat \ {0}
          /\ d.update.state \in {"None", "Proposed", "Voted", "Finalized", "Verified"}

HasBuilder == Mode # "Realtime" \/ EmitRemoved

Event(kind, seq, at, size) == [kind |-> kind, seq |-> seq, at |-> at, size |-> size]
Gap == Event("Gap", 0, 0, GapSize)
Error == Event("Error", 0, 0, GapSize)
Broken == {"Gap", "Error"}

Times(n, es) == FlattenSeq([i \in 1 .. n |-> es])

(* convert_update: the events of one report of the builder. *)
ConvertUpdate(seq, u, size) ==
    LET removes == EmitRemoved /\ Mode # "Finalized" /\ u.state = "Finalized"
        logs == \/ Mode = "BlockOrdered" /\ u.state = "Proposed"
                \/ Mode = "Finalized" /\ u.state = "Finalized"
        head == \/ Mode = "BlockOrdered"
                \/ Mode = "Finalized" /\ u.state \in {"Finalized", "Verified"}
        removed == <<Event("Removed", seq, 0, size), Event("Reorg", seq, 0, size)>>
    IN  (IF removes THEN Times(u.abandoned, removed) ELSE <<>>)
        \o (IF logs THEN Times(u.logs, <<Event("Log", seq, 0, size)>>) ELSE <<>>)
        \o (IF head THEN <<Event("Head", seq, 0, size)>> ELSE <<>>)

(* convert_event: the events of a descriptor read in realtime. *)
ConvertEvent(seq, d, at) ==
    CASE d.kind \in {"Start", "Head"} -> <<Event("Head", seq, 0, d.size)>>
      [] d.kind = "Log" -> <<Event("Log", seq, at, d.size)>>
      [] d.kind = "Reject" -> <<Gap>>
      [] d.kind = "Bad" -> <<Error>>
      [] OTHER -> <<>>

NextIndex(d, at) ==
    CASE d.kind = "Start" -> 0
      [] d.kind \in {"Log", "OtherLog"} -> at + 1
      [] OTHER -> at

Bounded(e) == IF e.size > ByteBound THEN Gap ELSE e

Bytes(es) == FoldLeft(LAMBDA n, e : n + e.size, 0, es)
Permits == ByteBound - Bytes(queue) - held - (IF pc = "Send" THEN Head(todo).size ELSE 0)

-----------------------------------------------------------------------------
Init ==
    /\ written = <<>> /\ pos = 0 /\ index = 0
    /\ pc = "Open" /\ todo = <<>> /\ then = "Poll"
    /\ queue = <<>> /\ held = 0 /\ received = <<>>
    /\ cancelled = FALSE /\ open = TRUE /\ ended = FALSE

Write(d) ==
    /\ Len(written) < MaxWritten
    /\ written' = Append(written, d)
    /\ UNCHANGED <<reader, queue, held, received, cancelled, open, ended>>

(* Hands the events es over and goes on at next. *)
HandOver(es, next) ==
    IF es = <<>>
    THEN pc' = next /\ UNCHANGED <<todo, then>>
    ELSE pc' = "Acquire" /\ todo' = es /\ then' = next

OpenRing ==
    /\ pc = "Open"
    /\ \/ pc' = "Poll" /\ UNCHANGED <<todo, then>>
       \/ HandOver(<<Error>>, "Done")
    /\ UNCHANGED <<written, pos, index, queue, held, received, cancelled, open, ended>>

Expired(i) == i + RingSize <= Len(written)

Stop ==
    /\ pc = "Poll"
    /\ cancelled \/ (pos = Len(written) /\ ~open)
    /\ pc' = "Done"
    /\ UNCHANGED <<written, pos, index, todo, then, queue, held, received, cancelled, open, ended>>

(* A gap that is skipped: the reader goes on with what the ring still has. *)
PollSkippingGap ==
    /\ pc = "Poll" /\ ~cancelled
    /\ pos < Len(written)
    /\ pos' = IF Expired(pos + 1) THEN Len(written) - RingSize + 1 ELSE pos + 1
    /\ LET u == written[pos'].update
       IN  IF HasBuilder /\ u.state # "None"
           THEN HandOver(ConvertUpdate(pos', u, written[pos'].size),
                         IF Mode = "Realtime" THEN "Payload" ELSE "Poll")
           ELSE HandOver(<<>>, IF Mode = "Realtime" THEN "Payload" ELSE "Poll")
    /\ UNCHANGED <<written, index, queue, held, received, cancelled, open, ended>>

(* next_descriptor, and the builder's report on the descriptor. *)
Poll ==
    /\ pc = "Poll" /\ ~cancelled
    /\ pos < Len(written)
    /\ LET d == written[pos + 1]
           next == IF Mode = "Realtime" THEN "Payload" ELSE "Poll"
       IN  IF Expired(pos + 1) THEN UNCHANGED pos /\ HandOver(<<Gap>>, "Done")
           ELSE /\ pos' = pos + 1
                /\ \/ IF ~HasBuilder \/ d.update.state = "None" THEN HandOver(<<>>, next)
                      ELSE IF d.update.foreign THEN HandOver(<<Error>>, "Done")
                      ELSE HandOver(ConvertUpdate(pos + 1, d.update, d.size), next)
                   \/ HasBuilder /\ HandOver(<<Gap>>, "Done")
    /\ UNCHANGED <<written, index, queue, held, received, cancelled, open, ended>>

(* An expired payload that ends the stream without a word. *)
PayloadSilent ==
    /\ pc = "Payload"
    /\ IF Expired(pos) THEN pc' = "Done" /\ UNCHANGED <<index, todo, then>>
       ELSE /\ index' = NextIndex(written[pos], index)
            /\ HandOver(ConvertEvent(pos, written[pos], index),
                        IF written[pos].kind = "Bad" THEN "Done" ELSE "Poll")
    /\ UNCHANGED <<written, pos, queue, held, received, cancelled, open, ended>>

(* try_read and convert_event *)
Payload ==
    /\ pc = "Payload"
    /\ IF Expired(pos) THEN HandOver(<<Gap>>, "Done") /\ UNCHANGED index
       ELSE /\ index' = NextIndex(written[pos], index)
            /\ HandOver(ConvertEvent(pos, written[pos], index),
                        IF written[pos].kind = "Bad" THEN "Done" ELSE "Poll")
    /\ UNCHANGED <<written, pos, queue, held, received, cancelled, open, ended>>

(* An event larger than the budget waits for its bytes. *)
AcquireWhole ==
    /\ pc = "Acquire"
    /\ Head(todo).size <= Permits
    /\ pc' = "Send"
    /\ UNCHANGED <<written, pos, index, todo, then, queue, held, received, cancelled, open,
                   ended>>

(* send_result waits for the bytes of the event, or of a gap instead. *)
Acquire ==
    /\ pc = "Acquire"
    /\ Bounded(Head(todo)).size <= Permits
    /\ todo' = <<Bounded(Head(todo))>> \o Tail(todo)
    /\ pc' = "Send"
    /\ UNCHANGED <<written, pos, index, then, queue, held, received, cancelled, open, ended>>

(* A reader that tries again when the receiver is gone. *)
SendKeeping ==
    /\ pc = "Send"
    /\ IF ~open THEN pc' = "Acquire" /\ UNCHANGED <<todo, queue>>
       ELSE /\ Len(queue) < QueueBound
            /\ queue' = Append(queue, Head(todo))
            /\ todo' = Tail(todo)
            /\ pc' = IF Tail(todo) = <<>> THEN then ELSE "Acquire"
    /\ UNCHANGED <<written, pos, index, then, held, received, cancelled, open, ended>>

(* send_result waits for room in the queue, or fails when it is closed. *)
Send ==
    /\ pc = "Send"
    /\ IF ~open THEN pc' = "Done" /\ todo' = <<>> /\ UNCHANGED queue
       ELSE /\ Len(queue) < QueueBound
            /\ queue' = Append(queue, Head(todo))
            /\ todo' = Tail(todo)
            /\ pc' = IF Tail(todo) = <<>> THEN then ELSE "Acquire"
    /\ UNCHANGED <<written, pos, index, then, held, received, cancelled, open, ended>>

(* The consumer's poll gives back the permit of the event before. *)
Receive ==
    /\ open /\ queue # <<>>
    /\ received' = Append(received, Head(queue))
    /\ held' = Head(queue).size
    /\ queue' = Tail(queue)
    /\ UNCHANGED <<written, reader, cancelled, open, ended>>

Idle ==
    /\ open /\ queue = <<>> /\ held # 0
    /\ held' = 0
    /\ UNCHANGED <<written, reader, queue, received, cancelled, open, ended>>

End ==
    /\ open /\ queue = <<>> /\ pc = "Done"
    /\ ended' = TRUE
    /\ cancelled' = TRUE /\ open' = FALSE /\ held' = 0
    /\ UNCHANGED <<written, reader, queue, received>>

(* The stream is dropped: its guard and its receiver, one after the other. *)
DropGuard ==
    /\ open /\ ~cancelled
    /\ cancelled' = TRUE
    /\ UNCHANGED <<written, reader, queue, held, received, open, ended>>

DropReceiver ==
    /\ open /\ cancelled
    /\ open' = FALSE /\ queue' = <<>> /\ held' = 0
    /\ UNCHANGED <<written, reader, received, cancelled, ended>>

Consume == (~cancelled /\ (Receive \/ Idle \/ End)) \/ DropReceiver
Read == OpenRing \/ Stop \/ Poll \/ Payload \/ Acquire \/ Send

Next == (\E d \in Descriptors : Write(d)) \/ Read \/ Consume \/ DropGuard

(* The thread is scheduled, and a consumer goes on polling or drops.       *)
Spec == Init /\ [][Next]_vars /\ WF_vars(Read) /\ WF_vars(Consume)

-----------------------------------------------------------------------------
(* The variables have their types. *)
TypeOK ==
    /\ pos \in 0 .. Len(written)
    /\ pc \in {"Open", "Poll", "Payload", "Acquire", "Send", "Done"}
    /\ Permits \in 0 .. ByteBound /\ Len(queue) <= QueueBound
    /\ {cancelled, open, ended} \subseteq BOOLEAN

(* What the descriptors up to n should give, by themselves. *)
LogsBefore(n) ==
    LET starts == {i \in 1 .. n - 1 : written[i].kind = "Start"}
        since == IF starts = {} THEN 0 ELSE CHOOSE i \in starts : \A j \in starts : j <= i
    IN  Len(SelectSeq(SubSeq(written, since + 1, n - 1),
                      LAMBDA d : d.kind \in {"Log", "OtherLog"}))

Expected(n) ==
    (IF HasBuilder /\ written[n].update.state # "None"
     THEN ConvertUpdate(n, written[n].update, written[n].size) ELSE <<>>)
    \o (IF Mode = "Realtime" THEN ConvertEvent(n, written[n], LogsBefore(n)) ELSE <<>>)

ExpectedAll == FlattenSeq([n \in 1 .. Len(written) |-> Expected(n)])

BeforeBreak ==
    LET breaks == {i \in DOMAIN received : received[i].kind \in Broken}
    IN  IF breaks = {} THEN received
        ELSE SubSeq(received, 1, (CHOOSE i \in breaks : \A j \in breaks : i <= j) - 1)

(* Until it is told of a gap, the consumer has received exactly the events *)
(* of the first descriptors, in order, with the position of each log among *)
(* all the logs of its block, filtered ones included, although the ring    *)
(* was overwritten and the queue filled up meanwhile (read_ring,           *)
(* convert_event, send_result).                                            *)
NoSilentLoss == IsPrefix(BeforeBreak, ExpectedAll)

(* A stream that ends on its own has told why: its last event is a gap or  *)
(* an error (native.rs: every return of read_ring but the cancelled ones   *)
(* sends one first).                                                       *)
EndIsTold == ended => received # <<>> /\ Last(received).kind \in Broken

(* Once the stream is dropped the reader thread ends, whatever it waits    *)
(* for: descriptors, permits or room in the queue (RingReaderGuard::drop). *)
ReaderEnds == cancelled ~> pc = "Done"

(* With a consumer that goes on polling, the reader never waits for bytes  *)
(* or room forever: it comes back to the ring or ends (send_result puts a  *)
(* gap in the place of an event that no budget can hold).                  *)
NoStarvation == pc \in {"Acquire", "Send"} ~> pc \in {"Poll", "Payload", "Done"}
=============================================================================
