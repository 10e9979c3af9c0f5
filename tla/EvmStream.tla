------------------------------ MODULE EvmStream ------------------------------
(***************************************************************************)
(* The stream EvmRpcSource::subscribe returns (lunarbase-source-evm,       *)
(* ws.rs, ws/ordering.rs, ws/connection.rs): the subscription handshake,   *)
(* the reorder buffer, the grace timer that closes a block, and the        *)
(* finalized watermark, over a provider that mines, forks and finalizes.   *)
(*                                                                         *)
(* Heads are announced in order.  The logs of a block travel on another    *)
(* subscription: each may arrive before or after its head.                 *)
(***************************************************************************)
EXTENDS Integers, SequencesExt, FiniteSets

CONSTANTS
    Block, Root, Parent, Number,  \* the block tree
    NoBlock,
    BlockOf, Index,    \* block of each log and position in it
    PageBlocks,        \* backfill_page_blocks
    LogLead,           \* heads by which a log may run ahead of its own
    Configs            \* configurations of the source and of its provider

VARIABLES
    chain,     \* the provider: tip, final, and the subscriptions it serves
    heads,     \* heads sent and not yet read
    logs,      \* logs sent and not yet read
    phase,     \* "handshake", "open" or "ended"
    acks,      \* handshake responses received
    buffered,  \* notifications read before the last response
    stream,    \* the local variables of the stream
    pending,   \* the reorder buffer, in order of arrival
    closing,   \* the block being published, across its HTTP requests
    emitted,   \* updates yielded since the last Reorg
    covered,   \* height below which a snapshot of the consumer answers
    budget

vars == <<chain, heads, logs, phase, acks, buffered, stream, pending, closing,
          emitted, covered, budget>>
provider == <<chain, heads, logs, budget>>
reader == <<acks, buffered, stream, pending, closing>>

(* What the stream was created with: delivery and commitment as "realtime", *)
(* "ordered", "pending" or "finalized", progressive_heads, reorder_capacity *)
(* (also of the handshake prefetch).                                       *)
Delivery == stream.config.delivery
Progressive == stream.config.progressive
ReorderCapacity == stream.config.capacity
(* What the provider mines: its blocks and their logs.                     *)
Mined == stream.config.blocks
Log == stream.config.logs
(* Bounds on its changes of branch and on faults.                          *)
MaxSwitches == stream.config.switches
MaxFaults == stream.config.faults

ASSUME EvmStreamAssumption ==
    /\ PageBlocks \in Nat \ {0}
    /\ \A c \in Configs : /\ c.delivery \in {"realtime", "ordered", "pending", "finalized"}
                         /\ c.capacity \in Nat \ {0} /\ c.blocks \subseteq Block

-----------------------------------------------------------------------------
(* The block tree.                                                         *)

Path[b \in Block] == IF b = Root THEN {b} ELSE Path[Parent[b]] \cup {b}
LogsIn(blocks) == {l \in Log : BlockOf[l] \in blocks}
InChainOrder(ls) ==
    SetToSortSeq(ls, LAMBDA l, k : \/ Number[BlockOf[l]] < Number[BlockOf[k]]
                                   \/ BlockOf[l] = BlockOf[k] /\ Index[l] < Index[k])

HeadUpdate(b) == [kind |-> "head", block |-> b, index |-> 0, log |-> NoBlock]
LogUpdate(l) == [kind |-> "log", block |-> BlockOf[l], index |-> Index[l], log |-> l]
RemovedLog(l) == [LogUpdate(l) EXCEPT !.kind = "removed"]
GapUpdate(b) == [kind |-> "gap", block |-> b, index |-> 0, log |-> NoBlock]

-----------------------------------------------------------------------------
(* The reorder buffer: CursorReorderBuffer.  Every update it is given      *)
(* carries the next source_sequence, so no two share a key and the order   *)
(* of arrival decides between equal positions.                             *)

Before(p, i, j) ==
    LET x == <<Number[p[i].block], p[i].index, i>>
        y == <<Number[p[j].block], p[j].index, j>>
    IN  \/ x[1] < y[1]
        \/ x[1] = y[1] /\ x[2] < y[2]
        \/ x[1] = y[1] /\ x[2] = y[2] /\ x[3] < y[3]

DrainedThrough(p, n) ==
    LET due == {i \in DOMAIN p : Number[p[i].block] <= n}
        sorted == SetToSortSeq(due, LAMBDA i, j : Before(p, i, j))
    IN  [k \in 1..Len(sorted) |-> p[sorted[k]]]
(* push refuses, and poisons the buffer, at its capacity.                  *)
PushRefused(p) == Len(p) >= ReorderCapacity
RetainedAfter(p, n) == SelectSeq(p, LAMBDA u : Number[u.block] > n)

-----------------------------------------------------------------------------
(* ws/ordering.rs                                                          *)

(* Faults: a log of the watermark's own block is let through; a log is     *)
(* taken for its block by height alone; the last block closes at once or   *)
(* waits for two successors.                                               *)
WatermarkExclusive(b, watermark) == watermark # 0 /\ Number[b] < watermark
BelongsByHeight(u, head) == u.kind = "log" /\ Number[u.block] = Number[head]
DeadlineOfThird(open) == Len(open) > 2

IsAtOrBeforeWatermark(b, watermark) == watermark # 0 /\ Number[b] <= watermark
StandardHeadDeadline(open) == Len(open) > 1

Belongs(u, head) == u.kind = "log" /\ u.block = head
PrecedesStartup(u, head, allowed) ==
    allowed /\ u.kind = "log" /\ Number[u.block] < Number[head]
(* drain_completed_block: what it drains must be the head, logs of that    *)
(* very block or, for the first head, logs of earlier ones.                *)
CompletesBlock(updates, head, allowed) ==
    /\ \A u \in Range(updates) : \/ u = HeadUpdate(head)
                                 \/ Belongs(u, head)
                                 \/ PrecedesStartup(u, head, allowed)
    /\ HeadUpdate(head) \in Range(updates)
CompletedBlock(updates, head) ==
    Append(SelectSeq(updates, LAMBDA u : u.kind = "log"), HeadUpdate(head))

(* validate_finalized_advance *)
FinalizedRegressed(mark, next) ==
    Number[next] < Number[mark] \/ (Number[next] = Number[mark] /\ next # mark)
(* backfill_pages: the end of the page that starts at a height.            *)
PageEnd(from, to) == IF from + (PageBlocks - 1) < to THEN from + (PageBlocks - 1) ELSE to
(* Fault: the next page repeats the last block of this one.                *)
NextPageAtEnd(end) == end
NextPage(end) == end + 1

(* ws/protocol.rs.  Fault: parents are not compared.                      *)
DiscontinuityByHeight(previous, next) == Number[next] <= Number[previous]
HeadDiscontinuity(previous, next) ==
    \/ Number[next] < Number[previous]
    \/ /\ Number[next] = Number[previous]
       /\ ~Progressive \/ Parent[next] # Parent[previous]
    \/ Number[next] = Number[previous] + 1 /\ Parent[next] # previous

-----------------------------------------------------------------------------
(* The provider.                                                           *)

Spend == budget.faults < MaxFaults /\ budget' = [budget EXCEPT !.faults = @ + 1]

(* A log carries the number of undelivered heads in front of its own.      *)
Ahead(b, announced) ==
    Len(heads) + Cardinality({x \in Range(announced) : Number[x] < Number[b]})
Notices(ls, announced) ==
    [i \in DOMAIN ls |-> [update |-> LogUpdate(ls[i]), ahead |-> Ahead(BlockOf[ls[i]], announced)]]
Retractions(ls) == [i \in DOMAIN ls |-> [update |-> RemovedLog(ls[i]), ahead |-> Len(heads)]]
Announce(announced, blocks, gone) ==
    /\ heads' = IF chain.serves = "both" THEN heads \o announced ELSE heads
    /\ logs' = IF chain.serves = "none" THEN logs
               ELSE logs \o Retractions(InChainOrder(LogsIn(gone)))
                         \o Notices(InChainOrder(LogsIn(blocks)),
                                    IF chain.serves = "both" THEN announced ELSE <<>>)

Mine(b) ==
    /\ b \in Mined /\ Parent[b] = chain.tip
    /\ chain' = [chain EXCEPT !.tip = b]
    /\ Announce(<<b>>, {b}, {})
    /\ UNCHANGED <<phase, reader, emitted, covered, budget>>

(* A change of branch: every new head or only the last is announced, and   *)
(* the provider may retract the logs of the blocks it leaves.              *)
Switch(b, all, retract) ==
    /\ budget.switches < MaxSwitches /\ b \in Mined
    /\ b \notin Path[chain.tip] /\ chain.tip \notin Path[b] /\ chain.final \in Path[b]
    /\ budget' = [budget EXCEPT !.switches = @ + 1]
    /\ chain' = [chain EXCEPT !.tip = b]
    /\ LET new == Path[b] \ Path[chain.tip]
           path == SetToSortSeq(new, LAMBDA x, y : Number[x] < Number[y])
       IN  Announce(IF all THEN path ELSE <<b>>, new,
                    IF retract THEN Path[chain.tip] \ Path[b] ELSE {})
    /\ UNCHANGED <<phase, reader, emitted, covered>>

Finalize(b) ==
    /\ Delivery = "finalized" /\ b \in Path[chain.tip] /\ Parent[b] = chain.final
    /\ chain' = [chain EXCEPT !.final = b]
    /\ UNCHANGED <<heads, logs, budget, phase, reader, emitted, covered>>

(* The requests are served in the order establish sends them: logs first.  *)
Serve ==
    /\ phase = "handshake" /\ chain.serves # "both"
    /\ chain' = [chain EXCEPT !.serves = IF @ = "none" THEN "logs" ELSE "both"]
    /\ covered' = IF chain.serves = "none" THEN Number[chain.tip] ELSE covered
    /\ UNCHANGED <<heads, logs, budget, phase, reader, emitted>>

RepeatHead ==
    /\ chain.serves = "both" /\ Spend
    /\ heads' = Append(heads, chain.tip)
    /\ UNCHANGED <<chain, logs, phase, reader, emitted, covered>>

Nearer(ls) == [i \in DOMAIN ls |-> [ls[i] EXCEPT !.ahead = IF @ = 0 THEN 0 ELSE @ - 1]]
LoseHead ==
    /\ heads # <<>> /\ Spend
    /\ heads' = Tail(heads) /\ logs' = Nearer(logs)
    /\ UNCHANGED <<chain, phase, reader, emitted, covered>>

(* The next notification on the socket.                                    *)
ReadHead == heads # <<>> /\ heads' = Tail(heads) /\ logs' = Nearer(logs)
ReadLog(i) == logs[i].ahead <= LogLead /\ logs' = RemoveAt(logs, i) /\ UNCHANGED heads

-----------------------------------------------------------------------------
(* The handshake: read_acknowledgements.                                   *)

Responses == {"logs", "heads", "chain"}

ReadAck(k) ==
    /\ phase = "handshake" /\ k \notin acks
    /\ k = "logs" => chain.serves # "none"
    /\ k = "heads" => chain.serves = "both"
    /\ acks' = acks \cup {k}
    /\ UNCHANGED <<provider, phase, buffered, stream, pending, closing, emitted, covered>>

(* push_prefetched.                                                        *)
PrefetchOverflows == Len(buffered) >= ReorderCapacity
Prefetched(u) ==
    /\ phase' = IF PrefetchOverflows THEN "ended" ELSE phase
    /\ buffered' = IF PrefetchOverflows THEN buffered ELSE Append(buffered, u)
    /\ UNCHANGED <<chain, budget, acks, stream, pending, closing, emitted, covered>>
Prefetch ==
    /\ phase = "handshake" /\ acks # Responses
    /\ \/ ReadHead /\ Prefetched(HeadUpdate(Head(heads)))
       \/ \E i \in DOMAIN logs : ReadLog(i) /\ Prefetched(logs[i].update)

(* The finalized source first asks for its watermark.                      *)
Established ==
    /\ phase = "handshake" /\ acks = Responses
    /\ phase' = "open"
    /\ \/ Delivery # "finalized" /\ UNCHANGED stream
       \/ /\ Delivery = "finalized"
          /\ \E f \in Path[chain.final] : stream' = [stream EXCEPT !.mark = f, !.start = f]
    /\ UNCHANGED <<provider, acks, buffered, pending, closing, emitted, covered>>

(* A lost connection, a timeout or a failed request ends the handshake     *)
(* with an error and the open stream with a Gap or an error.               *)
Fail ==
    /\ phase # "ended" /\ Spend
    /\ phase' = "ended"
    /\ emitted' = IF phase = "open" /\ closing.step = "none"
                  THEN Append(emitted, GapUpdate(stream.last)) ELSE emitted
    /\ UNCHANGED <<chain, heads, logs, reader, covered>>

-----------------------------------------------------------------------------
(* The stream.                                                             *)

Idle == [step |-> "none", head |-> NoBlock, updates |-> <<>>, unchecked |-> {}, next |-> 0]
Holds == Delivery = "ordered"

Ended(updates) ==
    /\ phase' = "ended" /\ emitted' = emitted \o updates
    /\ UNCHANGED <<acks, stream, pending, closing, covered>>
Yield(updates) ==
    /\ emitted' = emitted \o updates
    /\ UNCHANGED <<phase, acks, stream, pending, closing, covered>>

(* reorder.push, and what the last head releases at once.  Fault: only the *)
(* next head releases it.                                                  *)
BufferLogUntilHead(u) ==
    IF PushRefused(pending) THEN Ended(<<>>)
    ELSE pending' = Append(pending, u) /\ UNCHANGED <<phase, acks, stream, closing, emitted, covered>>
BufferLog(u) ==
    IF PushRefused(pending) THEN Ended(<<>>)
    ELSE LET held == Append(pending, u)
             drains == ~Holds /\ stream.last # NoBlock
             n == Number[stream.last]
         IN  /\ pending' = IF drains THEN RetainedAfter(held, n) ELSE held
             /\ emitted' = IF drains THEN emitted \o DrainedThrough(held, n) ELSE emitted
             /\ UNCHANGED <<phase, acks, stream, closing, covered>>

HandleLog(u) ==
    CASE Delivery = "finalized" -> Yield(<<>>)
      [] u.kind = "removed" -> Ended(<<u, GapUpdate(u.block)>>)
      [] Holds /\ IsAtOrBeforeWatermark(u.block, stream.watermark) -> Ended(<<GapUpdate(u.block)>>)
      [] Delivery = "realtime" -> Yield(<<u>>)
      [] OTHER -> BufferLog(u)

(* A head in its order: a discontinuity is reported and discards what was  *)
(* held back.                                                              *)
ObserveHead(b) ==
    LET reorg == stream.last # NoBlock /\ HeadDiscontinuity(stream.last, b)
        open == IF reorg THEN <<>> ELSE stream.open
        kept == IF reorg THEN <<>> ELSE pending
        held == Append(kept, HeadUpdate(b))
        before == IF reorg THEN <<>> ELSE emitted
        first == IF reorg \/ stream.first = 0 THEN Number[b] ELSE stream.first
        full == Delivery # "realtime" /\ PushRefused(kept)
    IN  /\ covered' = IF reorg THEN Number[b] ELSE covered
        /\ phase' = IF full \/ (Holds /\ Len(open) >= ReorderCapacity) THEN "ended" ELSE phase
        /\ stream' = [stream EXCEPT !.last = b, !.first = IF Holds \/ reorg THEN first ELSE @,
                                    !.open = IF Holds THEN Append(open, b) ELSE @]
        /\ CASE Delivery = "realtime" -> /\ emitted' = Append(before, HeadUpdate(b))
                                         /\ pending' = <<>>
             [] Delivery = "pending" -> /\ emitted' = before \o DrainedThrough(held, Number[b])
                                        /\ pending' = RetainedAfter(held, Number[b])
             [] OTHER -> emitted' = before /\ pending' = held
        /\ UNCHANGED <<acks, closing>>

HandleHead(b) ==
    CASE stream.last = b -> Yield(<<>>)
      [] Delivery = "finalized" ->
             /\ stream' = [stream EXCEPT !.last = b]
             /\ closing' = [Idle EXCEPT !.step = "finalized"]
             /\ UNCHANGED <<phase, acks, pending, emitted, covered>>
      [] stream.last # NoBlock /\ Number[b] > Number[stream.last] + 1 ->
             Ended(<<GapUpdate(stream.last)>>)
      [] OTHER -> ObserveHead(b)

Handle(u) == IF u.kind = "head" THEN HandleHead(u.block) ELSE HandleLog(u)

(* Notifications of the handshake are replayed before the socket is read.  *)
Replay ==
    /\ phase = "open" /\ closing = Idle /\ buffered # <<>>
    /\ buffered' = Tail(buffered) /\ Handle(Head(buffered))
    /\ UNCHANGED provider

Receive ==
    /\ phase = "open" /\ closing = Idle /\ buffered = <<>>
    /\ \/ ReadHead /\ Handle(HeadUpdate(Head(heads)))
       \/ \E i \in DOMAIN logs : ReadLog(i) /\ Handle(logs[i].update)
    /\ UNCHANGED <<chain, budget, buffered>>

(* The grace timer: the oldest open head is complete.                      *)
CompleteBlock ==
    /\ phase = "open" /\ closing = Idle /\ buffered = <<>> /\ StandardHeadDeadline(stream.open)
    /\ LET head == Head(stream.open)
           n == Number[head]
           updates == DrainedThrough(pending, n)
           earlier == {Number[u.block] : u \in Range(updates)} \ {n}
       IN  /\ stream' = [stream EXCEPT !.open = Tail(@)]
           /\ pending' = RetainedAfter(pending, n)
           /\ IF CompletesBlock(updates, head, stream.first = n)
              THEN /\ closing' = [Idle EXCEPT !.step = "block", !.head = head, !.unchecked = earlier,
                                              !.updates = CompletedBlock(updates, head)]
                   /\ UNCHANGED phase
              ELSE phase' = "ended" /\ UNCHANGED closing
    /\ UNCHANGED <<provider, acks, buffered, emitted, covered>>

(* validate_preceding_startup_logs: one request per height.                *)
Canonical(updates, n) ==
    \A u \in Range(updates) : Number[u.block] = n => u.block \in Path[chain.tip]
CheckStartupBlock ==
    /\ phase = "open" /\ closing.unchecked # {}
    /\ LET n == CHOOSE x \in closing.unchecked : \A y \in closing.unchecked : x <= y
       IN  IF Canonical(closing.updates, n)
           THEN closing' = [closing EXCEPT !.unchecked = @ \ {n}] /\ UNCHANGED phase
           ELSE phase' = "ended" /\ UNCHANGED closing
    /\ UNCHANGED <<provider, acks, buffered, stream, pending, emitted, covered>>

PublishBlock ==
    /\ phase = "open" /\ closing.step = "block" /\ closing.unchecked = {}
    /\ emitted' = emitted \o closing.updates
    /\ stream' = [stream EXCEPT !.watermark = Number[closing.head]]
    /\ closing' = Idle
    /\ UNCHANGED <<provider, phase, acks, buffered, pending, covered>>

(* A new head makes the finalized source read the finalized block.         *)
AdvanceFinalized(f) ==
    /\ phase = "open" /\ closing.step = "finalized" /\ f \in Path[chain.final]
    /\ IF FinalizedRegressed(stream.mark, f)
       THEN phase' = "ended" /\ UNCHANGED <<closing, emitted>>
       ELSE /\ closing' = IF f = stream.mark THEN Idle
                          ELSE [closing EXCEPT !.step = "pages", !.head = f, !.next = Number[stream.mark] + 1]
            /\ emitted' = IF f = stream.mark THEN Append(emitted, HeadUpdate(f)) ELSE emitted
            /\ UNCHANGED phase
    /\ UNCHANGED <<provider, acks, buffered, stream, pending, covered>>

ReadPage ==
    /\ phase = "open" /\ closing.step = "pages"
    /\ LET end == PageEnd(closing.next, Number[closing.head])
           last == end = Number[closing.head]
           blocks == {b \in Path[chain.final] : Number[b] \in closing.next..end}
           page == InChainOrder(LogsIn(blocks))
       IN  /\ emitted' = emitted \o [i \in DOMAIN page |-> LogUpdate(page[i])]
                                 \o (IF last THEN <<HeadUpdate(closing.head)>> ELSE <<>>)
           /\ stream' = IF last THEN [stream EXCEPT !.mark = closing.head] ELSE stream
           /\ closing' = IF last THEN Idle ELSE [closing EXCEPT !.next = NextPage(end)]
    /\ UNCHANGED <<provider, phase, acks, buffered, pending, covered>>

-----------------------------------------------------------------------------
Init ==
    /\ chain = [tip |-> Root, final |-> Root, serves |-> "none"]
    /\ heads = <<>> /\ logs = <<>> /\ phase = "handshake" /\ acks = {} /\ buffered = <<>>
    /\ \E c \in Configs :
          stream = [last |-> NoBlock, open |-> <<>>, first |-> 0, watermark |-> 0,
                    mark |-> NoBlock, start |-> NoBlock, config |-> c]
    /\ pending = <<>> /\ closing = Idle /\ emitted = <<>> /\ covered = 0
    /\ budget = [switches |-> 0, faults |-> 0]

Next ==
    \/ \E b \in Block : Mine(b)
    \/ \E b \in Block, all, retract \in BOOLEAN : Switch(b, all, retract)
    \/ \E b \in Block : Finalize(b)
    \/ Serve \/ RepeatHead \/ LoseHead
    \/ \E k \in Responses : ReadAck(k)
    \/ Prefetch \/ Established \/ Fail
    \/ Replay \/ Receive \/ CompleteBlock \/ CheckStartupBlock \/ PublishBlock
    \/ \E f \in Block : AdvanceFinalized(f)
    \/ ReadPage

Spec == Init /\ [][Next]_vars

-----------------------------------------------------------------------------
(* Properties.                                                             *)

(* The buffers stay within the configured bounds: the handshake prefetch,  *)
(* the reorder buffer and the queue of open heads.                         *)
TypeOK ==
    /\ phase \in {"handshake", "open", "ended"} /\ acks \subseteq Responses
    /\ Len(buffered) <= ReorderCapacity /\ chain.final \in Path[chain.tip]
    /\ phase # "ended" => /\ Len(pending) <= ReorderCapacity
                          /\ Len(stream.open) <= ReorderCapacity

Transit == {logs[i].update : i \in DOMAIN logs} \cup Range(buffered)
(* A block the ordered source has published is complete: each of its logs  *)
(* was published before its head, or has not been read yet and will be     *)
(* answered by a Gap.  Blocks up to the start of the subscription and up   *)
(* to the last Reorg are the consumer's snapshot's (ws.rs:133-176,         *)
(* drain_completed_block, is_at_or_before_watermark).                      *)
NoSilentLoss ==
    phase = "open" /\ Delivery = "ordered" =>
        \A i \in DOMAIN emitted : (emitted[i].kind = "head" /\ Number[emitted[i].block] > covered) =>
            \A l \in LogsIn({emitted[i].block}) :
                \/ \E j \in 1..i : emitted[j] = LogUpdate(l)
                \/ LogUpdate(l) \in Transit

FirstHead == CHOOSE i \in DOMAIN emitted :
    emitted[i].kind = "head" /\ \A j \in 1..(i - 1) : emitted[j].kind # "head"
(* Between two Reorgs the ordered source publishes one branch in order:    *)
(* each update belongs to a descendant of what went before, logs in        *)
(* transaction order and before their head.  Only logs from before the     *)
(* first head may be of a branch the provider has already left, while the  *)
(* head that says so is on its way.                                        *)
SegmentIsChain ==
    \A i, j \in DOMAIN emitted :
        (Delivery = "ordered" /\ i < j /\ emitted[i].kind \in {"head", "log"} /\ emitted[j].kind \in {"head", "log"})
        => \/ /\ emitted[i].block # emitted[j].block
              /\ \/ emitted[i].block \in Path[emitted[j].block]
                 \/ i < FirstHead /\ heads # <<>>
           \/ /\ emitted[i].block = emitted[j].block /\ emitted[i].kind = "log"
              /\ emitted[j].kind = "log" => Index[emitted[i].log] < Index[emitted[j].log]

(* Unless blocks are final, a head that is not the child of the one before *)
(* (or, with progressive heads, another head of its height and parent) is  *)
(* never published without a Reorg (head_discontinuity).                   *)
PublishedHeads == SelectSeq(emitted, LAMBDA u : u.kind = "head")
HeadsAreLinked ==
    Delivery # "finalized" => \A i \in 1..(Len(PublishedHeads) - 1) :
        LET b == PublishedHeads[i].block
            c == PublishedHeads[i + 1].block
        IN  Parent[c] = b \/ (Progressive /\ Parent[c] = Parent[b])

(* Pending logs are published as soon as a head of their height is known:  *)
(* what is held back belongs to later blocks (ws.rs:293-309, 440-450).     *)
OnlyLaterBlocksHeld ==
    (phase = "open" /\ Delivery = "pending" /\ stream.last # NoBlock) =>
        \A u \in Range(pending) : Number[u.block] > Number[stream.last]

(* The finalized source publishes each log above its first watermark once  *)
(* and in chain order, and a finalized head only after every log up to it, *)
(* however the pages fall and whatever the node lags                       *)
(* (ws.rs:330-386, backfill_pages, validate_finalized_advance).            *)
PublishedLogs(n) == SelectSeq(SubSeq(emitted, 1, n), LAMBDA u : u.kind = "log")
FinalizedOnce ==
    (phase = "open" /\ Delivery = "finalized") =>
        LET due(b) == InChainOrder(LogsIn(Path[b] \ Path[stream.start]))
            all == PublishedLogs(Len(emitted))
        IN  /\ Len(all) <= Len(due(chain.final))
            /\ \A i \in DOMAIN all : all[i] = LogUpdate(due(chain.final)[i])
            /\ \A i \in DOMAIN emitted : emitted[i].kind = "head" =>
                   Len(PublishedLogs(i)) = Len(due(emitted[i].block))

(* In every mode nothing is lost or held back without a Gap: the ordered   *)
(* source's blocks, the pending source's logs, the finalized source's      *)
(* pages (ws.rs subscribe).                                                *)
PublishedIsComplete == NoSilentLoss /\ OnlyLaterBlocksHeld /\ FinalizedOnce

(* Between two Reorgs the updates and the heads of the stream are of one   *)
(* branch and in its order (ws.rs subscribe, ordering.rs).                 *)
PublishedIsOneBranch == SegmentIsChain /\ HeadsAreLinked

(* What was sent is read, the timer fires and requests are answered.       *)
Progress ==
    \/ Serve \/ Established \/ Replay \/ Receive \/ CompleteBlock \/ CheckStartupBlock
    \/ PublishBlock \/ ReadPage
    \/ \E k \in Responses : ReadAck(k)
    \/ \E f \in Block : AdvanceFinalized(f)
Fairness == WF_vars(Progress)
FairSpec == Spec /\ Fairness

(* Once the provider is quiet the source has read everything, the ordered  *)
(* one has published every block with a successor (standard_head_deadline) *)
(* and the finalized one its pages, or it has ended and said so.           *)
Settles ==
    <>[](\/ phase = "ended"
         \/ heads = <<>> /\ logs = <<>> /\ buffered = <<>> /\ Len(stream.open) <= 1 /\ closing = Idle)

=============================================================================
