----------------------------- MODULE LaneQuotes ------------------------------
(***************************************************************************)
(* Lanes configured and priced by the Core contract, the client's packed   *)
(* copy of them (LaneReducer over LaneSlot0) and the quotes it gives       *)
(* (QuoteMath).  contract holds the fields of every lane apart, as the     *)
(* contract's setters change them; st is the client's state, whose words   *)
(* change by the events.  A price push emits the word the contract stores  *)
(* (apply_lane_update_slot0).                                              *)
(***************************************************************************)
EXTENDS QuoteMath

CONSTANTS InitState,       \* the state at block 1
          Settings,        \* the events of the contract other than price pushes
          Pushes,          \* the <<price, ask, bid>> an operator may push
          Amounts,         \* the amounts of the requests
          MaxBlock, MaxEvents

VARIABLES st, contract, block, last, events

vars == <<st, contract, block, last, events>>

FieldsOf(state) == [a \in DOMAIN state.lanes |-> DecodeLaneSlot0(state.lanes[a].slot0)]

LaneQuotesOK ==
    /\ {MaxBlock, MaxEvents} \subseteq Nat \ {0}
    /\ MaxBlock < 2^BlockBits
    /\ \A e \in Settings : e.kind \in Kinds
    /\ \A p \in Pushes : p[1] < 2^PriceBits /\ p[2] < 2^FeeBits /\ p[3] < 2^FeeBits

NewLane ==
    [DecodeLaneSlot0(0) EXCEPT !.exists = TRUE, !.paused = TRUE]

(* The contract's setters, field by field. *)
Set(fields, e) ==
    CASE e.kind = "LaneAdded" -> Put(fields, e.asset, NewLane)
      [] e.kind = "LaneRemoved" -> Drop(fields, e.asset)
      [] e.kind = "SlippageKSet" -> [fields EXCEPT ![e.asset].k = e.value]
      [] e.kind = "LanePausedSet" -> [fields EXCEPT ![e.asset].paused = (e.value = 1)]
      [] e.kind = "PricePushThresholdSet" ->
            [fields EXCEPT ![e.asset].threshold = e.value, ![e.asset].enabled = (e.other = 1)]
      [] e.kind = "BlockDelaySet" -> [fields EXCEPT ![e.asset].delay = e.value]
      [] OTHER -> fields

Pushed(f, price, ask, bid) ==
    LET moved == IF price > f.price THEN price - f.price ELSE f.price - price
        far == f.enabled /\ f.price # 0 /\ moved * Percent > f.price * f.threshold
    IN  [f EXCEPT !.price = price, !.ask = ask, !.bid = bid, !.block = block,
                  !.paused = @ \/ far]

Init ==
    /\ st = InitState
    /\ contract = FieldsOf(InitState)
    /\ block = 1 /\ last = "None" /\ events = 0

Setting(e) ==
    /\ events < MaxEvents
    /\ ~Impossible(st, e) /\ ~Refused(st, e)
    /\ st' = ApplyEvent(st, e)
    /\ contract' = Set(contract, e)
    /\ last' = e.kind
    /\ events' = events + 1
    /\ UNCHANGED block

Push(asset, p) ==
    /\ events < MaxEvents
    /\ asset \in DOMAIN st.lanes
    /\ st' = ApplyEvent(st, [kind |-> "LaneUpdated", asset |-> asset, other |-> 0, value |->
                ApplyLaneUpdateSlot0(Lane(st, asset).slot0, p[1], p[2], p[3], block)])
    /\ contract' = [contract EXCEPT ![asset] = Pushed(@, p[1], p[2], p[3])]
    /\ last' = "LaneUpdated"
    /\ events' = events + 1
    /\ UNCHANGED block

NewBlock ==
    /\ block < MaxBlock
    /\ block' = block + 1
    /\ last' = "NewBlock"
    /\ UNCHANGED <<st, contract, events>>

Next ==
    \/ \E e \in Settings : Setting(e)
    \/ \E asset \in Assets, p \in Pushes : Push(asset, p)
    \/ NewBlock

Spec == Init /\ [][Next]_vars

-----------------------------------------------------------------------------
Requests ==
    [in : Assets \cup {Cash}, out : Assets \cup {Cash}, amount : Amounts,
     mode : {ExactIn, ExactOut}]

(* The available quotes, each with its request. *)
Quotes(state) ==
    {q \in {[req |-> r, res |-> Quote(state, block, r)] : r \in Requests} :
        q.res.kind = "Available"}

(* The variables have their types. *)
TypeOK ==
    /\ \A a \in DOMAIN st.lanes :
          /\ st.lanes[a].slot0 \in 0 .. 2^(ReservedShift + ReservedBits) - 1
          /\ st.lanes[a].principal \in 0 .. PrincipalMax
    /\ block \in 1 .. MaxBlock /\ events \in 0 .. MaxEvents

(* The client's packed words hold the fields the contract has, after any   *)
(* order of settings and price pushes: no write of one field touches       *)
(* another (slot0.rs write_field), and encoding gives the word back.       *)
WordsHoldFields ==
    /\ FieldsOf(st) = contract
    /\ \A a \in DOMAIN st.lanes : EncodeLaneSlot0(contract[a]) = st.lanes[a].slot0

(* The exact price of an asset in CASH, of Wad. *)
PriceOf(asset) == IF asset = Cash THEN Wad ELSE Price(st.lanes[asset].slot0)

LegFee(req) ==
    (IF req.in = Cash THEN 0 ELSE CalculateFeeBpsForRouter(st.multiplier, contract[req.in].bid))
    + (IF req.out = Cash THEN 0 ELSE CalculateFeeBpsForRouter(st.multiplier, contract[req.out].ask))

(* Measured in exact fractions, no quote is better than the pushed prices  *)
(* with their fees, in either mode, directly or over CASH.  So nobody      *)
(* gains from a trade and its reverse at one state (the directions of      *)
(* rounding in fees.rs).                                                   *)
NeverBetterThanPrice ==
    \A q \in Quotes(st) :
        q.res.out * PriceOf(q.req.out) * (Bps + LegFee(q.req))
            <= q.res.in * PriceOf(q.req.in) * Bps

(* A direct quote is no worse than the price with its fee and the largest  *)
(* slippage, but for one unit lost in the conversion and one in the spread *)
(* (quote_lane_exact_in, quote_lane_exact_out, lane_spread).               *)
NearThePrice ==
    \A q \in Quotes(st) :
        LET in == PriceOf(q.req.in)
            out == PriceOf(q.req.out)
            most == Bps + LegFee(q.req) + MaxSlippageBps
        IN  Cash \in {q.req.in, q.req.out} =>
               IF q.req.mode = ExactIn
               THEN (q.res.in * in - out) * Bps < (q.res.out + 1) * out * most
               ELSE (q.res.in - 1) * in * Bps < (q.res.out * out + in) * most

(* The split of the fee for a verified router does not affect the quote    *)
(* (state.rs, FeeAllocation: "does not affect quote economics"), and loses *)
(* nothing of the fee.                                                     *)
AllocationNeutral ==
    \A r \in Requests :
        LET q == Quote(st, block, r)
            plain == Quote([st EXCEPT !.router = NoRouter], block, r)
        IN  /\ [q EXCEPT !.split = plain.split] = plain
            /\ q.kind = "Available" /\ st.router.verified =>
                  q.split.partner + q.split.treasury = q.fee

(* A quote uses prices pushed no longer ago than the lane's delay.         *)
PricesAreFresh ==
    \A q \in Quotes(st) : \A a \in {q.req.in, q.req.out} \ {Cash} :
        block - contract[a].block <= contract[a].delay

(* A lane that was paused, by a setting or by a price push over its        *)
(* threshold, is quoted again only after LanePausedSet: no later price     *)
(* push, setting or block reopens it.                                      *)
Quoted(asset) == LaneReason(st, asset, block) = ""
IsPaused(asset) == LaneReason(st, asset, block) = "PausedLane"
PauseHolds ==
    [][\A a \in Assets : IsPaused(a) /\ Quoted(a)' => last' = "LanePausedSet"]_vars
=============================================================================
