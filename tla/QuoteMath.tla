------------------------------ MODULE QuoteMath ------------------------------
(***************************************************************************)
(* Quotes from a state of the lanes: the fixed-width arithmetic, the fee   *)
(* and slippage formulas and the evaluation of direct and routed requests  *)
(* of lunarbase-math (arithmetic.rs, fees.rs, quote.rs), which             *)
(* packages/math mirrors.  Words are 0 .. WordMax; a failed operation is   *)
(* Err and makes what is computed from it Err.                             *)
(***************************************************************************)
EXTENDS LaneReducer

CONSTANTS Wad, SlippageScale, MaxSlippageBps,
          WordMax          \* U256::MAX

QuoteMathOK ==
    /\ {Wad, SlippageScale, MaxSlippageBps, WordMax} \subseteq Nat \ {0}
    /\ Bps <= WordMax /\ MaxSlippageBps <= Bps

Err == -1
Least(x, y) == IF x <= y THEN x ELSE y
Fit(n) == IF n \in 0 .. WordMax THEN n ELSE Err

CheckedAdd(x, y) == IF Err \in {x, y} THEN Err ELSE Fit(x + y)
CheckedSub(x, y) == IF Err \in {x, y} THEN Err ELSE Fit(x - y)
CheckedMul(x, y) == IF Err \in {x, y} THEN Err ELSE Fit(x * y)

Up(n, d) == (n + d - 1) \div d

CeilDiv(x, d) == IF x = Err \/ d = 0 THEN Err ELSE Fit(Up(x, d))

FullMulDivDown(x, y, d) ==
    IF Err \in {x, y, d} \/ d = 0 THEN Err ELSE Fit((x * y) \div d)

FullMulDivUp(x, y, d) ==
    IF Err \in {x, y, d} \/ d = 0 THEN Err ELSE Fit(Up(x * y, d))

MulDivDown256(x, y, d) ==
    IF CheckedMul(x, y) = Err \/ d = 0 THEN Err ELSE CheckedMul(x, y) \div d

-----------------------------------------------------------------------------
(* fees.rs *)

QuoteLaneExactIn(price, amount, cashToAsset) ==
    IF price = 0 THEN 0
    ELSE IF cashToAsset THEN FullMulDivDown(amount, Wad, price)
                        ELSE FullMulDivDown(amount, price, Wad)

(* An exact-out conversion rounded down. *)
ExactOutDown(price, amount, cashToAsset) ==
    IF price = 0 THEN 0
    ELSE IF cashToAsset THEN FullMulDivDown(amount, price, Wad)
                        ELSE FullMulDivDown(amount, Wad, price)

QuoteLaneExactOut(price, amount, cashToAsset) ==
    IF price = 0 THEN 0
    ELSE IF cashToAsset THEN FullMulDivUp(amount, price, Wad)
                        ELSE FullMulDivUp(amount, Wad, price)

(* Slippage without its cap. *)
UncappedSlippageBps(swap, principal, k) ==
    IF 0 \in {swap, principal, k} THEN 0
    ELSE CeilDiv(FullMulDivUp(swap, k, principal), SlippageScale)

QuoteLaneSlippageBps(swap, principal, k) ==
    IF 0 \in {swap, principal, k} THEN 0
    ELSE Least(CeilDiv(FullMulDivUp(swap, k, principal), SlippageScale), MaxSlippageBps)

QuoteLaneWeightedSlippageKBps(p, pk, q, qk) ==
    LET total == CheckedAdd(p, q)
    IN  IF total = 0 THEN 0
        ELSE Least(CheckedAdd(FullMulDivUp(p, pk, total), FullMulDivUp(q, qk, total)), Bps)

CalculateFeeBpsForRouter(multiplier, feeBps) ==
    LET fee == Least(feeBps, Bps)
    IN  IF Whitelisted THEN fee
        ELSE IF multiplier # 0 /\ fee > Bps \div multiplier THEN Bps
        ELSE Least(CheckedMul(fee, multiplier), Bps)

QuoteLaneExactInFee(anchor, feeBps) ==
    IF 0 \in {anchor, feeBps} THEN 0 ELSE FullMulDivUp(anchor, feeBps, CheckedAdd(Bps, feeBps))

QuoteLaneExactOutFee(anchor, feeBps) ==
    IF 0 \in {anchor, feeBps} THEN 0 ELSE FullMulDivUp(anchor, feeBps, Bps)

(* The fee of a mode. *)
SpreadOf(anchor, bps, exactIn) ==
    IF exactIn THEN QuoteLaneExactInFee(anchor, bps) ELSE QuoteLaneExactOutFee(anchor, bps)

(* A split that rounds both parts down. *)
SplitBothDown(fee, partnerBps) ==
    LET part(bps) == MulDivDown256(fee, bps, Bps)
    IN  [partner |-> part(partnerBps), treasury |-> part(Bps - partnerBps)]

SplitFee(fee, partnerBps) ==
    LET partner == IF 0 \in {fee, partnerBps} THEN 0 ELSE MulDivDown256(fee, partnerBps, Bps)
    IN  [partner |-> partner, treasury |-> CheckedSub(fee, partner)]

-----------------------------------------------------------------------------
(* quote.rs.  A request has assets in and out, an amount and a mode.       *)

ExactIn == "ExactIn"
ExactOut == "ExactOut"

Outcome(kind, reason) ==
    [kind |-> kind, reason |-> reason, in |-> 0, out |-> 0, feeAsset |-> Cash, fee |-> 0,
     split |-> [partner |-> 0, treasury |-> 0]]
Unavailable(reason) == Outcome("Unavailable", reason)
Failed == Outcome("Error", "Arithmetic")

(* The price still quoted in the block after its last one. *)
LaneReasonLate(st, asset, block) ==
    LET word == Lane(st, asset).slot0
    IN  IF asset \notin DOMAIN st.lanes \/ ~Exists(word) THEN "MissingLane"
        ELSE IF Paused(word) THEN "PausedLane"
        ELSE IF block > LatestUpdateBlock(word) + BlockDelay(word) + 1 THEN "StaleLane"
        ELSE ""

(* The reason a lane cannot be quoted, or "". *)
LaneReason(st, asset, block) ==
    LET word == Lane(st, asset).slot0
    IN  IF asset \notin DOMAIN st.lanes \/ ~Exists(word) THEN "MissingLane"
        ELSE IF Paused(word) THEN "PausedLane"
        ELSE IF block > LatestUpdateBlock(word) + BlockDelay(word) THEN "StaleLane"
        ELSE ""

PrincipalCashValue(lane) ==
    IF lane.principal = 0 THEN 0 ELSE QuoteLaneExactIn(Price(lane.slot0), lane.principal, FALSE)

FeeAsset(req) == IF req.mode = ExactIn THEN req.out ELSE req.in

(* policyFor *)
PartnerBps(st, req) ==
    IF FeeAsset(req) \in DOMAIN st.router.fees THEN st.router.fees[FeeAsset(req)] ELSE 0

AssembleQuote(st, req, anchor, fee, slippage) ==
    LET exactIn == req.mode = ExactIn
        spread == CheckedAdd(fee, slippage)
        in == IF exactIn THEN req.amount ELSE CheckedAdd(anchor, spread)
        out == IF exactIn THEN CheckedSub(anchor, spread) ELSE req.amount
        reserve == IF req.out = Cash THEN st.cash ELSE Lane(st, req.out).reserve
        split == SplitFee(fee, PartnerBps(st, req))
    IN  IF spread = Err THEN Failed
        ELSE IF exactIn /\ spread >= anchor THEN Unavailable("SpreadConsumesAnchor")
        ELSE IF in = Err THEN Failed
        ELSE IF out > reserve \/ (exactIn /\ fee > reserve - out)
             THEN Unavailable("InsufficientOutputReserve")
        ELSE IF st.router.verified /\ split.partner = Err THEN Failed
        ELSE [kind |-> "Available", reason |-> "", in |-> in, out |-> out,
              feeAsset |-> FeeAsset(req), fee |-> fee,
              split |-> IF st.router.verified THEN split ELSE [partner |-> 0, treasury |-> 0]]

QuoteDirect(st, req, lane, cashToAsset) ==
    LET exactIn == req.mode = ExactIn
        word == lane.slot0
        anchor == IF exactIn THEN QuoteLaneExactIn(Price(word), req.amount, cashToAsset)
                             ELSE QuoteLaneExactOut(Price(word), req.amount, cashToAsset)
        principal == PrincipalCashValue(lane)
        feeBps == CalculateFeeBpsForRouter(st.multiplier,
                      IF cashToAsset THEN AskFeeBps(word) ELSE BidFeeBps(word))
        swap == IF cashToAsset = exactIn THEN req.amount ELSE anchor
        slippage == QuoteLaneSlippageBps(swap, principal, SlippageKBps(word))
        fee == SpreadOf(anchor, feeBps, exactIn)
        total == SpreadOf(anchor, CheckedAdd(feeBps, slippage), exactIn)
    IN  IF anchor = Err THEN Failed
        ELSE IF anchor = 0 THEN Unavailable("ZeroAnchor")
        ELSE IF principal = Err THEN Failed
        ELSE IF principal = 0 THEN Unavailable("ZeroPrincipal")
        ELSE AssembleQuote(st, req, anchor, fee, CheckedSub(total, fee))

QuoteRoute(st, req, source, target) ==
    LET exactIn == req.mode = ExactIn
        cash == IF exactIn THEN QuoteLaneExactIn(Price(source.slot0), req.amount, FALSE)
                           ELSE QuoteLaneExactOut(Price(target.slot0), req.amount, TRUE)
        anchor == IF exactIn THEN QuoteLaneExactIn(Price(target.slot0), cash, TRUE)
                             ELSE QuoteLaneExactOut(Price(source.slot0), cash, FALSE)
        first == PrincipalCashValue(source)
        second == PrincipalCashValue(target)
        k == QuoteLaneWeightedSlippageKBps(first, SlippageKBps(source.slot0),
                                           second, SlippageKBps(target.slot0))
        slippage == QuoteLaneSlippageBps(cash, CheckedAdd(first, second), k)
        bid == CalculateFeeBpsForRouter(st.multiplier, BidFeeBps(source.slot0))
        ask == CalculateFeeBpsForRouter(st.multiplier, AskFeeBps(target.slot0))
        fee == SpreadOf(anchor, CheckedAdd(bid, ask), exactIn)
        total == SpreadOf(anchor, CheckedAdd(CheckedAdd(bid, slippage),
                                             CheckedAdd(ask, slippage)), exactIn)
    IN  IF Err \in {cash, anchor} THEN Failed
        ELSE IF anchor = 0 THEN Unavailable("ZeroAnchor")
        ELSE IF first = Err THEN Failed
        ELSE IF first = 0 THEN Unavailable("ZeroPrincipal")
        ELSE IF second = Err THEN Failed
        ELSE IF second = 0 THEN Unavailable("ZeroPrincipal")
        ELSE AssembleQuote(st, req, anchor, fee, CheckedSub(total, fee))

Quote(st, block, req) ==
    LET reason(asset) == LaneReason(st, asset, block)
    IN  IF req.amount = 0 THEN Unavailable("ZeroAmount")
        ELSE IF req.in = req.out THEN Unavailable("EqualAssets")
        ELSE IF req.out = Cash
             THEN IF reason(req.in) # "" THEN Unavailable(reason(req.in))
                  ELSE QuoteDirect(st, req, Lane(st, req.in), FALSE)
        ELSE IF req.in = Cash
             THEN IF reason(req.out) # "" THEN Unavailable(reason(req.out))
                  ELSE QuoteDirect(st, req, Lane(st, req.out), TRUE)
        ELSE IF reason(req.in) # "" THEN Unavailable(reason(req.in))
        ELSE IF reason(req.out) # "" THEN Unavailable(reason(req.out))
        ELSE QuoteRoute(st, req, Lane(st, req.in), Lane(st, req.out))
=============================================================================
