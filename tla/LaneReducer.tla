----------------------------- MODULE LaneReducer -----------------------------
(***************************************************************************)
(* What one quote-critical event of the Core contract does to the state of *)
(* the client, and the before-image that undoes it (packages/client        *)
(* state/reducer.ts and state/reducer_undo.ts; the Rust reducer makes the  *)
(* same changes and keeps whole states instead of before-images).          *)
(*                                                                         *)
(* The state: the lanes by asset, the CASH reserve, the fee multiplier,    *)
(* and the partner fees of the verified router, if there is one.  An event *)
(* is a record of its kind, its asset and up to two numbers.               *)
(***************************************************************************)
EXTENDS LaneSlot0, FiniteSets

CONSTANTS Assets,          \* the assets that may have a lane
          Cash,            \* the settlement asset
          Bps,             \* the fee denominator
          PrincipalMax,    \* U128_MAX
          Whitelisted      \* the fee class of the deployment

LaneReducerOK ==
    /\ Cash \notin Assets
    /\ {Bps, PrincipalMax} \subseteq Nat \ {0}
    /\ Whitelisted \in BOOLEAN

NoRouter == [verified |-> FALSE, fees |-> <<>>]
EmptyLane == [slot0 |-> 0, reserve |-> 0, principal |-> 0]
NoUndo == [kind |-> "None"]

Put(f, x, v) == [y \in DOMAIN f \cup {x} |-> IF y = x THEN v ELSE f[y]]
Drop(f, x) == [y \in DOMAIN f \ {x} |-> f[y]]

Lane(st, asset) ==
    IF asset \in DOMAIN st.lanes THEN st.lanes[asset] ELSE EmptyLane

LaneKinds == {"LaneAdded", "LaneUpdated", "SlippageKSet", "LanePausedSet",
              "PricePushThresholdSet", "BlockDelaySet", "DepositExecuted",
              "WithdrawalExecuted"}

Kinds == LaneKinds \cup {"LaneRemoved", "PartnerFeeSet", "WhitelistSet",
                         "BlacklistFeeMultiplierSet", "Sync",
                         "ImplementationUpgraded"}

(* PartnerFeeSet and WhitelistSet name a router: other = 1 is the verified *)
(* one.  The other uses of value and other are given with each kind below. *)
Ours(st, e) == st.router.verified /\ e.other = 1

ValidEvent(st, e) ==
    /\ e.kind = "SlippageKSet" => e.value <= Bps
    /\ e.kind = "PricePushThresholdSet" => e.value < 2^ThresholdBits
    /\ e.kind = "PartnerFeeSet" /\ Ours(st, e) => e.value <= Bps
    /\ e.kind \in {"DepositExecuted", "WithdrawalExecuted"} => e.value <= PrincipalMax

UnknownLane(st, e) ==
    /\ \/ e.kind \in LaneKinds \ {"LaneAdded"}
       \/ e.kind = "Sync" /\ e.asset # Cash
    /\ e.asset \notin DOMAIN st.lanes

(* Events the chain cannot have emitted in the state st. *)
Impossible(st, e) ==
    \/ UnknownLane(st, e)
    \/ e.kind = "LaneAdded" /\ e.asset \in DOMAIN st.lanes
    \/ e.kind = "LaneRemoved" /\ e.asset \notin DOMAIN st.lanes
    \/ e.kind = "DepositExecuted" /\ Lane(st, e.asset).principal + e.value > PrincipalMax
    \/ e.kind = "WithdrawalExecuted" /\ e.value > Lane(st, e.asset).principal

(* The events apply throws on; the state is then as it was. *)
Refused(st, e) ==
    \/ ~ValidEvent(st, e)
    \/ UnknownLane(st, e)
    \/ e.kind = "LaneAdded" /\ st.router.verified
    \/ e.kind = "WhitelistSet" /\ Ours(st, e) /\ (e.value = 1) # Whitelisted
    \/ e.kind = "DepositExecuted" /\ Lane(st, e.asset).principal + e.value > PrincipalMax
    \/ e.kind = "WithdrawalExecuted" /\ e.value > Lane(st, e.asset).principal
    \/ e.kind = "ImplementationUpgraded"

LaneAfter(lane, e) ==
    CASE e.kind = "LaneAdded" ->
            [lane EXCEPT !.slot0 = SetPaused(SetExists(@, TRUE), TRUE)]
      [] e.kind = "LaneUpdated" -> [lane EXCEPT !.slot0 = e.value]
      [] e.kind = "SlippageKSet" -> [lane EXCEPT !.slot0 = SetSlippageKBps(@, e.value)]
      [] e.kind = "LanePausedSet" -> [lane EXCEPT !.slot0 = SetPaused(@, e.value = 1)]
      [] e.kind = "PricePushThresholdSet" ->
            [lane EXCEPT !.slot0 = SetPricePushThreshold(@, e.value, e.other = 1)]
      [] e.kind = "BlockDelaySet" -> [lane EXCEPT !.slot0 = SetBlockDelay(@, e.value)]
      [] e.kind = "DepositExecuted" -> [lane EXCEPT !.principal = @ + e.value]
      [] e.kind = "WithdrawalExecuted" -> [lane EXCEPT !.principal = @ - e.value]

(* Any partner fee of the verified router. *)
PartnerCountsAny(st, e) == Ours(st, e)

(* PartnerFeeSet counts only for the verified router and a quoted asset. *)
PartnerCounts(st, e) ==
    Ours(st, e) /\ (e.asset = Cash \/ e.asset \in DOMAIN st.lanes)

ApplyEvent(st, e) ==
    CASE e.kind \in LaneKinds ->
            [st EXCEPT !.lanes = Put(@, e.asset, LaneAfter(Lane(st, e.asset), e))]
      [] e.kind = "LaneRemoved" ->
            [st EXCEPT !.lanes = Drop(@, e.asset), !.router.fees = Drop(@, e.asset)]
      [] e.kind = "PartnerFeeSet" /\ PartnerCounts(st, e) ->
            [st EXCEPT !.router.fees = Put(@, e.asset, e.value)]
      [] e.kind = "BlacklistFeeMultiplierSet" -> [st EXCEPT !.multiplier = e.value]
      [] e.kind = "Sync" ->   \* value: the asset's reserve, other: the CASH reserve
            [st EXCEPT !.cash = e.other,
                       !.lanes = IF e.asset = Cash THEN @
                                 ELSE [@ EXCEPT ![e.asset].reserve = e.value]]
      [] OTHER -> st

LaneImage(st, asset) ==
    [asset |-> asset, had |-> asset \in DOMAIN st.lanes, lane |-> Lane(st, asset)]

FeeImage(st, asset) ==
    [asset |-> asset, had |-> asset \in DOMAIN st.router.fees,
     fee |-> IF asset \in DOMAIN st.router.fees THEN st.router.fees[asset] ELSE 0]

(* The before-image of a removal without the partner's fee. *)
UndoLaneOnly(st, e) ==
    CASE e.kind \in LaneKinds \cup {"LaneRemoved"} ->
            [kind |-> "Lane", lane |-> LaneImage(st, e.asset)]
      [] e.kind = "PartnerFeeSet" /\ PartnerCounts(st, e) ->
            [kind |-> "PartnerFee", fee |-> FeeImage(st, e.asset)]
      [] e.kind = "BlacklistFeeMultiplierSet" ->
            [kind |-> "BlacklistMultiplier", previous |-> st.multiplier]
      [] e.kind = "Sync" ->
            [kind |-> "CashAndLane", previous |-> st.cash, positioned |-> e.asset # Cash,
             lane |-> LaneImage(st, e.asset)]
      [] OTHER -> NoUndo

UndoOf(st, e) ==
    CASE e.kind \in LaneKinds -> [kind |-> "Lane", lane |-> LaneImage(st, e.asset)]
      [] e.kind = "LaneRemoved" ->
            [kind |-> "LaneAndPartner", lane |-> LaneImage(st, e.asset),
             fee |-> FeeImage(st, e.asset)]
      [] e.kind = "PartnerFeeSet" /\ PartnerCounts(st, e) ->
            [kind |-> "PartnerFee", fee |-> FeeImage(st, e.asset)]
      [] e.kind = "BlacklistFeeMultiplierSet" ->
            [kind |-> "BlacklistMultiplier", previous |-> st.multiplier]
      [] e.kind = "Sync" ->
            [kind |-> "CashAndLane", previous |-> st.cash, positioned |-> e.asset # Cash,
             lane |-> LaneImage(st, e.asset)]
      [] OTHER -> NoUndo

RestoreLane(lanes, image) ==
    IF image.had THEN Put(lanes, image.asset, image.lane) ELSE Drop(lanes, image.asset)

RestoreFee(router, image) ==
    [router EXCEPT !.fees = IF ~router.verified THEN @
                            ELSE IF image.had THEN Put(@, image.asset, image.fee)
                            ELSE Drop(@, image.asset)]

RestoreReducerUndo(st, undo) ==
    CASE undo.kind = "Lane" -> [st EXCEPT !.lanes = RestoreLane(@, undo.lane)]
      [] undo.kind = "LaneAndPartner" ->
            [st EXCEPT !.lanes = RestoreLane(@, undo.lane),
                       !.router = RestoreFee(@, undo.fee)]
      [] undo.kind = "CashAndLane" ->
            [st EXCEPT !.cash = undo.previous,
                       !.lanes = IF undo.positioned THEN RestoreLane(@, undo.lane) ELSE @]
      [] undo.kind = "PartnerFee" -> [st EXCEPT !.router = RestoreFee(@, undo.fee)]
      [] undo.kind = "BlacklistMultiplier" -> [st EXCEPT !.multiplier = undo.previous]

(* reducerUndoRetainedBytes *)
UndoBytes(undo) == IF undo.kind \in {"CashAndLane", "LaneAndPartner"} THEN 256 ELSE 160
=============================================================================
