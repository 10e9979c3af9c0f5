------------------------------ MODULE LaneSlot0 ------------------------------
(***************************************************************************)
(* The packed word Lane.slot0 of the contract (lunarbase-math slot0.rs,    *)
(* packages/math slot0.ts): fields of fixed widths in one unsigned word,   *)
(* read by shift and mask, replaced by clearing and writing.  The widths   *)
(* are constants; the shifts are their running sums, as in the code        *)
(* (0, 112, 132, 152, 159, 160, 200, 201, 202, 210, 242 of 256 bits).      *)
(***************************************************************************)
EXTENDS Integers

CONSTANTS PriceBits, FeeBits, ThresholdBits, BlockBits, BlockDelayBits,
          SlippageKBits, ReservedBits,
          Percent          \* the 100 of the threshold comparison

LaneSlot0OK ==
    {PriceBits, FeeBits, ThresholdBits, BlockBits, BlockDelayBits,
     SlippageKBits, ReservedBits, Percent} \subseteq Nat \ {0}

AskFeeShift == PriceBits
BidFeeShift == AskFeeShift + FeeBits
ThresholdShift == BidFeeShift + FeeBits
ThresholdEnabledShift == ThresholdShift + ThresholdBits
UpdateBlockShift == ThresholdEnabledShift + 1
ExistsShift == UpdateBlockShift + BlockBits
PausedShift == ExistsShift + 1
BlockDelayShift == PausedShift + 1
SlippageKShift == BlockDelayShift + BlockDelayBits
ReservedShift == SlippageKShift + SlippageKBits

ReadField(word, shift, bits) == (word \div 2^shift) % 2^bits

(* A replacement that leaves the old bits of the field in place. *)
OverwriteField(word, value, shift, bits) == word + (value % 2^bits) * 2^shift

WriteField(word, value, shift, bits) ==
    word - ReadField(word, shift, bits) * 2^shift + (value % 2^bits) * 2^shift

Price(word) == ReadField(word, 0, PriceBits)
AskFeeBps(word) == ReadField(word, AskFeeShift, FeeBits)
BidFeeBps(word) == ReadField(word, BidFeeShift, FeeBits)
LatestUpdateBlock(word) == ReadField(word, UpdateBlockShift, BlockBits)
Exists(word) == ReadField(word, ExistsShift, 1) = 1
Paused(word) == ReadField(word, PausedShift, 1) = 1
BlockDelay(word) == ReadField(word, BlockDelayShift, BlockDelayBits)
SlippageKBps(word) == ReadField(word, SlippageKShift, SlippageKBits)

Bit(b) == IF b THEN 1 ELSE 0

SetExists(word, exists) == WriteField(word, Bit(exists), ExistsShift, 1)

SetPaused(word, paused) == WriteField(word, Bit(paused), PausedShift, 1)
SetPricePushThreshold(word, threshold, enabled) ==
    WriteField(WriteField(word, threshold, ThresholdShift, ThresholdBits),
               Bit(enabled), ThresholdEnabledShift, 1)
SetBlockDelay(word, delay) == WriteField(word, delay, BlockDelayShift, BlockDelayBits)
SetSlippageKBps(word, k) == WriteField(word, k, SlippageKShift, SlippageKBits)

DecodeLaneSlot0(word) ==
    [price     |-> Price(word),
     ask       |-> AskFeeBps(word),
     bid       |-> BidFeeBps(word),
     threshold |-> ReadField(word, ThresholdShift, ThresholdBits),
     enabled   |-> ReadField(word, ThresholdEnabledShift, 1) = 1,
     block     |-> LatestUpdateBlock(word),
     exists    |-> Exists(word),
     paused    |-> Paused(word),
     delay     |-> BlockDelay(word),
     k         |-> SlippageKBps(word),
     reserved  |-> ReadField(word, ReservedShift, ReservedBits)]

EncodeLaneSlot0(f) ==
    f.price + f.ask * 2^AskFeeShift + f.bid * 2^BidFeeShift
    + f.threshold * 2^ThresholdShift + Bit(f.enabled) * 2^ThresholdEnabledShift
    + f.block * 2^UpdateBlockShift + Bit(f.exists) * 2^ExistsShift
    + Bit(f.paused) * 2^PausedShift + f.delay * 2^BlockDelayShift
    + f.k * 2^SlippageKShift + f.reserved * 2^ReservedShift

AbsDiff(x, y) == IF x >= y THEN x - y ELSE y - x

ExceedsThreshold(f, price) ==
    /\ f.enabled
    /\ f.price # 0
    /\ AbsDiff(price, f.price) * Percent > f.price * f.threshold

(* A price push that decides the pause anew. *)
ApplyLaneUpdateReopening(word, price, ask, bid, block) ==
    LET f == DecodeLaneSlot0(word)
    IN  EncodeLaneSlot0([f EXCEPT !.price = price, !.ask = ask, !.bid = bid,
                                  !.block = block,
                                  !.paused = ExceedsThreshold(f, price)])

(* The operator's price push, with the pause it may trigger. *)
ApplyLaneUpdateSlot0(word, price, ask, bid, block) ==
    LET f == DecodeLaneSlot0(word)
    IN  EncodeLaneSlot0([f EXCEPT !.price = price, !.ask = ask, !.bid = bid,
                                  !.block = block,
                                  !.paused = @ \/ ExceedsThreshold(f, price)])
=============================================================================
