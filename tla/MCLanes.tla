------------------------------ MODULE MCLanes -------------------------------
(***************************************************************************)
(* What is computed from the lanes: their words and the quotes, and the    *)
(* state that the TypeScript indexer keeps of them across corrections.     *)
(* Both use LaneReducer.  They are checked side by side, each in two       *)
(* settings: a behaviour exercises one of the four, and the others stay in *)
(* their initial states.                                                   *)
(***************************************************************************)
EXTENDS Integers

VARIABLES part,
          st, contract, block, changed, events,
          reducer, journal, stable, canonicalFloor, finality, last,
          told, headed, final, closed, sent, again, logs

laneVars == <<st, contract, block, changed, events>>
undoVars == <<reducer, journal, stable, canonicalFloor, finality, last,
              told, headed, final, closed, sent, again, logs>>

Event(kind, asset, value, other) ==
    [kind |-> kind, asset |-> asset, value |-> value, other |-> other]

-----------------------------------------------------------------------------
(* Quotes: words of 22 bits, amounts up to a word's limit of 12 bits.      *)
Word == INSTANCE LaneReducer WITH
    PriceBits <- 4, FeeBits <- 3, ThresholdBits <- 3, BlockBits <- 3, BlockDelayBits <- 2,
    SlippageKBits <- 5, ReservedBits <- 1, Percent <- 4, Assets <- {"weth", "wbtc"},
    Cash <- "cash", Bps <- 16, PrincipalMax <- 9, Whitelisted <- TRUE
Configured(price, ask, bid, k) ==
    Word!EncodeLaneSlot0([Word!DecodeLaneSlot0(0) EXCEPT !.exists = TRUE, !.price = price,
                             !.ask = ask, !.bid = bid, !.k = k, !.block = 1, !.delay = 1,
                             !.threshold = 2])
QuotingState ==
    [lanes |-> [weth |-> [slot0 |-> Configured(6, 1, 2, 3), reserve |-> 9, principal |-> 4],
                wbtc |-> [slot0 |-> Configured(3, 0, 1, 16), reserve |-> 9, principal |-> 8]],
     cash |-> 12, multiplier |-> 2, router |-> [verified |-> TRUE, fees |-> [weth |-> 5, cash |-> 16]]]
QuotingSettings ==
    {Event("SlippageKSet", "weth", 16, 0), Event("SlippageKSet", "weth", 0, 0),
     Event("LanePausedSet", "weth", 1, 0), Event("PricePushThresholdSet", "weth", 1, 1),
     Event("BlockDelaySet", "weth", 3, 0), Event("WithdrawalExecuted", "weth", 3, 0),
     Event("Sync", "wbtc", 20, 20), Event("BlacklistFeeMultiplierSet", "cash", 0, 0),
     Event("PartnerFeeSet", "wbtc", 3, 1)}
(* Without a router, so that lanes may be added.                           *)
AgingState == [QuotingState EXCEPT !.router = Word!NoRouter]
AgingSettings ==
    {Event("LaneRemoved", "wbtc", 0, 0), Event("LaneAdded", "wbtc", 0, 0),
     Event("LanePausedSet", "wbtc", 0, 0), Event("DepositExecuted", "wbtc", 2, 0),
     Event("Sync", "wbtc", 7, 12), Event("SlippageKSet", "wbtc", 5, 0),
     Event("PricePushThresholdSet", "wbtc", 7, 1), Event("BlockDelaySet", "wbtc", 2, 0)}

Quoting == INSTANCE LaneQuotes WITH
    PriceBits <- 4, FeeBits <- 3, ThresholdBits <- 3, BlockBits <- 3, BlockDelayBits <- 2,
    SlippageKBits <- 5, ReservedBits <- 1, Percent <- 4, Assets <- {"weth", "wbtc"},
    Cash <- "cash", Bps <- 16, PrincipalMax <- 9, Whitelisted <- FALSE,
    Wad <- 4, SlippageScale <- 2, MaxSlippageBps <- 4, WordMax <- 4095,
    InitState <- QuotingState, Settings <- QuotingSettings,
    Pushes <- {<<1, 3, 0>>, <<7, 0, 1>>, <<15, 7, 7>>}, Amounts <- {1, 3, 5, 4095},
    MaxBlock <- 2, MaxEvents <- 3, last <- changed
Aging == INSTANCE LaneQuotes WITH
    PriceBits <- 4, FeeBits <- 3, ThresholdBits <- 3, BlockBits <- 3, BlockDelayBits <- 2,
    SlippageKBits <- 5, ReservedBits <- 1, Percent <- 4, Assets <- {"weth", "wbtc"},
    Cash <- "cash", Bps <- 16, PrincipalMax <- 9, Whitelisted <- TRUE,
    Wad <- 4, SlippageScale <- 2, MaxSlippageBps <- 4, WordMax <- 4095,
    InitState <- AgingState, Settings <- AgingSettings,
    Pushes <- {<<1, 3, 0>>, <<7, 0, 1>>, <<15, 7, 7>>}, Amounts <- {1, 4},
    MaxBlock <- 4, MaxEvents <- 4, last <- changed

-----------------------------------------------------------------------------
(* The undo journal, over words of 13 bits.                                *)
Small == INSTANCE LaneReducer WITH
    PriceBits <- 3, FeeBits <- 2, ThresholdBits <- 2, BlockBits <- 2, BlockDelayBits <- 2,
    SlippageKBits <- 2, ReservedBits <- 1, Percent <- 4, Assets <- {"weth"},
    Cash <- "cash", Bps <- 2, PrincipalMax <- 2, Whitelisted <- TRUE
(* One lane, without a router or with its partner fee.                     *)
PlainState ==
    [lanes |-> [weth |-> [slot0 |-> Small!SetExists(2 + 2^Small!AskFeeShift, TRUE),
                          reserve |-> 1, principal |-> 1]],
     cash |-> 1, multiplier |-> 1, router |-> Small!NoRouter]
PlainEvents ==
    {Event("LaneRemoved", "weth", 0, 0), Event("LaneAdded", "weth", 0, 0),
     Event("Sync", "weth", 2, 2)}
RouterState == [PlainState EXCEPT !.router = [verified |-> TRUE, fees |-> [weth |-> 1]]]
RouterEvents ==
    {Event("LaneRemoved", "weth", 0, 0), Event("LaneAdded", "weth", 0, 0),
     Event("PartnerFeeSet", "weth", 2, 1), Event("BlacklistFeeMultiplierSet", "cash", 2, 0)}

Undo == INSTANCE CorrectionJournal WITH
    PriceBits <- 3, FeeBits <- 2, ThresholdBits <- 2, BlockBits <- 2, BlockDelayBits <- 2,
    SlippageKBits <- 2, ReservedBits <- 1, Percent <- 4, Assets <- {"weth"},
    Cash <- "cash", Bps <- 2, PrincipalMax <- 2, Whitelisted <- TRUE,
    InitState <- PlainState, Events <- PlainEvents, BlockCapacity <- 2, ByteCapacity <- 704,
    MaxBlock <- 3, MaxLogs <- 3, MaxCorrections <- 1, MaxBranch <- 1, LogsLead <- FALSE
Router == INSTANCE CorrectionJournal WITH
    PriceBits <- 3, FeeBits <- 2, ThresholdBits <- 2, BlockBits <- 2, BlockDelayBits <- 2,
    SlippageKBits <- 2, ReservedBits <- 1, Percent <- 4, Assets <- {"weth"},
    Cash <- "cash", Bps <- 2, PrincipalMax <- 2, Whitelisted <- TRUE,
    InitState <- RouterState, Events <- RouterEvents, BlockCapacity <- 1, ByteCapacity <- 1024,
    MaxBlock <- 3, MaxLogs <- 2, MaxCorrections <- 2, MaxBranch <- 1, LogsLead <- FALSE

ASSUME LanesAssumption ==
    /\ Word!LaneSlot0OK /\ Word!LaneReducerOK /\ Small!LaneSlot0OK /\ Small!LaneReducerOK
    /\ Quoting!QuoteMathOK /\ Quoting!LaneQuotesOK /\ Aging!LaneQuotesOK
    /\ Undo!CorrectionJournalOK /\ Router!CorrectionJournalOK

-----------------------------------------------------------------------------
Init ==
    /\ part \in {"quoting", "aging", "undo", "router"}
    /\ IF part = "aging" THEN Aging!Init ELSE Quoting!Init
    /\ IF part = "router" THEN Router!Init ELSE Undo!Init

Next ==
    \/ /\ UNCHANGED <<part, undoVars>>
       /\ \/ part = "quoting" /\ Quoting!Next
          \/ part = "aging" /\ Aging!Next
    \/ /\ UNCHANGED <<part, laneVars>>
       /\ \/ part = "undo" /\ Undo!Next
          \/ part = "router" /\ Router!Next

Spec == Init /\ [][Next]_<<part, laneVars, undoVars>>

-----------------------------------------------------------------------------
(* Quotes.  Words and principals keep their widths (slot0.rs).             *)
LaneTypeOK == (part = "quoting" => Quoting!TypeOK) /\ (part = "aging" => Aging!TypeOK)
(* The packed words hold the contract's fields after any settings and      *)
(* pushes (slot0.rs write_field, encode_lane_slot0).                       *)
WordsHoldFields == part \in {"quoting", "aging"} => Quoting!WordsHoldFields
(* In exact fractions no quote beats the pushed prices with their fees, in *)
(* either mode, directly or over CASH (fees.rs, quote.rs).                 *)
NeverBetterThanPrice == part = "quoting" => Quoting!NeverBetterThanPrice
(* A direct quote loses at most the largest slippage and a unit at each    *)
(* rounding (quote_lane_exact_in, quote_lane_exact_out, lane_spread).      *)
NearThePrice == part = "quoting" => Quoting!NearThePrice
(* The split for a verified router neither changes a quote nor loses fees  *)
(* (split_fee, assemble_quote).                                            *)
AllocationNeutral == part = "quoting" => Quoting!AllocationNeutral
(* Quotes use prices no older than the lane's delay (lane_or_reason).      *)
PricesAreFresh == part = "aging" => Aging!PricesAreFresh
(* A paused lane is quoted again only after LanePausedSet                  *)
(* (apply_lane_update_slot0).                                              *)
PauseHolds == Aging!PauseHolds

(* The undo journal.  Cursors and counts keep their ranges (engine.ts).    *)
UndoTypeOK == (part = "undo" => Undo!TypeOK) /\ (part = "router" => Router!TypeOK)
(* A ready indexer quotes from the state of the chain it was told          *)
(* (engine.ts applyCoreUpdate, applyCorrection).                           *)
ReadyIsTold == part \in {"undo", "router"} => Undo!ReadyIsTold
(* The journal rolls back exactly to every ancestor it accepts             *)
(* (correction_journal.ts candidate, reducer_undo.ts).                     *)
RollbackIsExact == (part = "undo" => Undo!RollbackIsExact) /\ (part = "router" => Router!RollbackIsExact)
(* The checkpoint is the complete state of a block of that chain           *)
(* (engine.ts observeFinalized).                                           *)
CheckpointIsTold == part \in {"undo", "router"} => Undo!CheckpointIsTold
(* The journal's bytes are counted exactly and bounded                     *)
(* (correction_journal.ts record, makeRoom).                               *)
BudgetHeld == (part = "undo" => Undo!BudgetHeld) /\ (part = "router" => Router!BudgetHeld)
(* Router fees belong to quoted assets, also after rollbacks (reducer.ts   *)
(* applyEvent, reducer_undo.ts).                                           *)
PartnerAssetsQuoted == part = "router" => Router!PartnerAssetsQuoted
(* The proven finalized floor never moves back or changes hash, also       *)
(* across a recovery (finality_guard.ts, installSnapshot).                 *)
FinalityHolds == Undo!FinalityHolds
(* The cursor of a ready indexer moves back only for a correction          *)
(* (QuoteReducer.observeHead).                                             *)
CursorNeverRegresses == Undo!CursorNeverRegresses

-----------------------------------------------------------------------------
(* What the run checks, with its parts above.                              *)

(* Every quote is computed from the contract's fields and a fresh price,   *)
(* and is that price with its fees, rounded against the trader and nowhere *)
(* else (quote.rs, fees.rs, slot0.rs).                                     *)
QuotesKeepThePrice ==
    WordsHoldFields /\ NeverBetterThanPrice /\ NearThePrice /\ AllocationNeutral /\ PricesAreFresh
(* A ready indexer's state, checkpoint and router fees are those of the    *)
(* chain it was told (engine.ts, reducer.ts).                              *)
IndexerIsTold == ReadyIsTold /\ CheckpointIsTold /\ PartnerAssetsQuoted
(* Within its budget the journal undoes exactly what it claims             *)
(* (correction_journal.ts).                                                *)
UndoIsExact == RollbackIsExact /\ BudgetHeld
(* What only one kind of event may take back, no other takes back: a       *)
(* pause, the finalized floor, the cursor (slot0.rs, finality_guard.ts,    *)
(* reducer.ts).                                                            *)
NothingTakenBack == PauseHolds /\ FinalityHolds /\ CursorNeverRegresses
=============================================================================
