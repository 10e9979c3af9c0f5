---------------------------- MODULE MCEvmSources ----------------------------
(***************************************************************************)
(* The EVM stream and the Arbitrum source's enrichment, which runs on top  *)
(* of one.  They share no state, so a behaviour exercises one of the two   *)
(* (part) and the other stays in its initial state.                        *)
(*                                                                         *)
(* EVM: a chain g1, a2, a3, a4 and a fork b2, b3 at g1; a2 holds two logs. *)
(***************************************************************************)
EXTENDS EvmStream

CONSTANTS g1, a2, a3, a4, b2, b3, la2, ma2, la3, lb2, lb3

MCBlock == {g1, a2, a3, a4, b2, b3}
MCParent == g1 :> NoBlock @@ a2 :> g1 @@ a3 :> a2 @@ a4 :> a3 @@ b2 :> g1 @@ b3 :> b2
MCNumber == g1 :> 1 @@ a2 :> 2 @@ b2 :> 2 @@ a3 :> 3 @@ b3 :> 3 @@ a4 :> 4
MCBlockOf == la2 :> a2 @@ ma2 :> a2 @@ la3 :> a3 @@ lb2 :> b2 @@ lb3 :> b3
MCIndex == la2 :> 0 @@ ma2 :> 1 @@ la3 :> 0 @@ lb2 :> 0 @@ lb3 :> 0

MCOrdered ==
    [delivery |-> "ordered", progressive |-> FALSE, capacity |-> 4,
     blocks |-> {g1, a2, a3, b2, b3}, logs |-> {la2, ma2, lb3}, switches |-> 1, faults |-> 0]
MCFaulty == [MCOrdered EXCEPT !.logs = {la2, lb3}, !.faults = 1]
MCConfigs ==
    {MCOrdered,
     [MCFaulty EXCEPT !.delivery = "realtime", !.progressive = TRUE],
     [MCFaulty EXCEPT !.delivery = "pending"],
     [MCFaulty EXCEPT !.delivery = "finalized", !.capacity = 1, !.switches = 0,
                      !.blocks = {g1, a2, a3, a4}, !.logs = {la2, ma2, la3}]}

-----------------------------------------------------------------------------
VARIABLES part, canonical, reorgs, values, order, task, request, asked, got
nitroVars == <<canonical, reorgs, values, order, task, request, asked, got>>

At(n, b) == [number |-> n, branch |-> b]
Ask(kind, blocks, realtime, known, claim) ==
    [kind |-> kind, blocks |-> blocks, realtime |-> realtime, known |-> known, claim |-> claim]
NitroContextOf(b) == 100 * b.number + (IF b.branch = "a" THEN 1 ELSE 2)

(* A known head, a backfill of two blocks and one with conflicting blocks, *)
(* a correction from branch a to branch b, and the checkpoints of both     *)
(* branches.                                                               *)
NitroRequests ==
    {Ask("Cursor", {At(2, "b")}, {}, {At(2, "b")}, 0),
     Ask("Backfill", {At(1, "a"), At(2, "a")}, {}, {}, 0),
     Ask("Backfill", {At(1, "a"), At(1, "b")}, {}, {}, 0),
     Ask("Correction", {At(1, "a"), At(2, "a"), At(2, "b")}, {At(2, "a"), At(2, "b")},
         {At(2, "b")}, 0),
     Ask("Checkpoint", {At(2, "a")}, {}, {}, 201),
     Ask("Checkpoint", {At(2, "a")}, {}, {}, 202)}

Nitro == INSTANCE NitroContext WITH
    Tasks <- {"t1", "t2"}, Numbers <- {1, 2}, Branches <- {"a", "b"},
    Context <- NitroContextOf, Requests <- NitroRequests,
    Capacity <- 2, Concurrency <- 2, MaxReorgs <- 1

ASSUME NitroAssumption == Nitro!ConstantsOK

MCInit ==
    /\ part \in {"evm", "nitro"}
    /\ Init /\ (part = "nitro" => stream.config = MCOrdered)
    /\ Nitro!Init /\ (part = "evm" => canonical = [n \in {1, 2} |-> "a"])

MCNext ==
    \/ part = "evm" /\ Next /\ UNCHANGED <<part, nitroVars>>
    \/ part = "nitro" /\ Nitro!Next /\ UNCHANGED <<part, vars>>

(* The fairness of each part, as its module states it; an idle enrichment  *)
(* has no step to be fair to.                                              *)
MCSpec ==
    /\ MCInit /\ [][MCNext]_<<part, vars, nitroVars>>
    /\ WF_vars(part = "evm" /\ Progress)
    /\ Nitro!Fairness

-----------------------------------------------------------------------------
(* NitroContext's properties, stated there: the type invariant of          *)
(* source.rs's tasks and cache,                                            *)
NitroTypeOK == Nitro!TypeOK
(* each cached execution context is queued once and the capacity holds     *)
(* although tasks fill the cache at once (ExecutionContextCache::insert),  *)
CacheAgrees == Nitro!CacheAgrees
(* no enrichment returns the context of another branch's block             *)
(* (nitro_execution_context, validate_checkpoint),                         *)
ContextsExact == Nitro!ContextsExact
(* and every enrichment ends, with contexts or with an error               *)
(* (nitro_execution_context's callers).                                    *)
EnrichmentEnds == Nitro!EnrichmentEnds

(* Contexts are exact because the shared cache is (source.rs).             *)
EnrichmentIsExact == ContextsExact /\ CacheAgrees
(* Both sources come to rest: the stream has read and published all it was *)
(* sent or has ended, and no enrichment is left waiting.                   *)
SourcesSettle == Settles /\ EnrichmentEnds

=============================================================================
