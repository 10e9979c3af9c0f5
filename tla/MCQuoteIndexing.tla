-------------------------- MODULE MCQuoteIndexing --------------------------
(* A chain g1, a2 and a fork b2, b3 at g1.                                 *)
EXTENDS QuoteIndexing

CONSTANTS g1, a2, b2, b3, la2, lb2, lb3

MCBlock == {g1, a2, b2, b3}
MCParent == g1 :> NoBlock @@ a2 :> g1 @@ b2 :> g1 @@ b3 :> b2
MCNumber == g1 :> 1 @@ a2 :> 2 @@ b2 :> 2 @@ b3 :> 3
MCBlockOf == la2 :> a2 @@ lb2 :> b2 @@ lb3 :> b3
MCIndex == [l \in {la2, lb2, lb3} |-> 0]

(* A source of complete blocks: a change of branch is a correction, a      *)
(* Reorg or a removed log.                                                 *)
MCOrdered ==
    [commitment |-> Canonical, sequence |-> [b \in MCBlock |-> 0], history |-> 2,
     effect |-> la2 :> "change" @@ lb2 :> "change" @@ lb3 :> "refuse",
     reports |-> {"correction", "reorg", "removed"}, proposals |-> FALSE, lags |-> FALSE,
     bounds |-> [moves |-> 1, faults |-> 1, restarts |-> 0]]
(* A realtime source with sequences and heads that progress.               *)
MCRealtime ==
    [MCOrdered EXCEPT !.commitment = Realtime, !.proposals = TRUE,
        !.sequence = g1 :> 2 @@ a2 :> 4 @@ b2 :> 5 @@ b3 :> 8,
        !.effect = lb2 :> "change" @@ lb3 :> "change",
        !.reports = {"progress", "correction"}]
(* Restarts from stored checkpoints, with the shortest history.            *)
MCRestart ==
    [MCOrdered EXCEPT !.history = 1, !.bounds = [moves |-> 0, faults |-> 1, restarts |-> 2]]
(* An HTTP provider behind its source, and a chain that rolls back.        *)
MCLagging ==
    [MCOrdered EXCEPT !.reports = {"reorg", "rollback"}, !.lags = TRUE,
        !.bounds = [moves |-> 1, faults |-> 0, restarts |-> 0]]
MCConfigs == {MCOrdered, MCRealtime, MCRestart, MCLagging}

=============================================================================
