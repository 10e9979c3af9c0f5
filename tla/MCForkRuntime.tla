--------------------------- MODULE MCForkRuntime ---------------------------
(* A chain g1, a2, a3 with a fork block b2; logs on a2, a3 and b2.         *)
EXTENDS ForkRuntime, TLC

CONSTANTS g1, a2, a3, b2, la2, la3, lb2, x

MCBlock == {g1, a2, a3, b2}
MCParent == g1 :> None @@ a2 :> g1 @@ a3 :> a2 @@ b2 :> g1
MCNumber == g1 :> 1 @@ a2 :> 2 @@ b2 :> 2 @@ a3 :> 3
MCLog == {la2, la3, lb2}
MCBlockOf == la2 :> a2 @@ la3 :> a3 @@ lb2 :> b2
MCIndex == [l \in MCLog |-> 0]
MCContext == {x}
MCModes == {[commitment |-> Realtime, stale |-> FALSE], [commitment |-> Canonical, stale |-> FALSE],
            [commitment |-> Canonical, stale |-> TRUE]}

=============================================================================
