--------------------------- MODULE MCEventJournal ---------------------------
(* A chain g1, a2, a3 and a fork block b2, with one log on each block above *)
(* g1: branches of different lengths, repeated forks and late logs.        *)
EXTENDS JournalDelivery, TLC

CONSTANTS g1, a2, a3, b2, la2, la3, lb2, x

MCBlock == {g1, a2, a3, b2}
MCParent == g1 :> None @@ a2 :> g1 @@ a3 :> a2 @@ b2 :> g1
MCNumber == g1 :> 1 @@ a2 :> 2 @@ b2 :> 2 @@ a3 :> 3
MCLog == {la2, la3, lb2}
MCBlockOf == la2 :> a2 @@ la3 :> a3 @@ lb2 :> b2
MCIndex == [l \in MCLog |-> 0]
MCContext == {x}

=============================================================================
