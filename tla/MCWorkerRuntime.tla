-------------------------- MODULE MCWorkerRuntime --------------------------
(* A short chain, one oversized log, and a provider that reports one block *)
(* of the chain and a sibling of it.                                       *)
EXTENDS WorkerRuntime

MCSibling == [BlockCursor(1) EXCEPT !.hash = 11]
MCHash == {1, 2, 3, 11}
MCSiblingOnly == {MCSibling}

=============================================================================
