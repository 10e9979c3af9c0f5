------------------------- MODULE MCConnectedClient -------------------------
(* A client that connects afresh, one that is given a checkpoint and may   *)
(* be shut down, and one whose reads are behind its stream.                *)
EXTENDS ConnectedClient

Fresh == [checkpoint |-> None, floor |-> FALSE, calls |-> TRUE, lag |-> FALSE,
          stop |-> FALSE, faults |-> 2]
Restored == [Fresh EXCEPT !.checkpoint = 1, !.floor = TRUE, !.stop = TRUE, !.faults = 1]
Lagging == [Fresh EXCEPT !.floor = TRUE, !.calls = FALSE, !.lag = TRUE]
MCOptions == {Fresh, Restored, Lagging}

=============================================================================
