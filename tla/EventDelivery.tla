---------------------------- MODULE EventDelivery ----------------------------
(***************************************************************************)
(* What the event worker promises a consumer of its stream: a set of       *)
(* active logs that changes one appended log at a time or by one whole     *)
(* correction, a lifecycle revision per log that counts its changes, and a *)
(* set of final logs that no correction touches.                           *)
(***************************************************************************)
EXTENDS Naturals

CONSTANT Log

VARIABLES active, revision, final

vars == <<active, revision, final>>

Init ==
    /\ active = {}
    /\ revision = [l \in Log |-> 0]
    /\ final = {}

\* Each log of changed has one more transition.
Advance(changed) ==
    revision' = [l \in Log |-> IF l \in changed THEN revision[l] + 1 ELSE revision[l]]

Deliver(l) ==
    /\ l \notin active
    /\ active' = active \cup {l}
    /\ Advance({l})
    /\ UNCHANGED final

\* Reverted logs leave and applied logs enter in one step.
Replace(reverted, applied) ==
    /\ reverted \subseteq active
    /\ applied \cap active = {}
    /\ (reverted \cup applied) \cap final = {}
    /\ active' = (active \ reverted) \cup applied
    /\ Advance(reverted \cup applied)
    /\ UNCHANGED final

\* Finality only grows.
Finalize ==
    /\ \E logs \in SUBSET Log : final' = final \cup logs
    /\ UNCHANGED <<active, revision>>

Next ==
    \/ \E l \in Log : Deliver(l)
    \/ \E reverted, applied \in SUBSET Log : Replace(reverted, applied)
    \/ Finalize

Spec == Init /\ [][Next]_vars
=============================================================================
