-------------------------- MODULE RecoveryCoverage --------------------------
(***************************************************************************)
(* The source coverage the event worker retains across recovery retries    *)
(* (runtime/recovery_coverage.rs): a required cursor that only moves to    *)
(* stronger positions, and the test that a canonical head covers it.       *)
(*                                                                         *)
(* A cursor carries its block number, block hash (None when the source did *)
(* not name one), execution height, event order inside the block and       *)
(* commitment.  Chain identities are left out: validate_cursor and         *)
(* validate_log_identity refuse a foreign chain before any cursor gets     *)
(* here.                                                                   *)
(***************************************************************************)
EXTENDS Integers

CONSTANTS
    Hash,   \* block hashes
    None    \* an absent value

Realtime == 0
Canonical == 1
Finalized == 2
Commitment == {Realtime, Canonical, Finalized}

ChainCursor == [number : Nat, hash : Hash \cup {None}, execution : Nat,
                order : Nat, commitment : Commitment]

(* immutable_identity: "same", "other", or "conflict" when a hash is        *)
(* missing or one hash comes with two execution heights.                   *)
ImmutableIdentity(left, right) ==
    IF left.hash = None \/ right.hash = None THEN "conflict"
    ELSE IF left.hash # right.hash THEN "other"
    ELSE IF left.execution # right.execution THEN "conflict"
    ELSE "same"

Stronger(c, d) == IF c > d THEN c ELSE d

(* Whether merge refuses the candidate as contradicting the required cursor. *)
MergeConflicts(required, candidate) ==
    /\ required # None
    /\ candidate.number = required.number
    /\ \/ ImmutableIdentity(required, candidate) = "conflict"
       \/ /\ ImmutableIdentity(required, candidate) = "other"
          /\ \/ required.commitment = Finalized
             \/ candidate.commitment < required.commitment

(* merge: the required cursor after a candidate that does not conflict.    *)
Merge(required, candidate) ==
    IF required = None THEN candidate
    ELSE IF candidate.number < required.number THEN required
    ELSE IF candidate.number > required.number
            \/ ImmutableIdentity(required, candidate) = "other" THEN candidate
    ELSE LET stronger == Stronger(candidate.commitment, required.commitment)
         IN  IF candidate.order < required.order
             THEN [required EXCEPT !.commitment = stronger]
             ELSE [candidate EXCEPT !.commitment = stronger]

(* head_covers: "covered", "behind", or "conflict".                        *)
HeadCovers(required, head) ==
    IF head.number > required.number THEN "covered"
    ELSE IF head.number < required.number THEN "behind"
    ELSE LET identity == ImmutableIdentity(required, head)
         IN  IF identity = "conflict" THEN "conflict"
             ELSE IF identity = "other" /\ required.commitment = Finalized THEN "conflict"
             ELSE IF /\ identity = "other" => head.commitment >= Canonical
                     /\ head.commitment >= required.commitment
                  THEN "covered" ELSE "behind"

(* recovery_log_is_covered: skipped because the durable cursor is at or    *)
(* past it; without a fork runtime the cursor's own block is replayed.     *)
RecoveryLogIsCovered(hasForks, cursor, durable) ==
    \/ cursor.number < durable.number
    \/ /\ hasForks
       /\ cursor.number = durable.number /\ cursor.order <= durable.order

=============================================================================
