----------------------------- MODULE ForkWindow -----------------------------
(***************************************************************************)
(* lunarbase-source-evm/src/fork.rs: the bounded window of canonical       *)
(* headers and the resolver that walks a new tip back to it.               *)
(*                                                                         *)
(* A BlockRef is a block and its commitment; number and parent are         *)
(* constant functions of the block.  Every entry costs the same bytes, so  *)
(* the byte budget is a block budget.  An operation is an error operator,  *)
(* "none" when the operation succeeds, and its result.                     *)
(***************************************************************************)
EXTENDS Integers, Sequences, FiniteSetsExt

CONSTANTS
    Block,         \* block hashes
    Parent,        \* parent of each block, None below the first one
    Number,        \* canonical number of each block
    MaxDepth,      \* fork_max_depth
    WindowBlocks,  \* fork_window_blocks
    None

Realtime == 0
Canonical == 1
Finalized == 2

BlockRef == [block : Block, commitment : {Realtime, Canonical, Finalized}]
Ref(b, commitment) == [block |-> b, commitment |-> commitment]

(* CanonicalWindow: entries from oldest to newest, and the boundary.       *)
Window == [blocks : Seq(BlockRef), finalized : BlockRef \cup {None}]
EmptyWindow == [blocks |-> <<>>, finalized |-> None]

IsEmpty(w) == w.blocks = <<>>
Tip(w) == w.blocks[Len(w.blocks)]

(* The index of block b, 0 when it is not retained.                        *)
Position(w, b) ==
    LET at == {i \in DOMAIN w.blocks : w.blocks[i].block = b}
    IN  IF at = {} THEN 0 ELSE Min(at)

Below(w, b) == w.finalized # None /\ Number[b] < Number[w.finalized.block]
Links(parent, child) == Number[child] = Number[parent] + 1 /\ Parent[child] = parent

Preflight(n) == IF n > WindowBlocks THEN "BlockBudget" ELSE "none"

(* prepare_head and commit_head; an exact duplicate of the tip is ignored. *)
HeadError(w, ref) ==
    IF ~IsEmpty(w) /\ Tip(w) = ref THEN "none"
    ELSE IF ~IsEmpty(w) /\ ~Links(Tip(w).block, ref.block) THEN "Disconnected"
    ELSE Preflight(Len(w.blocks) + 1)

PushHead(w, ref) ==
    IF ~IsEmpty(w) /\ Tip(w) = ref THEN w
    ELSE [w EXCEPT !.blocks = Append(@, ref)]

(* The window of a chain of refs, each pushed on the one before.           *)
PushError(refs) ==
    IF \E i \in DOMAIN refs \ {1} : ~Links(refs[i - 1].block, refs[i].block)
    THEN "Disconnected" ELSE Preflight(Len(refs))

PushAll(refs) == [blocks |-> refs, finalized |-> None]

(* prepare_progressive_tip and commit_progressive_tip.                     *)
ProgressiveError(w, ref) ==
    IF w.finalized # None /\ Number[w.finalized.block] >= Number[ref.block]
    THEN "FinalizedConflict"
    ELSE IF Number[Tip(w).block] # Number[ref.block] \/ Parent[Tip(w).block] # Parent[ref.block]
    THEN "Disconnected" ELSE "none"

ReplaceTip(w, ref) == [w EXCEPT !.blocks[Len(w.blocks)] = ref]

(* advance_finalized: only history strictly older than ref is pruned.      *)
FinalizeError(w, ref) ==
    IF ref.commitment # Finalized THEN "InvalidIdentity"
    ELSE IF Below(w, ref.block)
            \/ (w.finalized # None /\ Number[ref.block] = Number[w.finalized.block]
                  /\ ref.block # w.finalized.block)
    THEN "FinalizedConflict"
    ELSE IF Position(w, ref.block) = 0 THEN "AncestorOutsideWindow" ELSE "none"

Finalize(w, ref) ==
    LET at == Position(w, ref.block)
    IN  [blocks |-> <<ref>> \o SubSeq(w.blocks, at + 1, Len(w.blocks)), finalized |-> ref]

-----------------------------------------------------------------------------
(* ForkResolver::resolve.                                                  *)

(* The n-th ancestor of b, None beyond the known blocks.                   *)
Ancestor(b, n) ==
    LET up[i \in 0..n] == IF i = 0 THEN b
                          ELSE IF up[i - 1] = None THEN None ELSE Parent[up[i - 1]]
    IN  up[n]

(* Why the walk stops at the n-th block: its parent is retained, the depth *)
(* is used up, finality is reached, or the parent cannot be fetched.       *)
WalkStop(w, b, n) ==
    LET child == Ancestor(b, n)
    IN  IF Position(w, Parent[child]) # 0 THEN "found"
        ELSE IF n + 1 >= MaxDepth THEN "DepthExceeded"
        ELSE IF w.finalized # None /\ Number[child] <= Number[w.finalized.block] + 1
        THEN "FinalizedConflict"
        ELSE IF Number[child] = 0 THEN "AncestorOutsideWindow"
        ELSE IF Parent[child] = None THEN "Source" ELSE "on"

WalkLength(w, b) ==
    CHOOSE n \in 0..MaxDepth :
        WalkStop(w, b, n) # "on" /\ \A m \in 0..(n - 1) : WalkStop(w, b, m) = "on"

(* The resolution of tip ref against window w: the walked blocks carry the *)
(* commitment of the tip, the ancestor and the old branch are the window's. *)
Resolve(w, ref) ==
    LET n == WalkLength(w, ref.block)
        at == Position(w, Ancestor(ref.block, n + 1))
    IN  [ancestor |-> w.blocks[at], oldTip |-> Tip(w), newTip |-> ref,
         old |-> SubSeq(w.blocks, at + 1, Len(w.blocks)),
         new |-> [i \in 1..(n + 1) |-> Ref(Ancestor(ref.block, n + 1 - i), ref.commitment)]]

ResolveError(w, ref) ==
    IF w.finalized # None /\ Number[ref.block] <= Number[w.finalized.block]
       /\ ref.block # w.finalized.block THEN "FinalizedConflict"
    ELSE IF WalkStop(w, ref.block, WalkLength(w, ref.block)) # "found"
    THEN WalkStop(w, ref.block, WalkLength(w, ref.block))
    ELSE IF Len(Resolve(w, ref).old) > MaxDepth THEN "DepthExceeded" ELSE "none"

-----------------------------------------------------------------------------
(* apply_resolution, with validate_replacement.                            *)

Contiguous(refs) == \A i \in DOMAIN refs \ {1} : Links(refs[i - 1].block, refs[i].block)

ReplacementError(w, r) ==
    IF Below(w, r.ancestor.block) THEN "FinalizedConflict"
    ELSE IF ~Contiguous(<<r.ancestor>> \o r.new) THEN "Disconnected"
    ELSE IF (<<r.ancestor>> \o r.new)[Len(r.new) + 1] # r.newTip THEN "StaleResolution"
    ELSE "none"

ApplyError(w, r) ==
    LET at == Position(w, r.ancestor.block)
    IN  IF IsEmpty(w) \/ at = 0 THEN "StaleResolution"
        ELSE IF Tip(w) # r.oldTip \/ w.blocks[at] # r.ancestor
                \/ SubSeq(w.blocks, at + 1, Len(w.blocks)) # r.old
        THEN "StaleResolution"
        ELSE IF ReplacementError(w, r) # "none" THEN ReplacementError(w, r)
        ELSE Preflight(at + Len(r.new))

ApplyResolution(w, r) ==
    [w EXCEPT !.blocks = SubSeq(@, 1, Position(w, r.ancestor.block)) \o r.new]

=============================================================================
