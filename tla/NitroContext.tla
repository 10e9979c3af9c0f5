---------------------------- MODULE NitroContext -----------------------------
(***************************************************************************)
(* The execution contexts of the Arbitrum source (lunarbase-source-arbitrum *)
(* source.rs): tasks that enrich heads, logs, backfills, corrections and   *)
(* checkpoints look up the execution block of exact L2 blocks, through a   *)
(* bounded cache that all of them share, while the chain reorganises.      *)
(*                                                                         *)
(* A block is [number, branch]; the branch stands for the hash.  A cursor  *)
(* that already carries an execution block (one that differs from its L2   *)
(* number) is known.  The node answers a lookup by hash with the block     *)
(* itself and one by number with the block that is canonical at that       *)
(* moment, or fails.  It never gives one block two contexts, so the error  *)
(* for a conflicting cached context does not occur.                        *)
(***************************************************************************)
EXTENDS Naturals, Sequences, FiniteSets, SequencesExt, Functions

CONSTANTS Tasks,
          Numbers, Branches,
          Context(_),        \* the execution block of a block
          Requests,          \* sets of items a task may have to enrich
          Capacity,          \* EXECUTION_CONTEXT_CACHE_CAPACITY
          Concurrency,       \* EXECUTION_CONTEXT_CONCURRENCY
          MaxReorgs

VARIABLES canonical,   \* number -> branch
          reorgs,
          values, order,   \* ExecutionContextCache
          task, request, asked, got

cache == <<values, order>>
vars == <<canonical, reorgs, values, order, task, request, asked, got>>

Blocks == [number : Numbers, branch : Branches]
Kinds == {"Cursor", "Backfill", "Correction", "Checkpoint"}

ConstantsOK ==
    /\ {Capacity, Concurrency} \subseteq Nat \ {0} /\ MaxReorgs \in Nat
    /\ \A b \in Blocks : Context(b) \in Nat
    /\ \A r \in Requests :
          /\ r.kind \in Kinds /\ r.realtime \subseteq r.blocks /\ r.known \subseteq r.blocks
          /\ r.blocks \subseteq Blocks /\ r.claim \in Nat
          /\ r.kind # "Backfill" => Cardinality(r.blocks) = 1 \/ r.kind = "Correction"

Without(f, k) == Restrict(f, DOMAIN f \ {k})

(* An insert that queues a key again when another task inserted it first. *)
InsertAgain(c, k) ==
    LET longer == Append(c.order, k)
        filled == [b \in DOMAIN c.values \cup {k} |->
                      IF b = k THEN Context(k) ELSE c.values[b]]
    IN  IF Len(longer) <= Capacity THEN [values |-> filled, order |-> longer]
        ELSE [values |-> Without(filled, Head(longer)), order |-> Tail(longer)]

(* ExecutionContextCache::insert *)
Insert(c, k) ==
    LET longer == Append(c.order, k)
        filled == [b \in DOMAIN c.values \cup {k} |->
                      IF b = k THEN Context(k) ELSE c.values[b]]
    IN  IF k \in DOMAIN c.values THEN c
        ELSE IF Len(longer) <= Capacity THEN [values |-> filled, order |-> longer]
        ELSE [values |-> Without(filled, Head(longer)), order |-> Tail(longer)]

Cache == [values |-> values, order |-> order]
SetCache(c) == values' = c.values /\ order' = c.order

-----------------------------------------------------------------------------
Empty == [b \in {} |-> 0]
Nothing == [kind |-> "None", blocks |-> {}, realtime |-> {}, known |-> {}, claim |-> 0]

Init ==
    /\ canonical \in [Numbers -> Branches] /\ reorgs = 0
    /\ values = Empty /\ order = <<>>
    /\ task = [t \in Tasks |-> "Idle"]
    /\ request = [t \in Tasks |-> Nothing]
    /\ asked = [t \in Tasks |-> {}] /\ got = [t \in Tasks |-> Empty]

Reorg(n, b) ==
    /\ reorgs < MaxReorgs /\ reorgs' = reorgs + 1
    /\ canonical[n] # b
    /\ canonical' = [canonical EXCEPT ![n] = b]
    /\ UNCHANGED <<cache, task, request, asked, got>>

(* A backfill that holds two blocks of one number is refused. *)
Conflicting(r) ==
    /\ r.kind = "Backfill"
    /\ \E a, b \in r.blocks : a.number = b.number /\ a # b

(* A cursor that is known is kept and cached; the known blocks of a        *)
(* correction are cached before its lookups start.                         *)
Start(t, r) ==
    /\ task[t] # "Busy"
    /\ request' = [request EXCEPT ![t] = r]
    /\ asked' = [asked EXCEPT ![t] = {}]
    /\ SetCache(FoldLeft(Insert, Cache, SetToSeq(r.known)))
    /\ IF Conflicting(r) THEN /\ task' = [task EXCEPT ![t] = "Failed"]
                              /\ got' = [got EXCEPT ![t] = Empty]
       ELSE IF r.kind = "Cursor" /\ r.known # {}
       THEN /\ task' = [task EXCEPT ![t] = "Done"]
            /\ got' = [got EXCEPT ![t] = [b \in r.known |-> Context(b)]]
       ELSE /\ task' = [task EXCEPT ![t] = "Busy"]
            /\ got' = [got EXCEPT ![t] = Empty]
    /\ UNCHANGED <<canonical, reorgs>>

Obtain(t, b, context) ==
    got' = [got EXCEPT ![t] = [c \in DOMAIN @ \cup {b} |-> IF c = b THEN context ELSE @[c]]]

(* nitro_execution_context: from the cache, or a call to the node. *)
Lookup(t, b) ==
    /\ task[t] = "Busy"
    /\ b \in request[t].blocks \ (asked[t] \cup DOMAIN got[t])
    /\ Cardinality(asked[t]) < Concurrency
    /\ IF b \in DOMAIN values
       THEN Obtain(t, b, values[b]) /\ UNCHANGED asked
       ELSE asked' = [asked EXCEPT ![t] = @ \cup {b}] /\ UNCHANGED got
    /\ UNCHANGED <<canonical, reorgs, cache, task, request>>

(* The block of the node's answer. *)
Served(t, b) ==
    IF b \in request[t].realtime THEN b
    ELSE [number |-> b.number, branch |-> canonical[b.number]]

(* The answer's hash is not compared. *)
AnswerUnchecked(t, b) ==
    /\ b \in asked[t] /\ task[t] = "Busy"
    /\ asked' = [asked EXCEPT ![t] = @ \ {b}]
    /\ Obtain(t, b, Context(Served(t, b)))
    /\ SetCache(Insert(Cache, b))
    /\ UNCHANGED <<canonical, reorgs, task, request>>

(* A mismatch is asked again without end. *)
AnswerRetrying(t, b) ==
    /\ b \in asked[t] /\ task[t] = "Busy"
    /\ asked' = [asked EXCEPT ![t] = @ \ {b}]
    /\ IF Served(t, b) = b THEN Obtain(t, b, Context(b)) /\ SetCache(Insert(Cache, b))
       ELSE UNCHANGED <<got, cache>>
    /\ UNCHANGED <<canonical, reorgs, task, request>>

(* The node's answer, which must be the block that was asked for. *)
Answer(t, b) ==
    /\ b \in asked[t] /\ task[t] = "Busy"
    /\ IF Served(t, b) = b
       THEN /\ asked' = [asked EXCEPT ![t] = @ \ {b}]
            /\ Obtain(t, b, Context(b))
            /\ SetCache(Insert(Cache, b))
            /\ UNCHANGED task
       ELSE /\ task' = [task EXCEPT ![t] = "Failed"]
            /\ asked' = [asked EXCEPT ![t] = {}]
            /\ UNCHANGED <<got, cache>>
    /\ UNCHANGED <<canonical, reorgs, request>>

Fail(t) ==
    /\ task[t] = "Busy" /\ asked[t] # {}
    /\ task' = [task EXCEPT ![t] = "Failed"]
    /\ asked' = [asked EXCEPT ![t] = {}]
    /\ UNCHANGED <<canonical, reorgs, cache, request, got>>

(* A checkpoint is valid when its own context is the one found. *)
ClaimFails(t) ==
    /\ request[t].kind = "Checkpoint"
    /\ \E b \in DOMAIN got[t] : got[t][b] # request[t].claim

(* Every cursor is stamped with the context of its block. *)
Finish(t) ==
    /\ task[t] = "Busy" /\ DOMAIN got[t] = request[t].blocks
    /\ task' = [task EXCEPT ![t] = IF ClaimFails(t) THEN "Invalid" ELSE "Done"]
    /\ UNCHANGED <<canonical, reorgs, cache, request, asked, got>>

Work(t) == (\E b \in request[t].blocks : Lookup(t, b) \/ Answer(t, b)) \/ Finish(t)

Next ==
    \/ \E t \in Tasks : Work(t) \/ Fail(t) \/ \E r \in Requests : Start(t, r)
    \/ \E n \in Numbers, b \in Branches : Reorg(n, b)

(* Tasks are polled and the node answers or fails: its calls time out.     *)
Fairness == \A t \in Tasks : WF_vars(Work(t))
Spec == Init /\ [][Next]_vars /\ Fairness

-----------------------------------------------------------------------------
(* The variables have their types. *)
TypeOK ==
    /\ canonical \in [Numbers -> Branches] /\ reorgs \in 0 .. MaxReorgs
    /\ DOMAIN values \subseteq Blocks
    /\ task \in [Tasks -> {"Idle", "Busy", "Done", "Invalid", "Failed"}]
    /\ \A t \in Tasks : /\ asked[t] \subseteq request[t].blocks
                        /\ Cardinality(asked[t]) <= Concurrency
                        /\ DOMAIN got[t] \subseteq request[t].blocks

(* The cache's two halves agree whichever tasks fill it at once: each      *)
(* cached block is queued exactly once, nothing else is, and the capacity  *)
(* holds (ExecutionContextCache::insert after two lookups of one block).   *)
CacheAgrees ==
    /\ Range(order) = DOMAIN values
    /\ IsInjective(order) /\ Len(order) <= Capacity

(* No task returns the context of another branch, although a lookup by     *)
(* number is answered by a block that a reorganisation put there           *)
(* meanwhile: what is returned belongs to the very blocks asked for, and a *)
(* checkpoint is valid only with the context of its own block              *)
(* (nitro_execution_context, validate_checkpoint).                         *)
ContextsExact ==
    \A t \in Tasks : task[t] \in {"Done", "Invalid"} =>
        /\ DOMAIN got[t] = request[t].blocks
        /\ \A b \in DOMAIN got[t] : got[t][b] = Context(b)
        /\ request[t].kind = "Checkpoint" =>
              (task[t] = "Done" <=> \A b \in request[t].blocks : request[t].claim = Context(b))

(* Every enrichment comes to an end, with contexts or with an error, also  *)
(* when the block it asks for has left the chain (buffer_unordered and     *)
(* try_collect).                                                           *)
EnrichmentEnds == \A t \in Tasks : task[t] = "Busy" ~> task[t] # "Busy"
=============================================================================
