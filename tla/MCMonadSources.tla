--------------------------- MODULE MCMonadSources ---------------------------
(***************************************************************************)
(* The three parts of the Monad sources: the proposal lifecycle, the       *)
(* parser session that feeds it, and the native reader of the execution    *)
(* ring.  The lifecycle sees only records in order, which is what the      *)
(* session promises, so the parts are checked side by side: a behaviour    *)
(* exercises one part in one of its settings, and the others stay in their *)
(* initial states.  The session is extended rather than instantiated: what *)
(* is checked of it here is the definition that ParserSessionProofs proves *)
(* for every value of its constants.                                       *)
(***************************************************************************)
EXTENDS ParserSession, TLC

VARIABLES part,
          lc, records, seq, running, executed, voted, final, verified,
          written, pos, index, pc, todo, then, queue, held, received, cancelled, open, ended

lifecycleVars == <<lc, records, seq, running, executed, voted, final, verified>>
nativeVars == <<written, pos, index, pc, todo, then, queue, held, received, cancelled, open, ended>>

(* Two rival proposals at the first height, each with a child.             *)
Proposals == {"A1", "B1", "A2", "B2"}
Heights == "A1" :> 1 @@ "B1" :> 1 @@ "A2" :> 2 @@ "B2" :> 2
Parents == "A1" :> "none" @@ "B1" :> "none" @@ "A2" :> "A1" @@ "B2" :> "B1"
Payloads == "A1" :> <<"wanted", "wanted">> @@ "B1" :> <<"foreign", "wanted">>
            @@ "A2" :> <<"topic", "wanted">> @@ "B2" :> <<>>
QuietModes == ({"Realtime", "BlockOrdered"} \X {FALSE}) \union {<<"Finalized", TRUE>>}

(* Every mode; the stream joins anywhere; executions are repeated,         *)
(* rejected or lost, and both budgets are exceeded.                        *)
Rough == INSTANCE MonadLifecycle WITH feed <- records,
    Proposal <- Proposals, NoProposal <- "none", HeightOf <- Heights, ParentOf <- Parents,
    Payload <- Payloads, Modes <- {"Realtime", "BlockOrdered", "Finalized"} \X BOOLEAN,
    MaxProposals <- 3, MaxLogs <- 3, Joins <- TRUE, Faults <- {"repeat", "reject", "error"}
(* No faults and no removed logs, within the budgets.                      *)
Quiet == INSTANCE MonadLifecycle WITH feed <- records,
    Proposal <- Proposals, NoProposal <- "none", HeightOf <- Heights, ParentOf <- Parents,
    Payload <- Payloads, Modes <- QuietModes,
    MaxProposals <- 4, MaxLogs <- 5, Joins <- FALSE, Faults <- {}

(* Records of two events, one, none (the lifecycle only notes it), one and *)
(* one; the fourth is refused by the lifecycle.                            *)
EventsOfRecords == <<2, 1, 0, 1, 1>>

NoReport == [state |-> "None", logs |-> 0, abandoned |-> 0, foreign |-> FALSE]
Plain(kind, size) == [kind |-> kind, size |-> size, update |-> NoReport]
Report(kind, state, abandoned, foreign) ==
    [kind |-> kind, size |-> 1,
     update |-> [state |-> state, logs |-> 1, abandoned |-> abandoned, foreign |-> foreign]]
(* Removals reported by the builder; one log exceeds the byte budget.      *)
RealtimeRing ==
    {Plain("Start", 1), Plain("Log", 2), Plain("Log", 4), Plain("OtherLog", 1),
     Plain("Reject", 1), Plain("Bad", 1), Report("Head", "Finalized", 1, FALSE)}
(* Whole blocks from the builder.                                          *)
OrderedRing ==
    {Plain("Skip", 1), Report("Skip", "Proposed", 0, FALSE), Report("Skip", "Voted", 0, FALSE),
     Report("Skip", "Finalized", 2, FALSE), Report("Skip", "Finalized", 0, TRUE)}

Ring == INSTANCE NativeRing WITH
    Descriptors <- RealtimeRing, Mode <- "Realtime", EmitRemoved <- TRUE,
    RingSize <- 2, QueueBound <- 2, ByteBound <- 3, MaxWritten <- 3
Blocks == INSTANCE NativeRing WITH
    Descriptors <- OrderedRing, Mode <- "BlockOrdered", EmitRemoved <- TRUE,
    RingSize <- 2, QueueBound <- 1, ByteBound <- 2, MaxWritten <- 4

ASSUME MonadSourcesAssumption ==
    Rough!ConstantsOK /\ Quiet!ConstantsOK /\ Ring!ConstantsOK /\ Blocks!ConstantsOK

-----------------------------------------------------------------------------
SourcesInit ==
    /\ part \in {"rough", "quiet", "parser", "ring", "blocks"}
    /\ IF part = "rough" THEN Rough!Init
       ELSE Quiet!Init /\ (part # "quiet" => lc.delivery = "Finalized")
    /\ Init /\ (part # "parser" => parser.latest = 0)
    /\ Ring!Init

SourcesNext ==
    \/ /\ UNCHANGED <<part, vars, nativeVars>>
       /\ \/ part = "rough" /\ Rough!Next
          \/ part = "quiet" /\ Quiet!Next
    \/ part = "parser" /\ Next /\ UNCHANGED <<part, lifecycleVars, nativeVars>>
    \/ /\ UNCHANGED <<part, lifecycleVars, vars>>
       /\ \/ part = "ring" /\ Ring!Next
          \/ part = "blocks" /\ Blocks!Next

(* The fairness each module states for its part.                           *)
SourcesSpec ==
    /\ SourcesInit /\ [][SourcesNext]_<<part, lifecycleVars, vars, nativeVars>>
    /\ WF_vars(part = "parser" /\ Progress)
    /\ WF_nativeVars(part = "ring" /\ Ring!Read)
    /\ WF_nativeVars(part = "ring" /\ Ring!Consume)

-----------------------------------------------------------------------------
(* The lifecycle.  Its state is well formed and its log budget exact       *)
(* (lifecycle.rs: log, publish, remove_proposal).                          *)
LifecycleTypeOK == (part = "rough" => Rough!TypeOK) /\ (part = "quiet" => Quiet!TypeOK)
(* A consumer holds exactly the logs of the proposal it was told to follow *)
(* (lifecycle.rs publish, reorg.rs switch_branch).                         *)
ConsumerHoldsTold == (part = "rough" => Rough!ConsumerHoldsTold) /\ (part = "quiet" => Quiet!ConsumerHoldsTold)
(* A verified height is followed on its finalized proposal, or not at all  *)
(* (lifecycle.rs finalized, verified).                                     *)
VerifiedAgrees == (part = "rough" => Rough!VerifiedAgrees) /\ (part = "quiet" => Quiet!VerifiedAgrees)
(* No height changes its proposal without a reorg (switch_branch).         *)
SwitchAnnounced == Rough!SwitchAnnounced
(* Without faults or removed logs the normalizer accepts all that the      *)
(* lifecycle emits (execution.rs observe_sparse).                          *)
OrderKept == part = "quiet" => Quiet!OrderKept

(* The session.  Once the parser stays up it ends in step with it (v2.rs   *)
(* establish, session.rs mark_rebase).                                     *)
SessionResumes == part = "parser" => Resumes

(* The native reader.  Queue and permits keep their bounds (queue.rs).     *)
NativeTypeOK == (part = "ring" => Ring!TypeOK) /\ (part = "blocks" => Blocks!TypeOK)
(* Until it is told of a gap the consumer has the events of the first      *)
(* descriptors, all and in order (native.rs read_ring, convert_event).     *)
NoSilentLoss == (part = "ring" => Ring!NoSilentLoss) /\ (part = "blocks" => Blocks!NoSilentLoss)
(* A stream that ends on its own has told why (native.rs read_ring).       *)
EndIsTold == (part = "ring" => Ring!EndIsTold) /\ (part = "blocks" => Blocks!EndIsTold)
(* The thread ends after the stream is dropped (RingReaderGuard::drop).    *)
ReaderEnds == part = "ring" => Ring!ReaderEnds
(* The reader never waits for bytes or room forever (queue.rs              *)
(* send_result).                                                           *)
NoStarvation == part = "ring" => Ring!NoStarvation

-----------------------------------------------------------------------------
(* What the run checks of each part, with its parts above.  Of the session *)
(* it also checks HandedOverOnce, as ParserSession defines it.             *)

(* A consumer holds exactly the logs of the proposals it follows, follows  *)
(* consensus where a height is verified, is told of every switch, and is   *)
(* not cut off by its own normalizer (lifecycle.rs publish, verified;      *)
(* reorg.rs switch_branch; execution.rs).                                  *)
ConsumerFollowsConsensus ==
    [](ConsumerHoldsTold /\ VerifiedAgrees /\ OrderKept) /\ SwitchAnnounced
(* The native stream tells of whatever it cannot deliver (native.rs        *)
(* read_ring).                                                             *)
NativeTellsAll == NoSilentLoss /\ EndIsTold
(* The session resumes, and the native reader neither starves nor outlives *)
(* its stream (v2.rs establish, queue.rs send_result, native.rs).          *)
ReadersProceed == SessionResumes /\ ReaderEnds /\ NoStarvation
=============================================================================
