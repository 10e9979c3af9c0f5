--------------------------- MODULE JournalDelivery ---------------------------
(***************************************************************************)
(* The journal as a consumer sees it who folds the stream by logicalLogId, *)
(* and the claim that what it sees is EventDelivery.                       *)
(***************************************************************************)
EXTENDS EventJournal

\* Entry i is the last one of log l.
IsLastEntry(i, l) ==
    stream[i].log = l /\ \A j \in DOMAIN stream : j > i => stream[j].log # l

\* The consumer's state: active logs and the revision of each log it has seen.
ConsumerActive ==
    {l \in Log : \E i \in DOMAIN stream : IsLastEntry(i, l) /\ stream[i].op = "applied"}

ConsumerRevision ==
    [l \in Log |->
        IF \E i \in DOMAIN stream : stream[i].log = l
        THEN stream[CHOOSE i \in DOMAIN stream : IsLastEntry(i, l)].revision
        ELSE 0]

\* Logs at or below the durable finality boundary.
FinalLogs == {l \in Log : finalized_head # None /\ Number[BlockOf[l]] <= Number[finalized_head]}

Delivery == INSTANCE EventDelivery WITH
    active <- ConsumerActive, revision <- ConsumerRevision, final <- FinalLogs

\* Every command of the journal is one delivery, one whole correction or no
\* change to a consumer: a correction reverts only what is active and not final
\* and applies only what is not active, and no transition is skipped or seen
\* twice (JOURNAL_LUA, correction.lua).
ImplementsDelivery == Delivery!Spec
=============================================================================
