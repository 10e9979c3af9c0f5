------------------------- MODULE QuoteRuntimeProofs -------------------------
(***************************************************************************)
(* Proofs about QuoteRuntime for every set of versions, every queue        *)
(* capacity and every number of subscriptions.  The argument is about      *)
(* tokens: Fresh returns a token nobody holds, so whoever moves the token  *)
(* makes every held copy stale, and a stale copy can admit nothing.        *)
(***************************************************************************)
EXTENDS QuoteRuntime, TLAPS

States == {"invalid", "ready", "publishing", "expiring", "stopping"}
PublishingToken == {t \in Tokens : t.state = "publishing"}
LeasedItem == [kind : {"ordinary", "correction", "reorg", "gap", "cursor_gap"},
               connection : Connection, admission : PublishingToken \cup {NoToken}]

(* What each holder of a token can hold. *)
HoldersTyped ==
    /\ token \in Tokens /\ lease \in Tokens \cup {NoToken}
    /\ connection \in Connection
    /\ queue \in Seq(LeasedItem) /\ segment \in Seq(LeasedItem) /\ outgoing \in Seq(LeasedItem)
    /\ correcting \in PublishingToken \cup {NoToken}
    /\ publishing \in PublishingToken \cup {NoToken}
    /\ sampled \in {t \in Tokens : t.state \in {"ready", "expiring"}} \cup {NoToken}
    /\ pc # "idle" => segment # <<>>

(* A lease that is still current was taken while the source was active. *)
LeaseIsLive == pc # "recheck" /\ lease = token /\ ~Stopped => active

RuntimeInv == HoldersTyped /\ LeaseIsLive /\ AdmittedWhileConnected

-----------------------------------------------------------------------------
(* Fresh returns a token of the given state that no task holds (next). *)
LEMMA FreshToken ==
    ASSUME Version \ HeldVersions # {}, NEW s \in States
    PROVE  /\ Fresh(s) \in Tokens
           /\ Fresh(s).state = s
           /\ \A t \in HeldTokens : t # NoToken => Fresh(s) # t
<1>1. PICK v \in Version : v \notin HeldVersions
  BY Zenon
<1> DEFINE f == CHOOSE v1 \in Version : v1 \notin HeldVersions
<1>2. f \in Version /\ f \notin HeldVersions
  BY Zenon, <1>1
<1>3. Fresh(s) = [state |-> s, version |-> f]
  BY Zenon DEF Fresh
<1> HIDE DEF f
<1>4. ASSUME NEW t \in HeldTokens, t # NoToken PROVE Fresh(s) # t
  <2>1. t.version \in HeldVersions
    BY Zenon, <1>4 DEF HeldVersions
  <2> QED BY <2>1, <1>2, <1>3
<1> QED BY <1>2, <1>3, <1>4 DEF Tokens, States

(* One compare-exchange keeps the token or makes every held copy stale. *)
LEMMA MoveToken ==
    ASSUME NEW allowed \in BOOLEAN, NEW s \in States, token \in Tokens, Move(allowed, s)
    PROVE  /\ token' \in Tokens
           /\ ~allowed => token' = token
           /\ allowed => /\ token' = Fresh(s)
                         /\ token'.state = s
                         /\ \A t \in HeldTokens : t # NoToken => token' # t
<1>1. Version \ HeldVersions # {} /\ token' = IF allowed THEN Fresh(s) ELSE token
  BY Zenon DEF Move
<1>2. /\ Fresh(s) \in Tokens
      /\ Fresh(s).state = s
      /\ \A t \in HeldTokens : t # NoToken => Fresh(s) # t
  BY Zenon, <1>1, FreshToken
<1> QED BY Zenon, <1>1, <1>2

(* The invariant holds in the state connect leaves the runtime in. *)
LEMMA RuntimeInit == Init => RuntimeInv
<1> SUFFICES ASSUME Init PROVE RuntimeInv
  BY Zenon
<1>1. token \in Tokens /\ token.state = "ready"
  BY Zenon, RuntimeAssumption DEF Init, Tokens
<1>2. HoldersTyped
  BY <1>1, RuntimeAssumption DEF Init, HoldersTyped, Connection
<1> QED BY Zenon, <1>2, RuntimeAssumption DEF Init, RuntimeInv, LeaseIsLive, AdmittedWhileConnected

(* The steps of the pump that leave the token alone. *)
LEMMA PumpKeepsInvariant ==
    ASSUME RuntimeInv, Subscribe \/ SubscribeFails \/ Enqueue \/ PublishRequirement
                          \/ \E kind \in {"ordinary", "reorg"} : Receive(kind)
    PROVE  RuntimeInv'
<1> USE RuntimeAssumption DEF RuntimeInv, source, reducer, watchdog
<1>1. CASE Subscribe
  BY <1>1 DEF Subscribe, HoldersTyped, LeaseIsLive, AdmittedWhileConnected, Admitted, Stopped, Connection
<1>2. CASE SubscribeFails
  BY <1>2 DEF SubscribeFails, Update, HoldersTyped, LeaseIsLive, AdmittedWhileConnected, Admitted, Stopped, LeasedItem
<1>3. CASE Enqueue
  BY <1>3 DEF Enqueue, AfterSend, HoldersTyped, LeaseIsLive, AdmittedWhileConnected, Admitted, Stopped
<1>4. CASE PublishRequirement
  BY <1>4 DEF PublishRequirement, HoldersTyped, LeaseIsLive, AdmittedWhileConnected, Admitted, Stopped
<1>5. CASE \E kind \in {"ordinary", "reorg"} : Receive(kind)
  BY <1>5 DEF Receive, Update, HoldersTyped, LeaseIsLive, AdmittedWhileConnected, Admitted, Stopped, LeasedItem
<1> QED BY Zenon, <1>1, <1>2, <1>3, <1>4, <1>5

(* What a compare-exchange does to a runtime that satisfies the invariant. *)
LEMMA MoveFacts ==
    ASSUME RuntimeInv, NEW allowed \in BOOLEAN, NEW s \in States, Move(allowed, s)
    PROVE  /\ token' \in Tokens
           /\ ~allowed => token' = token
           /\ allowed => token' = Fresh(s) /\ token'.state = s /\ token' # lease
<1>1. token \in Tokens /\ lease \in Tokens \cup {NoToken} /\ lease \in HeldTokens
  BY Zenon DEF RuntimeInv, HoldersTyped, HeldTokens
<1>2. NoToken \notin Tokens
  BY Zenon, RuntimeAssumption
<1> QED BY Zenon, <1>1, <1>2, MoveToken

(* begin_correction: the leased token is a publishing token nobody held. *)
LEMMA BeginFacts ==
    ASSUME RuntimeInv, Begin
    PROVE  /\ token' \in Tokens
           /\ ~CanBegin => token' = token
           /\ CanBegin => token'.state = "publishing" /\ token' # lease /\ active
           /\ BeginToken \in PublishingToken \cup {NoToken}
<1>1. CanBegin \in BOOLEAN
  BY DEF CanBegin
<1>2. Move(CanBegin, "publishing")
  BY Zenon DEF Begin
<1>3. /\ token' \in Tokens
      /\ ~CanBegin => token' = token
      /\ CanBegin => token' = Fresh("publishing") /\ token'.state = "publishing" /\ token' # lease
  BY Zenon, <1>1, <1>2, MoveFacts DEF States
<1>4. CanBegin => active
  BY Zenon DEF RuntimeInv, AdmittedWhileConnected, Admitted, CanBegin
<1>5. BeginToken \in PublishingToken \cup {NoToken}
  BY Zenon, <1>3 DEF BeginToken, PublishingToken
<1> QED BY Zenon, <1>3, <1>4, <1>5

(* The steps of the pump that move the token: a correction and a disconnect. *)
LEMMA PumpMovesKeepInvariant ==
    ASSUME RuntimeInv, ReceiveCorrection \/ Rest \/ \E kind \in Terminal : Terminate(kind)
    PROVE  RuntimeInv'
<1> USE RuntimeAssumption DEF RuntimeInv, source, reducer, watchdog
<1>1. CASE ReceiveCorrection
  <2>1. Begin
    BY Zenon, <1>1 DEF ReceiveCorrection
  <2>2. outgoing' \in Seq(LeasedItem)
    BY <1>1, <2>1, BeginFacts DEF ReceiveCorrection, Update, LeasedItem, HoldersTyped
  <2> QED BY Zenon, <1>1, <2>1, <2>2, BeginFacts DEF ReceiveCorrection, CanBegin, HoldersTyped, LeaseIsLive, AdmittedWhileConnected, Admitted, Stopped
<1>2. CASE Rest \/ \E kind \in Terminal : Terminate(kind)
  <2>1. Move(~Stopped, "invalid") /\ active' = FALSE
    BY Zenon, <1>2 DEF Rest, Terminate, MarkInactive, InvalidateSourceLease
  <2>2. /\ token' \in Tokens
        /\ Stopped => token' = token
        /\ ~Stopped => token'.state = "invalid" /\ token' # lease
    BY Zenon, <2>1, MoveFacts DEF Stopped, States
  <2>3. ~Admitted' /\ lease' = lease /\ pc' = pc
    BY Zenon, <1>2, <2>2 DEF Rest, Terminate, Admitted, Stopped
  <2>4. LeaseIsLive' /\ AdmittedWhileConnected'
    BY Zenon, <2>2, <2>3 DEF LeaseIsLive, AdmittedWhileConnected, Stopped
  <2>5. CASE Rest
    BY Zenon, <2>1, <2>2, <2>4, <2>5 DEF Rest, HoldersTyped
  <2>6. CASE \E kind \in Terminal : Terminate(kind)
    <3>1. outgoing' \in Seq(LeasedItem)
      BY <2>6 DEF Terminate, Terminal, Update, LeasedItem, HoldersTyped
    <3> QED BY Zenon, <2>1, <2>2, <2>4, <2>6, <3>1 DEF Terminate, HoldersTyped
  <2> QED BY Zenon, <1>2, <2>5, <2>6
<1> QED BY Zenon, <1>1, <1>2

(* The watchdog leases and releases only the token it sampled. *)
LEMMA WatchdogKeepsInvariant ==
    ASSUME RuntimeInv, Watchdog
    PROVE  RuntimeInv'
<1> USE RuntimeAssumption DEF RuntimeInv, source, reducer, watchdog
<1>1. CASE SampleToken
  BY Zenon, <1>1 DEF SampleToken, HoldersTyped, LeaseIsLive, AdmittedWhileConnected, Admitted, Stopped
<1>2. CASE BeginExpiration
  <2>1. /\ token' \in Tokens
        /\ token # sampled => token' = token
        /\ token = sampled => token' = Fresh("expiring") /\ token'.state = "expiring" /\ token' # lease
    BY Zenon, <1>2, MoveFacts DEF BeginExpiration, CompareExchange, States
  <2>2. token = sampled => active
    BY Zenon DEF HoldersTyped, AdmittedWhileConnected, Admitted
  <2> QED BY Zenon, <1>2, <2>1, <2>2 DEF BeginExpiration, HoldersTyped, LeaseIsLive, AdmittedWhileConnected, Admitted, Stopped
<1>3. CASE CompareProgress
  BY Zenon, <1>3 DEF CompareProgress, HoldersTyped, LeaseIsLive, AdmittedWhileConnected, Admitted, Stopped
<1>4. CASE FinishExpiration
  <2> DEFINE target == IF watch = "stale" THEN "invalid" ELSE "ready"
  <2>1. /\ token' \in Tokens
        /\ token # sampled => token' = token
        /\ token = sampled => token'.state = target /\ token' # lease
    BY Zenon, <1>4, MoveFacts DEF FinishExpiration, CompareExchange, States
  <2>2. token = sampled => active
    BY Zenon DEF HoldersTyped, AdmittedWhileConnected, Admitted
  <2> QED BY Zenon, <1>4, <2>1, <2>2 DEF FinishExpiration, HoldersTyped, LeaseIsLive, AdmittedWhileConnected, Admitted, Stopped
<1> QED BY Zenon, <1>1, <1>2, <1>3, <1>4 DEF Watchdog

(* The reducer's steps that leave token, source and held tokens alone. *)
QuietStep ==
    \/ Dequeue \/ ObserveSource \/ ReadLease \/ RecheckSource
    \/ ApplySegment \/ BuildCorrection \/ Swap \/ RecordStateUpdate
    \/ SignalRecovery \/ MarkNotReady \/ StartAttempt \/ SourceIsActive
    \/ FetchSnapshot \/ LoadBackfill \/ AttemptFails
    \/ InstallSnapshot \/ InstallFails

(* Such a step keeps the invariant: a lease it takes is checked again. *)
LEMMA QuietStepKeepsInvariant ==
    ASSUME RuntimeInv, QuietStep
    PROVE  RuntimeInv'
<1> USE RuntimeAssumption DEF RuntimeInv, source, reducer, watchdog
<1>1. CASE Dequeue
  <2>1. PICK n \in 1..Len(queue) :
            /\ segment' = SubSeq(queue, 1, n)
            /\ queue' = SubSeq(queue, n + 1, Len(queue))
    BY Zenon, <1>1 DEF Dequeue
  <2>2. queue \in Seq(LeasedItem)
    BY Zenon DEF HoldersTyped
  <2>3. segment' \in Seq(LeasedItem) /\ queue' \in Seq(LeasedItem) /\ segment' # <<>>
    BY <2>1, <2>2
  <2> QED BY Zenon, <1>1, <2>3 DEF Dequeue, HoldersTyped, LeaseIsLive, AdmittedWhileConnected, Admitted, Stopped
<1>2. CASE ObserveSource \/ ReadLease \/ RecheckSource
  BY Zenon, <1>2 DEF ObserveSource, ReadLease, RecheckSource, WithLease, HoldersTyped, LeaseIsLive, AdmittedWhileConnected, Admitted, Stopped
<1>3. CASE ApplySegment \/ BuildCorrection \/ Swap \/ RecordStateUpdate
  BY Zenon, <1>3 DEF ApplySegment, BuildCorrection, Swap, RecordStateUpdate, HoldersTyped, LeaseIsLive, AdmittedWhileConnected, Admitted, Stopped
<1>4. CASE SignalRecovery \/ MarkNotReady \/ SourceIsActive \/ AttemptFails
  BY Zenon, <1>4 DEF SignalRecovery, MarkNotReady, SourceIsActive, AttemptFails, HoldersTyped, LeaseIsLive, AdmittedWhileConnected, Admitted, Stopped
<1>5. CASE StartAttempt \/ FetchSnapshot \/ LoadBackfill \/ InstallSnapshot \/ InstallFails
  <2>1. segment' = segment \o queue /\ queue' = <<>> /\ pc # "idle"
    BY Zenon, <1>5 DEF StartAttempt, FetchSnapshot, LoadBackfill, InstallSnapshot, InstallFails, Absorb
  <2>2. queue \in Seq(LeasedItem) /\ segment \in Seq(LeasedItem) /\ segment # <<>>
    BY Zenon, <2>1 DEF HoldersTyped
  <2>3. segment' \in Seq(LeasedItem) /\ queue' \in Seq(LeasedItem) /\ segment' # <<>>
    BY <2>1, <2>2
  <2> QED BY Zenon, <1>5, <2>3 DEF StartAttempt, FetchSnapshot, LoadBackfill, InstallSnapshot, InstallFails, HoldersTyped, LeaseIsLive, AdmittedWhileConnected, Admitted, Stopped
<1> QED BY Zenon, <1>1, <1>2, <1>3, <1>4, <1>5 DEF QuietStep

(* The reducer's steps that move the token: each re-admits quotes only     *)
(* with a token it holds and that is still current.                        *)
LEMMA ReducerMovesKeepInvariant ==
    ASSUME RuntimeInv,
           \/ StartCorrection \/ ApplyFails \/ BeginPublication \/ CompletePublication
           \/ AdmitSegment \/ CompleteCorrection \/ RevokeAvailable
           \/ AdmitRecovered \/ FinishRecovery
    PROVE  RuntimeInv'
<1> USE RuntimeAssumption DEF RuntimeInv, source, reducer, watchdog
<1>1. CASE StartCorrection
  <2>1. segment # <<>> /\ segment \in Seq(LeasedItem) /\ segment[1] \in LeasedItem
    BY <1>1 DEF StartCorrection, HoldersTyped
  <2>2. CASE segment[1].admission # NoToken
    <3>1. correcting' \in PublishingToken \cup {NoToken}
      BY Zenon, <1>1, <2>1, <2>2 DEF StartCorrection, LeasedItem
    <3>2. segment' \in Seq(LeasedItem) /\ segment' # <<>>
      BY <1>1, <2>1, <2>2 DEF StartCorrection, LeasedItem
    <3> QED BY Zenon, <1>1, <2>2, <3>1, <3>2 DEF StartCorrection, HoldersTyped, LeaseIsLive, AdmittedWhileConnected, Admitted, Stopped
  <2>3. CASE segment[1].admission = NoToken
    <3>1. Begin /\ correcting' = BeginToken /\ segment' = segment
      BY Zenon, <1>1, <2>3 DEF StartCorrection
    <3> QED BY Zenon, <1>1, <2>1, <3>1, BeginFacts DEF StartCorrection, HoldersTyped, LeaseIsLive, AdmittedWhileConnected, Admitted, Stopped
  <2> QED BY Zenon, <2>2, <2>3
<1>2. CASE ApplyFails
  <2>1. /\ token' \in Tokens
        /\ token # correcting => token' = token
        /\ token = correcting => token'.state = "invalid" /\ token' # lease
    BY Zenon, <1>2, MoveFacts DEF ApplyFails, CompareExchange, States
  <2> QED BY Zenon, <1>2, <2>1 DEF ApplyFails, HoldersTyped, LeaseIsLive, AdmittedWhileConnected, Admitted, Stopped
<1>3. CASE BeginPublication
  <2>1. Begin
    BY Zenon, <1>3 DEF BeginPublication
  <2> QED BY Zenon, <1>3, <2>1, BeginFacts DEF BeginPublication, HoldersTyped, LeaseIsLive, AdmittedWhileConnected, Admitted, Stopped
<1>4. CASE CompletePublication
  <2>1. /\ token' \in Tokens
        /\ token # publishing => token' = token
        /\ token = publishing => token'.state = "ready" /\ token' # lease
    BY Zenon, <1>4, MoveFacts DEF CompletePublication, CompareExchange, States
  <2>2. token = publishing => active
    BY Zenon DEF HoldersTyped, PublishingToken, AdmittedWhileConnected, Admitted
  <2> QED BY Zenon, <1>4, <2>1, <2>2 DEF CompletePublication, HoldersTyped, LeaseIsLive, AdmittedWhileConnected, Admitted, Stopped
<1>5. CASE CompleteCorrection
  <2>1. /\ token' \in Tokens
        /\ token # correcting => token' = token
        /\ token = correcting => token'.state = "ready" /\ token' # lease
    BY Zenon, <1>5, MoveFacts DEF CompleteCorrection, CompareExchange, States
  <2>2. token = correcting => active
    BY Zenon DEF HoldersTyped, PublishingToken, AdmittedWhileConnected, Admitted
  <2>3. segment' \in Seq(LeasedItem) /\ (pc' # "idle" => segment' # <<>>)
    <3>1. <<>> \in Seq(LeasedItem) /\ segment \in Seq(LeasedItem) /\ segment # <<>>
      BY <1>5 DEF CompleteCorrection, HoldersTyped
    <3> QED BY Zenon, <1>5, <3>1 DEF CompleteCorrection
  <2> QED BY Zenon, <1>5, <2>1, <2>2, <2>3 DEF CompleteCorrection, HoldersTyped, LeaseIsLive, AdmittedWhileConnected, Admitted, Stopped
<1>6. CASE AdmitSegment \/ AdmitRecovered
  <2> DEFINE publishes == LeaseCurrent /\ token.state \in {"invalid", "expiring"}
  <2>1. publishes \in BOOLEAN /\ Move(publishes, "ready")
    BY Zenon, <1>6 DEF AdmitSegment, AdmitRecovered, PublishIf
  <2>2. publishes => active
    BY Zenon, <1>6 DEF AdmitSegment, AdmitRecovered, LeaseCurrent, LeaseIsLive, Stopped
  <2> HIDE DEF publishes
  <2>3. /\ token' \in Tokens
        /\ ~publishes => token' = token
        /\ publishes => token'.state = "ready"
    BY Zenon, <2>1, MoveFacts DEF States
  <2>4. segment' \in Seq(LeasedItem) /\ (pc' # "idle" => segment' # <<>>) /\ lease' = NoToken
    <3>1. <<>> \in Seq(LeasedItem) /\ segment \in Seq(LeasedItem) /\ segment # <<>>
      BY <1>6 DEF AdmitSegment, AdmitRecovered, HoldersTyped
    <3> QED BY Zenon, <1>6, <3>1 DEF AdmitSegment, AdmitRecovered
  <2> QED BY Zenon, <1>6, <2>2, <2>3, <2>4 DEF AdmitSegment, AdmitRecovered, HoldersTyped, LeaseIsLive, AdmittedWhileConnected, Admitted, Stopped
<1>7. CASE RevokeAvailable
  <2> DEFINE revokes == token.state \notin {"invalid", "stopping"}
  <2>1. revokes \in BOOLEAN /\ Move(revokes, "invalid")
    BY Zenon, <1>7 DEF RevokeAvailable, TransitionToTerminal
  <2> HIDE DEF revokes
  <2>2. /\ token' \in Tokens
        /\ ~revokes => token' = token
        /\ revokes => token'.state = "invalid" /\ token' # lease
    BY Zenon, <2>1, MoveFacts DEF States
  <2> QED BY Zenon, <1>7, <2>2 DEF RevokeAvailable, HoldersTyped, LeaseIsLive, AdmittedWhileConnected, Admitted, Stopped
<1>8. CASE FinishRecovery
  <2>1. CASE signal.changed
    BY Zenon, <1>8, <2>1 DEF FinishRecovery, HoldersTyped, LeaseIsLive, AdmittedWhileConnected, Admitted, Stopped
  <2>2. CASE ~signal.changed
    <3> DEFINE dropped == \E i \in Items(segment) : i.admission = token
    <3>1. dropped \in BOOLEAN /\ Move(dropped, "invalid") /\ segment' = <<>> /\ pc' = "idle"
      BY Zenon, <1>8, <2>2 DEF FinishRecovery
    <3> HIDE DEF dropped
    <3>2. /\ token' \in Tokens
          /\ ~dropped => token' = token
          /\ dropped => token'.state = "invalid" /\ token' # lease
      BY Zenon, <3>1, MoveFacts DEF States
    <3> QED BY <1>8, <3>1, <3>2 DEF FinishRecovery, HoldersTyped, LeaseIsLive, AdmittedWhileConnected, Admitted, Stopped
  <2> QED BY Zenon, <2>1, <2>2
<1> QED BY Zenon, <1>1, <1>2, <1>3, <1>4, <1>5, <1>6, <1>7, <1>8

(* Every step of the runtime keeps the invariant. *)
LEMMA RuntimeStep == RuntimeInv /\ [Next]_vars => RuntimeInv'
<1> SUFFICES ASSUME RuntimeInv, [Next]_vars PROVE RuntimeInv'
  BY Zenon
<1>1. CASE SourcePump
  BY Zenon, <1>1, PumpKeepsInvariant, PumpMovesKeepInvariant DEF SourcePump
<1>2. CASE Watchdog
  BY Zenon, <1>2, WatchdogKeepsInvariant
<1>3. CASE Reducer
  BY Zenon, <1>3, QuietStepKeepsInvariant, ReducerMovesKeepInvariant DEF Reducer, QuietStep
<1>4. CASE Stop
  <2> DEFINE stops == token.state \notin {"stopping", "stopping"}
  <2>1. stops \in BOOLEAN /\ Move(stops, "stopping")
    BY Zenon, <1>4 DEF Stop, TransitionToTerminal
  <2> HIDE DEF stops
  <2>2. /\ token' \in Tokens
        /\ ~stops => token' = token
        /\ stops => token'.state = "stopping"
    BY Zenon, <2>1, MoveFacts DEF States
  <2> QED BY Zenon, <1>4, <2>2 DEF Stop, RuntimeInv, source, reducer, watchdog, HoldersTyped, LeaseIsLive, AdmittedWhileConnected, Admitted, Stopped
<1>5. CASE UNCHANGED vars
  BY Zenon, <1>5 DEF vars, RuntimeInv, source, reducer, watchdog, HoldersTyped, LeaseIsLive, AdmittedWhileConnected, Admitted, Stopped
<1> QED BY Zenon, <1>1, <1>2, <1>3, <1>4, <1>5 DEF Next

(***************************************************************************)
(* The invariant of the runtime: every held token is of the state its      *)
(* holder put it in, and a current lease is a live one.                    *)
(***************************************************************************)
THEOREM RuntimeInvariant == Spec => []RuntimeInv
<1> QED BY RuntimeInit, RuntimeStep, PTL DEF Spec

(***************************************************************************)
(* Quotes are admitted only while the source subscription is up, for any   *)
(* interleaving of pump, reducer, watchdog and shutdown.                   *)
(***************************************************************************)
THEOREM QuotesNeedTheSource == Spec => []AdmittedWhileConnected
<1>1. RuntimeInv => AdmittedWhileConnected
  BY Zenon DEF RuntimeInv
<1> QED BY <1>1, RuntimeInvariant, PTL

(* After the fence no compare-exchange of any task applies: what the tasks *)
(* still hold are publishing, ready or expiring tokens and stale leases.   *)
LEMMA StoppedStep ==
    ASSUME RuntimeInv, [Next]_vars, Stopped
    PROVE  token' = token
<1> USE DEF RuntimeInv, Stopped
<1>1. token \in Tokens /\ token # NoToken /\ token.state = "stopping" /\ ~CanBegin
  BY Zenon, RuntimeAssumption DEF HoldersTyped, CanBegin
<1>2. token # correcting /\ token # publishing /\ token # sampled
  BY Zenon, <1>1 DEF HoldersTyped, PublishingToken
<1>3. ASSUME NEW i \in Items(segment) PROVE i.admission # token
  <2>1. segment \in Seq(LeasedItem)
    BY Zenon DEF HoldersTyped
  <2>2. i \in LeasedItem
    BY <1>3, <2>1 DEF Items
  <2> QED BY Zenon, <1>1, <2>2 DEF LeasedItem, PublishingToken
<1>4. CASE SourcePump
  BY Zenon, <1>1, <1>4 DEF SourcePump, Subscribe, SubscribeFails, Receive, ReceiveCorrection, Terminate,
     Enqueue, PublishRequirement, Rest, MarkInactive, InvalidateSourceLease, Begin, Move
<1>5. CASE Watchdog
  BY Zenon, <1>2, <1>5 DEF Watchdog, SampleToken, BeginExpiration, CompareProgress, FinishExpiration,
     CompareExchange, Move
<1>6. CASE QuietStep
  BY Zenon, <1>6 DEF QuietStep, Dequeue, ObserveSource, ReadLease, RecheckSource, ApplySegment,
     BuildCorrection, Swap, RecordStateUpdate, SignalRecovery, MarkNotReady, StartAttempt,
     SourceIsActive, FetchSnapshot, LoadBackfill, AttemptFails, InstallSnapshot, InstallFails
<1>7. CASE StartCorrection \/ BeginPublication
  BY Zenon, <1>1, <1>7 DEF StartCorrection, BeginPublication, Begin, Move
<1>8. CASE ApplyFails \/ CompletePublication \/ CompleteCorrection
  BY Zenon, <1>2, <1>8 DEF ApplyFails, CompletePublication, CompleteCorrection, CompareExchange, Move
<1>9. CASE AdmitSegment \/ AdmitRecovered
  BY Zenon, <1>9 DEF AdmitSegment, AdmitRecovered, PublishIf, LeaseCurrent, Move
<1>10. CASE RevokeAvailable \/ Stop
  BY Zenon, <1>10 DEF RevokeAvailable, Stop, TransitionToTerminal, Move
<1>11. CASE FinishRecovery
  BY Zenon, <1>3, <1>11 DEF FinishRecovery, Move
<1>12. CASE UNCHANGED vars
  BY Zenon, <1>12 DEF vars
<1> QED BY Zenon, <1>4, <1>5, <1>6, <1>7, <1>8, <1>9, <1>10, <1>11, <1>12 DEF Next, Reducer, QuietStep

(***************************************************************************)
(* Shutdown is final: once begin_shutdown has fenced admission, no step a  *)
(* task still takes moves the token again.                                 *)
(***************************************************************************)
THEOREM ShutdownIsFinal == Spec => StopIsFinal
<1>1. RuntimeInv /\ [Next]_vars => [Stopped => UNCHANGED token]_vars
  BY Zenon, StoppedStep
<1> QED BY <1>1, RuntimeInvariant, PTL DEF Spec, StopIsFinal


(* The positions of the reducer outside recovery, in it, and in both.      *)
LivePcs == {"idle", "apply", "build", "correct", "failing"}
RecoveryPcs == {"revoke", "unready", "merge", "wait", "fetch", "backfill", "install", "finish"}
SharedPcs == {"observe", "token", "recheck", "begin", "swap", "complete", "record", "admit"}
PublishPcs == {"begin", "swap", "complete", "record", "admit"}

(* A Gap ends a subscription; a Gap or a Reorg suspends readiness.         *)
HasTerminal(s) == \E i \in 1..Len(s) : s[i].kind \in Terminal
Suspends(i) == i.kind \in Terminal \cup {"reorg"}
LiveTerminal == ~signal.active /\ HasTerminal(segment)

(* A Gap precedes every update of a subscription other than c.             *)
Announced(s, c) ==
    \A i \in 1..Len(s) : s[i].connection # c => \E j \in 1..(i - 1) : s[j].kind \in Terminal

(* Where the reducer is while it recovers and while it does not.           *)
PhaseInv ==
    /\ pc \in LivePcs \cup RecoveryPcs \cup SharedPcs
    /\ signal \in [active : BOOLEAN, changed : BOOLEAN, needs_head : BOOLEAN]
    /\ snapshot \in Snapshot /\ candidate \in Snapshot
    /\ pc \in LivePcs => ~signal.active
    /\ pc \in RecoveryPcs => signal.active
    /\ pc = "idle" => segment = <<>>
    /\ pc \in {"revoke", "unready"} => lease = NoToken

(* What the pump holds and has announced.                                  *)
PumpInv ==
    /\ pump \in {"connect", "stream", "send", "delay", "backoff"}
    /\ pump \in {"delay", "backoff", "connect"} => ~active
    /\ pump # "send" => outgoing = <<>>
    /\ pump = "send" => /\ Len(outgoing) = 1
                        /\ outgoing[1].connection = connection
                        /\ IsTerminal => ~active

(* Quotes stay closed in a recovery, and a requirement that arrives while  *)
(* the recovered state is being published makes its lease stale.           *)
FenceInv ==
    /\ RecoveryIsFenced
    /\ signal.active /\ signal.changed /\ pc \in PublishPcs => lease # token \/ Stopped
    /\ signal.active /\ signal.changed /\ pc = "finish" => ~Admitted

(* What the reducer holds outside recovery: one Gap, Reorg or correction,  *)
(* or a run of ordinary updates, of the subscription of the published      *)
(* state; and what it is about to publish for it.                          *)
SegmentInv ==
    /\ pc # "idle" /\ ~signal.active =>
          /\ Len(segment) > 1 => \A i \in 1..Len(segment) : segment[i].kind = "ordinary"
          /\ \A i \in 1..Len(segment) : segment[i].connection = snapshot.connection
          /\ pc \in {"begin", "swap", "complete"} =>
                /\ candidate.connection = snapshot.connection
                /\ candidate.ready <=> ~Suspends(segment[1])
          /\ pc \in {"record", "admit", "correct", "build"} => ~Suspends(segment[1])
          /\ pc \notin {"complete", "failing"} => snapshot.ready
    /\ pc = "idle" => snapshot.ready
    /\ pc = "complete" => snapshot = candidate

(* A correction under way: its update is the segment, its token was taken. *)
CorrectionInv ==
    /\ correcting # NoToken =>
          /\ pc \in {"build", "begin", "swap", "complete", "record", "correct"}
          /\ ~signal.active
          /\ segment[1].kind = "correction" /\ segment[1].admission = NoToken
    /\ pc \in {"build", "correct"} => correcting # NoToken
    /\ ~signal.active /\ pc \in PublishPcs /\ correcting = NoToken => segment[1].kind # "correction"

(* A recovered state whose lease is current is of the present              *)
(* subscription, and so is everything queued behind it.                    *)
RecoveredInv ==
    signal.active =>
       /\ pc \in {"backfill", "install", "record", "admit"} => candidate.ready
       /\ pc \in {"record", "admit"} => snapshot = candidate
       /\ pc \in {"backfill", "install"} \cup PublishPcs /\ candidate.ready /\ LeaseCurrent =>
             /\ candidate.connection = connection
             /\ \A i \in 1..Len(queue) : queue[i].connection = connection
       /\ pc = "finish" => snapshot.ready
       /\ pc = "finish" /\ Admitted => snapshot.connection = connection

(* Unless the recovery signal holds a requirement, a disconnect the        *)
(* published state does not reflect is ahead of whatever followed it.      *)
Settled == ~signal.active \/ (pc = "finish" /\ ~signal.changed)
ContinuityInv ==
    Settled =>
       /\ \/ snapshot.connection = connection /\ pump \in {"stream", "send"}
          \/ LiveTerminal \/ HasTerminal(queue)
       /\ LiveTerminal \/ Announced(queue, snapshot.connection)

(* The inductive invariant, together with RuntimeInv.                      *)
AdmissionInv ==
    /\ PhaseInv /\ PumpInv /\ FenceInv /\ SegmentInv /\ CorrectionInv /\ RecoveredInv
    /\ ContinuityInv /\ AdmittedIsContinuous

-----------------------------------------------------------------------------
(* A step leaves the token alone or moves it to one that no task holds.    *)
LEMMA TokenSteps ==
    ASSUME RuntimeInv, [Next]_vars
    PROVE  token' = token \/ \A t \in HeldTokens : t # NoToken => token' # t
<1>1. ASSUME NEW allowed \in BOOLEAN, NEW s \in States, Move(allowed, s)
      PROVE  token' = token \/ \A t \in HeldTokens : t # NoToken => token' # t
  BY Zenon, <1>1, MoveToken DEF RuntimeInv, HoldersTyped
<1>2. CASE SourcePump
  <2>1. \/ token' = token
        \/ Move(CanBegin, "publishing")
        \/ Move(~Stopped, "invalid")
    <3>1. CASE Subscribe \/ SubscribeFails \/ Enqueue \/ PublishRequirement
      BY Zenon, <3>1 DEF Subscribe, SubscribeFails, Enqueue, PublishRequirement
    <3>2. CASE \E kind \in {"ordinary", "reorg"} : Receive(kind)
      BY Zenon, <3>2 DEF Receive
    <3>3. CASE ReceiveCorrection
      BY Zenon, <3>3 DEF ReceiveCorrection, Begin
    <3>4. CASE \E kind \in Terminal : Terminate(kind)
      BY Zenon, <3>4 DEF Terminate, MarkInactive, InvalidateSourceLease
    <3>5. CASE Rest
      BY Zenon, <3>5 DEF Rest, MarkInactive, InvalidateSourceLease
    <3> QED BY Zenon, <1>2, <3>1, <3>2, <3>3, <3>4, <3>5 DEF SourcePump
  <2>2. CanBegin \in BOOLEAN /\ (~Stopped) \in BOOLEAN
    BY DEF CanBegin, Stopped
  <2> QED BY Zenon, <2>1, <2>2, <1>1 DEF States
<1>3. CASE Watchdog
  <2>1. \/ token' = token
        \/ \E allowed \in BOOLEAN, s \in States : Move(allowed, s)
    BY Zenon, <1>3 DEF Watchdog, SampleToken, BeginExpiration, CompareProgress, FinishExpiration, CompareExchange, States
  <2> QED BY Zenon, <2>1, <1>1
<1>4. CASE QuietStep
  BY Zenon, <1>4 DEF QuietStep, Dequeue, ObserveSource, ReadLease, RecheckSource, ApplySegment,
     BuildCorrection, Swap, RecordStateUpdate, SignalRecovery, MarkNotReady, StartAttempt,
     SourceIsActive, FetchSnapshot, LoadBackfill, AttemptFails, InstallSnapshot, InstallFails
<1>5. CASE \/ StartCorrection \/ ApplyFails \/ BeginPublication \/ CompletePublication
           \/ AdmitSegment \/ CompleteCorrection \/ RevokeAvailable \/ AdmitRecovered \/ Stop
  <2> DEFINE publishes == LeaseCurrent /\ token.state \in {"invalid", "expiring"}
             revokes == token.state \notin {"invalid", "stopping"}
             stops == token.state \notin {"stopping", "stopping"}
  <2>1. \/ token' = token
        \/ Move(CanBegin, "publishing")
        \/ Move(token = correcting, "invalid") \/ Move(token = correcting, "ready")
        \/ Move(token = publishing, "ready")
        \/ Move(publishes, "ready")
        \/ Move(revokes, "invalid") \/ Move(stops, "stopping")
    BY Zenon, <1>5 DEF StartCorrection, ApplyFails, BeginPublication, CompletePublication, AdmitSegment,
       CompleteCorrection, RevokeAvailable, AdmitRecovered, Stop, CompareExchange, Begin,
       PublishIf, TransitionToTerminal
  <2>2. /\ CanBegin \in BOOLEAN /\ publishes \in BOOLEAN /\ revokes \in BOOLEAN /\ stops \in BOOLEAN
        /\ (token = correcting) \in BOOLEAN /\ (token = publishing) \in BOOLEAN
    BY DEF CanBegin
  <2> HIDE DEF publishes, revokes, stops
  <2> QED BY Zenon, <2>1, <2>2, <1>1 DEF States
<1>6. CASE FinishRecovery
  <2>1. \/ token' = token
        \/ \E allowed \in BOOLEAN, s \in States : Move(allowed, s)
    BY Zenon, <1>6 DEF FinishRecovery, States
  <2> QED BY Zenon, <2>1, <1>1
<1>7. CASE UNCHANGED vars
  BY Zenon, <1>7 DEF vars
<1> QED BY Zenon, <1>2, <1>3, <1>4, <1>5, <1>6, <1>7 DEF Next, Reducer, QuietStep

(* finish_recovery: either a requirement arrived, or the signal is cleared *)
(* and the stage dropped.                                                  *)
LEMMA FinishFacts ==
    ASSUME FinishRecovery
    PROVE  /\ pc = "finish"
           /\ UNCHANGED <<snapshot, queue, source, watchdog,
                           lease, correcting, publishing, candidate, needs_head>>
           /\ \/ signal.changed /\ pc' = "merge" /\ UNCHANGED <<token, signal, segment>>
              \/ /\ ~signal.changed /\ pc' = "idle" /\ segment' = <<>>
                 /\ signal' = [active |-> FALSE, changed |-> FALSE, needs_head |-> FALSE]
  BY Zenon DEF FinishRecovery

(* Where the reducer is agrees with whether it recovers.                   *)
LEMMA PhaseStep ==
    ASSUME RuntimeInv, PhaseInv, SegmentInv, CorrectionInv, [Next]_vars
    PROVE  PhaseInv'
<1> USE DEF PhaseInv, LivePcs, RecoveryPcs, SharedPcs, Snapshot
<1>1. CASE SourcePump
  BY ZenonT(30), <1>1 DEF SourcePump, Subscribe, SubscribeFails, Receive, ReceiveCorrection, Terminate, Enqueue,
       PublishRequirement, Rest, reducer
<1>2. CASE Watchdog \/ Stop
  BY Zenon, <1>2 DEF Watchdog, SampleToken, BeginExpiration, CompareProgress, FinishExpiration, Stop, reducer
<1>3. CASE Dequeue \/ ObserveSource \/ ReadLease \/ RecheckSource \/ ApplySegment
           \/ BuildCorrection \/ Swap \/ RecordStateUpdate \/ SignalRecovery \/ MarkNotReady
  BY Zenon, <1>3 DEF Dequeue, ObserveSource, ReadLease, RecheckSource, WithLease, ApplySegment,
     BuildCorrection, Swap, RecordStateUpdate, SignalRecovery, MarkNotReady, CorrectionInv
<1>4. CASE \/ StartAttempt \/ SourceIsActive \/ LoadBackfill
           \/ AttemptFails \/ InstallSnapshot \/ InstallFails
  BY Zenon, <1>4 DEF StartAttempt, SourceIsActive, LoadBackfill, AttemptFails,
     InstallSnapshot, InstallFails, MergeControl
<1>8. CASE FetchSnapshot
  BY Zenon, <1>8 DEF FetchSnapshot, RuntimeInv, HoldersTyped
<1>5. CASE \/ StartCorrection \/ ApplyFails \/ BeginPublication \/ CompletePublication
           \/ AdmitSegment \/ CompleteCorrection \/ RevokeAvailable \/ AdmitRecovered
  BY Zenon, <1>5 DEF StartCorrection, ApplyFails, BeginPublication, CompletePublication, AdmitSegment,
       CompleteCorrection, RevokeAvailable, AdmitRecovered, CorrectionInv
<1>6. CASE FinishRecovery
  <2>1. CASE signal.changed
    BY Zenon, <1>6, <2>1, FinishFacts
  <2>2. CASE ~signal.changed
    <3>1. /\ signal' = [active |-> FALSE, changed |-> FALSE, needs_head |-> FALSE]
          /\ pc' = "idle" /\ segment' = <<>> /\ snapshot' = snapshot /\ candidate' = candidate
      BY Zenon, <1>6, <2>2, FinishFacts
    <3>2. ~signal'.active /\ signal' \in [active : BOOLEAN, changed : BOOLEAN, needs_head : BOOLEAN]
      BY Zenon, <3>1
    <3> QED BY Zenon, <3>1, <3>2
  <2> QED BY Zenon, <2>1, <2>2
<1>7. CASE UNCHANGED vars
  BY Zenon, <1>7 DEF vars, reducer
<1> QED BY Zenon, <1>1, <1>2, <1>3, <1>4, <1>5, <1>6, <1>7, <1>8 DEF Next, Reducer, QuietStep

(* The pump announces every disconnect before it lets go of the update.    *)
LEMMA PumpStep ==
    ASSUME PumpInv, [Next]_vars
    PROVE  PumpInv'
<1> USE DEF PumpInv, IsTerminal, Terminal
<1>1. CASE Subscribe \/ Rest \/ PublishRequirement \/ Enqueue
  BY <1>1 DEF Subscribe, Rest, PublishRequirement, Enqueue, AfterSend, MarkInactive
<1>2. CASE SubscribeFails \/ ReceiveCorrection
  BY <1>2 DEF SubscribeFails, ReceiveCorrection, Update
<1>3. CASE \E kind \in {"ordinary", "reorg"} : Receive(kind)
  BY <1>3 DEF Receive, Update
<1>4. CASE \E kind \in Terminal : Terminate(kind)
  BY <1>4 DEF Terminate, Update, MarkInactive
<1>5. CASE UNCHANGED source
  BY Zenon, <1>5 DEF source
<1>6. CASE Watchdog \/ Reducer \/ Stop \/ UNCHANGED vars
  <2>1. UNCHANGED source
    BY Zenon, <1>6 DEF Watchdog, SampleToken, BeginExpiration, CompareProgress, FinishExpiration, Stop, vars,
     Reducer, Dequeue, ObserveSource, ReadLease, RecheckSource, ApplySegment,
     BuildCorrection, Swap, RecordStateUpdate, SignalRecovery, MarkNotReady, StartAttempt,
     SourceIsActive, FetchSnapshot, LoadBackfill, AttemptFails, InstallSnapshot, InstallFails,
     StartCorrection, ApplyFails, BeginPublication, CompletePublication, AdmitSegment,
     CompleteCorrection, RevokeAvailable, AdmitRecovered, FinishRecovery
  <2> QED BY Zenon, <2>1, <1>5
<1> QED BY Zenon, <1>1, <1>2, <1>3, <1>4, <1>6 DEF Next, SourcePump

(* Quotes are opened only by publish_if, with a current lease.             *)
LEMMA AdmissionOpens ==
    ASSUME RuntimeInv, [Next]_vars, ~Admitted, Admitted'
    PROVE  (AdmitSegment \/ AdmitRecovered) /\ LeaseCurrent /\ token'.state = "ready"
<1> USE DEF Admitted
<1>1. token \in Tokens /\ ~CanBegin /\ token' # token
  BY Zenon DEF RuntimeInv, HoldersTyped, CanBegin
<1>2. token # correcting /\ token # publishing /\ token # sampled
  BY Zenon, <1>1, RuntimeAssumption DEF RuntimeInv, HoldersTyped, PublishingToken
<1>3. ~Move(CanBegin, "publishing")
  BY Zenon, <1>1 DEF Move
<1>4. ASSUME NEW allowed \in BOOLEAN, NEW s \in {"invalid", "stopping"} PROVE ~Move(allowed, s)
  BY Zenon, <1>1, <1>4, MoveToken DEF States
<1>5. ASSUME NEW s PROVE /\ ~Move(token = correcting, s) /\ ~Move(token = publishing, s)
                         /\ ~Move(token = sampled, s)
  BY Zenon, <1>1, <1>2 DEF Move
<1>6. CASE SourcePump
  <2>1. CASE Subscribe \/ SubscribeFails \/ Enqueue \/ PublishRequirement
    BY Zenon, <1>1, <2>1 DEF Subscribe, SubscribeFails, Enqueue, PublishRequirement
  <2>2. CASE \E kind \in {"ordinary", "reorg"} : Receive(kind)
    BY Zenon, <1>1, <2>2 DEF Receive
  <2>3. CASE ReceiveCorrection
    BY Zenon, <1>3, <2>3 DEF ReceiveCorrection, Begin
  <2>4. CASE Rest \/ \E kind \in Terminal : Terminate(kind)
    <3>1. Move(~Stopped, "invalid") /\ (~Stopped) \in BOOLEAN
      BY Zenon, <2>4 DEF Rest, Terminate, MarkInactive, InvalidateSourceLease, Stopped
    <3> QED BY Zenon, <3>1, <1>4
  <2> QED BY Zenon, <1>6, <2>1, <2>2, <2>3, <2>4 DEF SourcePump
<1>7. CASE Watchdog
  BY Zenon, <1>1, <1>5, <1>7 DEF Watchdog, SampleToken, BeginExpiration, CompareProgress, FinishExpiration, CompareExchange
<1>8. CASE QuietStep
  BY Zenon, <1>1, <1>8 DEF QuietStep, Dequeue, ObserveSource, ReadLease, RecheckSource, ApplySegment,
     BuildCorrection, Swap, RecordStateUpdate, SignalRecovery, MarkNotReady, StartAttempt,
     SourceIsActive, FetchSnapshot, LoadBackfill, AttemptFails, InstallSnapshot, InstallFails
<1>9. CASE StartCorrection \/ BeginPublication
  BY Zenon, <1>1, <1>3, <1>9 DEF StartCorrection, BeginPublication, Begin
<1>10. CASE ApplyFails \/ CompletePublication \/ CompleteCorrection
  BY Zenon, <1>5, <1>10 DEF ApplyFails, CompletePublication, CompleteCorrection, CompareExchange
<1>11. CASE AdmitSegment \/ AdmitRecovered
  <2> DEFINE publishes == LeaseCurrent /\ token.state \in {"invalid", "expiring"}
  <2>1. publishes \in BOOLEAN /\ Move(publishes, "ready")
    BY Zenon, <1>11 DEF AdmitSegment, AdmitRecovered, PublishIf
  <2> HIDE DEF publishes
  <2>2. publishes /\ token'.state = "ready"
    BY Zenon, <2>1, <1>1, MoveToken DEF States
  <2> QED BY Zenon, <1>11, <2>2 DEF publishes
<1>12. CASE RevokeAvailable \/ Stop
  <2> DEFINE revokes == token.state \notin {"invalid", "stopping"}
             stops == token.state \notin {"stopping", "stopping"}
  <2>1. /\ Move(revokes, "invalid") \/ Move(stops, "stopping")
        /\ revokes \in BOOLEAN /\ stops \in BOOLEAN
    BY Zenon, <1>12 DEF RevokeAvailable, Stop, TransitionToTerminal
  <2> HIDE DEF revokes, stops
  <2> QED BY Zenon, <2>1, <1>4
<1>13. CASE FinishRecovery
  <2> DEFINE dropped == \E i \in Items(segment) : i.admission = token
  <2>1. dropped \in BOOLEAN /\ (token' = token \/ Move(dropped, "invalid"))
    BY Zenon, <1>13 DEF FinishRecovery
  <2> HIDE DEF dropped
  <2> QED BY Zenon, <1>1, <2>1, <1>4
<1>14. CASE UNCHANGED vars
  BY Zenon, <1>1, <1>14 DEF vars
<1> QED BY Zenon, <1>6, <1>7, <1>8, <1>9, <1>10, <1>11, <1>12, <1>13, <1>14 DEF Next, Reducer, QuietStep

(* Moving the token makes the lease stale; what is left current was.       *)
LEMMA LeaseSteps ==
    ASSUME RuntimeInv, [Next]_vars, LeaseCurrent', lease' = lease
    PROVE  token' = token /\ LeaseCurrent
<1>1. lease \in HeldTokens /\ lease \in Tokens \cup {NoToken}
  BY Zenon DEF HeldTokens, RuntimeInv, HoldersTyped
<1>2. token' \in Tokens /\ NoToken \notin Tokens
  BY Zenon, RuntimeStep, RuntimeAssumption DEF RuntimeInv, HoldersTyped
<1>3. token' = token
  BY Zenon, <1>1, <1>2, TokenSteps DEF LeaseCurrent
<1> QED BY Zenon, <1>3 DEF LeaseCurrent, Stopped

(* A recovery keeps quotes closed until its own publication.               *)
LEMMA FenceStep ==
    ASSUME RuntimeInv, PhaseInv, PumpInv, CorrectionInv, FenceInv, [Next]_vars
    PROVE  FenceInv'
<1> USE DEF FenceInv, RecoveryIsFenced, PublishPcs
<1>1. ASSUME ~Admitted, Admitted' PROVE AdmitSegment \/ (AdmitRecovered /\ pc' = "finish")
  BY Zenon, <1>1, AdmissionOpens DEF AdmitRecovered
<1>2. ASSUME lease # token \/ Stopped, lease' = lease PROVE lease' # token' \/ Stopped'
  BY Zenon, <1>2, LeaseSteps DEF LeaseCurrent
<1>3. CASE SourcePump /\ ~PublishRequirement
  <2>1. UNCHANGED <<pc, signal, lease>> /\ ~AdmitSegment /\ ~AdmitRecovered
    BY Zenon, <1>3 DEF SourcePump, Subscribe, SubscribeFails, Receive, ReceiveCorrection, Terminate, Enqueue,
       Rest, reducer, AdmitSegment, AdmitRecovered, source, PumpInv
  <2> QED BY Zenon, <1>1, <1>2, <2>1
<1>4. CASE PublishRequirement
  <2>1. ~active /\ UNCHANGED <<pc, lease, token>>
    BY Zenon, <1>4 DEF PublishRequirement, PumpInv, reducer
  <2>2. ~Admitted /\ (pc # "recheck" => lease # token \/ Stopped)
    BY Zenon, <2>1 DEF RuntimeInv, AdmittedWhileConnected, LeaseIsLive
  <2> QED BY Zenon, <2>1, <2>2 DEF Admitted, Stopped
<1>5. CASE Watchdog \/ Stop \/ UNCHANGED vars
  <2>1. UNCHANGED <<pc, signal, lease>>
    BY Zenon, <1>5 DEF Watchdog, SampleToken, BeginExpiration, CompareProgress, FinishExpiration, Stop, vars, reducer
  <2>2. ~AdmitSegment /\ ~AdmitRecovered
    BY Zenon, <2>1 DEF AdmitSegment, AdmitRecovered
  <2> QED BY Zenon, <1>1, <1>2, <2>1, <2>2
<1>6. CASE ObserveSource \/ ReadLease \/ RecheckSource \/ SourceIsActive \/ AttemptFails
  BY Zenon, <1>6 DEF ObserveSource, ReadLease, RecheckSource, WithLease, SourceIsActive, AttemptFails, Admitted
<1>7. CASE Dequeue \/ ApplySegment \/ BuildCorrection \/ SignalRecovery
  BY Zenon, <1>7 DEF Dequeue, ApplySegment, BuildCorrection, SignalRecovery, PhaseInv, LivePcs, Admitted
<1>8. CASE Swap \/ RecordStateUpdate
  BY Zenon, <1>8 DEF Swap, RecordStateUpdate, Admitted, Stopped
<1>9. CASE MarkNotReady
  BY Zenon, <1>9, RuntimeAssumption DEF MarkNotReady, PhaseInv, RuntimeInv, HoldersTyped, Admitted
<1>10. CASE StartAttempt \/ FetchSnapshot \/ LoadBackfill \/ InstallSnapshot \/ InstallFails
  BY Zenon, <1>10 DEF StartAttempt, FetchSnapshot, LoadBackfill, InstallSnapshot, InstallFails, MergeControl,
     PhaseInv, Admitted
<1>11. CASE BeginPublication \/ CompletePublication
  <2>1. lease' = lease /\ signal' = signal /\ pc \in {"begin", "complete"}
        /\ pc' \in {"swap", "record", "merge", "failing"} /\ ~AdmitSegment /\ ~AdmitRecovered
    BY Zenon, <1>11 DEF BeginPublication, CompletePublication, AdmitSegment, AdmitRecovered
  <2> QED BY Zenon, <1>1, <1>2, <2>1
<1>12. CASE StartCorrection \/ ApplyFails \/ AdmitSegment \/ CompleteCorrection
  BY Zenon, <1>12 DEF StartCorrection, ApplyFails, AdmitSegment, CompleteCorrection, PhaseInv, LivePcs
<1>13. CASE AdmitRecovered
  <2>1. /\ pc = "admit" /\ signal.active /\ signal' = signal
        /\ pc' = IF LeaseCurrent THEN "finish" ELSE "merge"
    BY Zenon, <1>13 DEF AdmitRecovered
  <2>2. ~Admitted /\ (signal.changed => ~LeaseCurrent)
    BY Zenon, <2>1 DEF LeaseCurrent
  <2>3. Admitted' => LeaseCurrent
    BY Zenon, <2>2, AdmissionOpens
  <2> QED BY Zenon, <2>1, <2>2, <2>3
<1>14. CASE RevokeAvailable
  <2> DEFINE revokes == token.state \notin {"invalid", "stopping"}
  <2>1. revokes \in BOOLEAN /\ Move(revokes, "invalid") /\ pc' = "unready"
    BY Zenon, <1>14 DEF RevokeAvailable, TransitionToTerminal
  <2>2. ~revokes => ~Admitted
    BY Zenon DEF Admitted
  <2> HIDE DEF revokes
  <2>3. ~Admitted'
    BY Zenon, <2>1, <2>2, MoveFacts DEF Admitted, States
  <2> QED BY Zenon, <2>1, <2>3
<1>15. CASE FinishRecovery
  <2>1. CASE signal.changed
    BY Zenon, <1>15, <2>1, FinishFacts DEF Admitted, PhaseInv, RecoveryPcs
  <2>2. CASE ~signal.changed
    BY <1>15, <2>2, FinishFacts
  <2> QED BY Zenon, <2>1, <2>2
<1> QED BY SMTT(30), <1>3, <1>4, <1>5, <1>6, <1>7, <1>8, <1>9, <1>10, <1>11, <1>12, <1>13, <1>14, <1>15
        DEF Next, SourcePump, Reducer


(* The pump, the watchdog and the fence leave the reducer's state alone.   *)
LEMMA OtherTasks ==
    ASSUME PhaseInv, SourcePump \/ Watchdog \/ Stop \/ UNCHANGED vars
    PROVE  /\ UNCHANGED <<snapshot, pc, segment, lease, correcting, publishing, candidate>>
           /\ signal'.active = signal.active
<1>1. CASE SourcePump
  BY Zenon, <1>1 DEF SourcePump, Subscribe, SubscribeFails, Receive, ReceiveCorrection, Terminate, Enqueue,
     PublishRequirement, Rest, reducer, PhaseInv
<1>2. CASE Watchdog \/ Stop \/ UNCHANGED vars
  BY Zenon, <1>2 DEF Watchdog, SampleToken, BeginExpiration, CompareProgress, FinishExpiration, Stop, vars, reducer
<1> QED BY Zenon, <1>1, <1>2

(* CorrectionProgress::start moves the admission of the queued update to   *)
(* the reducer and changes nothing else of the segment.                    *)
LEMMA StartFacts ==
    ASSUME RuntimeInv, PhaseInv, StartCorrection
    PROVE  /\ pc = "apply" /\ ~signal.active
           /\ segment \in Seq(LeasedItem) /\ segment # <<>> /\ segment[1].kind = "correction"
           /\ Len(segment') = Len(segment)
           /\ \A i \in 1..Len(segment) :
                 /\ segment'[i].kind = segment[i].kind
                 /\ segment'[i].connection = segment[i].connection
                 /\ i # 1 => segment'[i].admission = segment[i].admission
           /\ segment'[1].admission = NoToken
<1>1. /\ pc = "apply" /\ ~signal.active /\ segment # <<>>
      /\ segment \in Seq(LeasedItem) /\ segment[1].kind = "correction"
  BY Zenon DEF StartCorrection, SegmentKind, RuntimeInv, HoldersTyped, PhaseInv, LivePcs
<1>2. 1 \in 1..Len(segment) /\ segment[1] \in LeasedItem
  BY <1>1
<1>3. CASE segment[1].admission = NoToken
  BY Zenon, <1>1, <1>2, <1>3 DEF StartCorrection
<1>4. CASE segment[1].admission # NoToken
  <2>1. segment' = [segment EXCEPT ![1] = [segment[1] EXCEPT !.admission = NoToken]]
    BY Zenon, <1>4 DEF StartCorrection
  <2>2. segment'[1] = [segment[1] EXCEPT !.admission = NoToken] /\ Len(segment') = Len(segment)
        /\ \A i \in 1..Len(segment) : i # 1 => segment'[i] = segment[i]
    BY <2>1, <1>1, <1>2
  <2>3. segment'[1].kind = segment[1].kind /\ segment'[1].connection = segment[1].connection
        /\ segment'[1].admission = NoToken
    BY Zenon, <2>2, <1>2 DEF LeasedItem
  <2> QED BY Zenon, <1>1, <2>2, <2>3
<1> QED BY Zenon, <1>3, <1>4

(* The live segment: one update or a run of ordinary ones, continuous with *)
(* the published state, which is ready until the segment suspends it.      *)
LEMMA SegmentStep ==
    ASSUME RuntimeInv, PhaseInv, SegmentInv, CorrectionInv, RecoveredInv, ContinuityInv, [Next]_vars
    PROVE  SegmentInv'
<1> USE DEF SegmentInv, Suspends, Terminal
<1>1. CASE SourcePump \/ Watchdog \/ Stop \/ UNCHANGED vars
  BY Zenon, <1>1, OtherTasks
<1>2. CASE Dequeue
  <2>1. PICK n \in 1..Len(queue) :
            /\ n > 1 => \A i \in 1..n : queue[i].kind = "ordinary"
            /\ segment' = SubSeq(queue, 1, n)
            /\ queue' = SubSeq(queue, n + 1, Len(queue))
    BY Zenon, <1>2 DEF Dequeue
  <2>2. queue \in Seq(LeasedItem) /\ ~signal.active /\ segment = <<>>
    BY Zenon, <1>2 DEF Dequeue, RuntimeInv, HoldersTyped, PhaseInv, LivePcs
  <2>3. Len(segment') = n /\ \A i \in 1..n : segment'[i] = queue[i]
    BY <2>1, <2>2
  <2>4. ASSUME NEW i \in 1..n PROVE queue[i].connection = snapshot.connection
    <3>1. ~LiveTerminal
      BY <2>2 DEF LiveTerminal, HasTerminal
    <3>2. \A j \in 1..(i - 1) : queue[j].kind \notin Terminal
      BY <2>1, <2>2, <2>4
    <3> QED BY <2>1, <2>2, <3>1, <3>2 DEF ContinuityInv, Settled, Announced
  <2>5. pc' = "observe" /\ snapshot' = snapshot /\ snapshot.ready
    BY Zenon, <1>2 DEF Dequeue
  <2> QED BY <2>1, <2>2, <2>3, <2>4, <2>5
<1>3. CASE ObserveSource \/ ReadLease \/ RecheckSource
  BY Zenon, <1>3 DEF ObserveSource, ReadLease, RecheckSource, WithLease
<1>4. CASE ApplySegment
  <2>1. segment[1] \in LeasedItem /\ segment[1].kind # "correction" /\ pc = "apply"
    BY <1>4 DEF ApplySegment, SegmentKind, RuntimeInv, HoldersTyped
  <2>2. candidate'.connection = snapshot.connection /\ (candidate'.ready <=> ~Suspends(segment[1]))
    BY Zenon, <1>4, <2>1 DEF ApplySegment, SegmentKind, PhaseInv, LivePcs, Snapshot, LeasedItem
  <2> QED BY Zenon, <1>4, <2>1, <2>2 DEF ApplySegment
<1>5. CASE BuildCorrection \/ Swap \/ RecordStateUpdate
  BY Zenon, <1>5 DEF BuildCorrection, Swap, RecordStateUpdate, PhaseInv, Snapshot
<1>6. CASE SignalRecovery \/ MarkNotReady \/ StartAttempt \/ SourceIsActive \/ AttemptFails
  BY Zenon, <1>6 DEF SignalRecovery, MarkNotReady, StartAttempt, SourceIsActive, AttemptFails, MergeControl,
     PhaseInv, RecoveryPcs
<1>7. CASE FetchSnapshot \/ LoadBackfill \/ InstallSnapshot \/ InstallFails
  BY Zenon, <1>7 DEF FetchSnapshot, LoadBackfill, InstallSnapshot, InstallFails, MergeControl, PhaseInv, RecoveryPcs
<1>8. CASE StartCorrection
  <2>1. pc' \in {"failing", "build"} /\ UNCHANGED <<signal, snapshot>>
    BY Zenon, <1>8 DEF StartCorrection
  <2> QED BY <1>8, <2>1, StartFacts
<1>9. CASE ApplyFails \/ BeginPublication
  BY Zenon, <1>9 DEF ApplyFails, BeginPublication
<1>12. CASE CompletePublication
  BY Zenon, <1>12 DEF CompletePublication, PhaseInv
<1>13. CASE AdmitSegment
  BY Zenon, <1>13 DEF AdmitSegment
<1>14. CASE CompleteCorrection
  <2>1. pc' = "idle" \/ (pc' = "failing" /\ segment' = segment)
    BY Zenon, <1>14 DEF CompleteCorrection
  <2> QED BY Zenon, <1>14, <2>1 DEF CompleteCorrection, PhaseInv, LivePcs
<1>10. CASE RevokeAvailable \/ AdmitRecovered
  BY Zenon, <1>10 DEF RevokeAvailable, AdmitRecovered, PhaseInv, RecoveryPcs
<1>11. CASE FinishRecovery
  <2>1. CASE signal.changed
    BY Zenon, <1>11, <2>1, FinishFacts DEF PhaseInv, RecoveryPcs
  <2>2. CASE ~signal.changed
    BY Zenon, <1>11, <2>2, FinishFacts DEF PhaseInv, RecoveryPcs, RecoveredInv
  <2> QED BY Zenon, <2>1, <2>2
<1> QED BY Zenon, <1>1, <1>2, <1>3, <1>4, <1>5, <1>6, <1>7, <1>8, <1>9, <1>10, <1>11, <1>12, <1>13, <1>14
        DEF Next, Reducer

(* A correction owns its admission from start to completion.               *)
LEMMA CorrectionStep ==
    ASSUME RuntimeInv, PhaseInv, SegmentInv, CorrectionInv, [Next]_vars
    PROVE  CorrectionInv'
<1> USE DEF CorrectionInv, PublishPcs
<1>1. CASE SourcePump \/ Watchdog \/ Stop \/ UNCHANGED vars
  BY Zenon, <1>1, OtherTasks
<1>2. CASE Dequeue \/ ObserveSource \/ ReadLease \/ RecheckSource \/ SignalRecovery
  BY Zenon, <1>2 DEF Dequeue, ObserveSource, ReadLease, RecheckSource, WithLease, SignalRecovery
<1>3. CASE ApplySegment \/ BuildCorrection \/ Swap \/ RecordStateUpdate
  BY Zenon, <1>3 DEF ApplySegment, SegmentKind, BuildCorrection, Swap, RecordStateUpdate
<1>4. CASE MarkNotReady \/ StartAttempt \/ SourceIsActive \/ AttemptFails
  BY Zenon, <1>4 DEF MarkNotReady, StartAttempt, SourceIsActive, AttemptFails, MergeControl, PhaseInv, RecoveryPcs
<1>5. CASE FetchSnapshot \/ LoadBackfill \/ InstallSnapshot \/ InstallFails
  BY Zenon, <1>5 DEF FetchSnapshot, LoadBackfill, InstallSnapshot, InstallFails, MergeControl, PhaseInv, RecoveryPcs
<1>6. CASE StartCorrection
  <2>1. pc' = (IF correcting' = NoToken THEN "failing" ELSE "build") /\ signal' = signal
    BY Zenon, <1>6 DEF StartCorrection
  <2> QED BY <1>6, <2>1, StartFacts
<1>7. CASE ApplyFails \/ BeginPublication \/ AdmitSegment \/ CompleteCorrection
  BY Zenon, <1>7 DEF ApplyFails, BeginPublication, AdmitSegment, CompleteCorrection, PhaseInv, LivePcs
<1>8. CASE CompletePublication
  BY Zenon, <1>8 DEF CompletePublication, SegmentInv, Suspends, Terminal, PhaseInv
<1>9. CASE RevokeAvailable \/ AdmitRecovered
  BY Zenon, <1>9 DEF RevokeAvailable, AdmitRecovered
<1>10. CASE FinishRecovery
  BY Zenon, <1>10, FinishFacts
<1> QED BY Zenon, <1>1, <1>2, <1>3, <1>4, <1>5, <1>6, <1>7, <1>8, <1>9, <1>10 DEF Next, Reducer

(* The elements of c are those of s and then those of u.                   *)
Joins(c, s, u) ==
    /\ \A i \in 1..Len(c) :
          \/ i \in 1..Len(s) /\ c[i] = s[i]
          \/ i > Len(s) /\ i - Len(s) \in 1..Len(u) /\ c[i] = u[i - Len(s)]
    /\ \A i \in 1..Len(s) : i \in 1..Len(c) /\ c[i] = s[i]
    /\ \A i \in 1..Len(u) : i + Len(s) \in 1..Len(c) /\ c[i + Len(s)] = u[i]

(* The elements of two sequences, joined.                                  *)
LEMMA JoinedElements ==
    ASSUME NEW S, NEW s \in Seq(S), NEW u \in Seq(S)
    PROVE  Joins(s \o u, s, u)
<1> DEFINE c == s \o u
<1>1. Len(s) \in Nat /\ Len(u) \in Nat
  OBVIOUS
<1>2. Len(c) = Len(s) + Len(u)
  OBVIOUS
<1>3. \A i \in 1..(Len(s) + Len(u)) : c[i] = IF i <= Len(s) THEN s[i] ELSE u[i - Len(s)]
  OBVIOUS
<1> HIDE DEF c
<1>4. ASSUME NEW i \in 1..Len(c)
      PROVE  \/ i \in 1..Len(s) /\ c[i] = s[i]
             \/ i > Len(s) /\ i - Len(s) \in 1..Len(u) /\ c[i] = u[i - Len(s)]
  BY <1>1, <1>2, <1>3
<1>5. ASSUME NEW i \in 1..Len(s) PROVE i \in 1..Len(c) /\ c[i] = s[i]
  BY <1>1, <1>2, <1>3
<1>6. ASSUME NEW i \in 1..Len(u) PROVE i + Len(s) \in 1..Len(c) /\ c[i + Len(s)] = u[i]
  <2>1. i + Len(s) \in 1..(Len(s) + Len(u)) /\ ~(i + Len(s) <= Len(s)) /\ i + Len(s) - Len(s) = i
    BY <1>1
  <2> QED BY <1>2, <1>3, <2>1
<1> QED BY Zenon, <1>4, <1>5, <1>6 DEF c, Joins

(* Two sequences of one length with the same elements are the same.        *)
LEMMA SameElements ==
    ASSUME NEW S, NEW s \in Seq(S), NEW c \in Seq(S), Len(c) = Len(s), \A i \in 1..Len(s) : c[i] = s[i]
    PROVE  c = s
OBVIOUS

(* The elements of a concatenation.                                        *)
LEMMA ConcatElements ==
    ASSUME NEW S, NEW a \in Seq(S), NEW b \in Seq(S)
    PROVE  /\ a \o b \in Seq(S) /\ Len(a \o b) = Len(a) + Len(b)
           /\ \A i \in 1..Len(a) : (a \o b)[i] = a[i]
           /\ \A i \in (Len(a) + 1)..(Len(a) + Len(b)) : (a \o b)[i] = b[i - Len(a)]
OBVIOUS

(* A queue split after its first n updates.                                *)
LEMMA SplitQueue ==
    ASSUME NEW S, NEW s \in Seq(S), NEW n \in 1..Len(s)
    PROVE  /\ SubSeq(s, 1, n) \in Seq(S) /\ SubSeq(s, n + 1, Len(s)) \in Seq(S)
           /\ s = SubSeq(s, 1, n) \o SubSeq(s, n + 1, Len(s))
<1>0. n \in Nat /\ Len(s) \in Nat /\ n <= Len(s)
  OBVIOUS
<1>1. PICK a : a = SubSeq(s, 1, n)
  BY Zenon
<1>2. PICK b : b = SubSeq(s, n + 1, Len(s))
  BY Zenon
<1>3. a \in Seq(S) /\ Len(a) = n
  BY <1>0, <1>1
<1>a. \A i \in 1..n : a[i] = s[i]
  BY <1>0, <1>1
<1>4. b \in Seq(S) /\ Len(b) = Len(s) - n 
  BY <1>0, <1>2
<1>5. \A i \in 1..(Len(s) - n) : b[i] = s[n + i]
  BY <1>0, <1>2
<1>6. Len(a \o b) = Len(s) /\ a \o b \in Seq(S)
  BY <1>0, <1>3, <1>4, ConcatElements
<1>7. ASSUME NEW i \in 1..Len(s) PROVE (a \o b)[i] = s[i]
  <2>1. CASE i \in 1..n
    <3>1. (a \o b)[i] = a[i]
      BY Zenon, <1>3, <1>4, <2>1, ConcatElements
    <3> QED BY Zenon, <1>a, <2>1, <3>1
  <2>2. CASE i \notin 1..n
    <3>1. i - n \in 1..(Len(s) - n) /\ n + (i - n) = i /\ i \in (Len(a) + 1)..(Len(a) + Len(b))
      BY <1>0, <1>3, <1>4, <2>2
    <3>2. (a \o b)[i] = b[i - n]
      BY Zenon, <1>3, <1>4, <3>1, ConcatElements
    <3>3. b[i - n] = s[n + (i - n)]
      BY Zenon, <1>5, <3>1
    <3> QED BY Zenon, <3>1, <3>2, <3>3
  <2> QED BY Zenon, <2>1, <2>2
<1>8. a \o b = s
  BY Zenon, <1>6, <1>7, SameElements
<1> QED BY Zenon, <1>1, <1>2, <1>3, <1>4, <1>8

(* Gaps in joined sequences, and what they announce.                       *)
LEMMA JoinedGaps ==
    ASSUME NEW s \in Seq(LeasedItem), NEW u \in Seq(LeasedItem), NEW c
    PROVE  /\ HasTerminal(s \o u) <=> HasTerminal(s) \/ HasTerminal(u)
           /\ Announced(s \o u, c) /\ ~HasTerminal(s) => Announced(u, c)
           /\ /\ Announced(s, c)
              /\ HasTerminal(s) \/ \A i \in 1..Len(u) : u[i].connection = c
              => Announced(s \o u, c)
<1> DEFINE j == s \o u
<1>1. Len(s) \in Nat /\ Len(u) \in Nat
  OBVIOUS
<1>2. Joins(j, s, u)
  BY Zenon, JoinedElements
<1> HIDE DEF j
<1>3. HasTerminal(j) <=> HasTerminal(s) \/ HasTerminal(u)
  BY Zenon, <1>2 DEF HasTerminal, Joins
<1>4. ASSUME Announced(j, c), ~HasTerminal(s), NEW i \in 1..Len(u), u[i].connection # c
      PROVE  \E k \in 1..(i - 1) : u[k].kind \in Terminal
  <2>1. i + Len(s) \in 1..Len(j) /\ j[i + Len(s)].connection # c
    BY Zenon, <1>2, <1>4 DEF Joins
  <2>2. PICK k \in 1..(i + Len(s) - 1) : j[k].kind \in Terminal
    BY <1>4, <2>1 DEF Announced
  <2>3. k \in 1..Len(j)
    BY <1>1, <2>1
  <2>4. k > Len(s) /\ k - Len(s) \in 1..Len(u) /\ u[k - Len(s)].kind \in Terminal
    BY Zenon, <1>2, <1>4, <2>2, <2>3 DEF HasTerminal, Joins
  <2>5. k - Len(s) \in 1..(i - 1)
    BY <1>1, <2>2, <2>4
  <2> QED BY Zenon, <2>4, <2>5
<1>5. ASSUME Announced(s, c), HasTerminal(s) \/ \A i \in 1..Len(u) : u[i].connection = c,
             NEW i \in 1..Len(j), j[i].connection # c
      PROVE  \E k \in 1..(i - 1) : j[k].kind \in Terminal
  <2>1. CASE i \in 1..Len(s) /\ j[i] = s[i]
    <3>1. PICK k \in 1..(i - 1) : s[k].kind \in Terminal
      BY Zenon, <1>5, <2>1 DEF Announced
    <3>2. k \in 1..Len(s)
      BY <1>1, <2>1
    <3> QED BY Zenon, <1>2, <3>1, <3>2 DEF Joins
  <2>2. CASE i > Len(s) /\ i - Len(s) \in 1..Len(u) /\ j[i] = u[i - Len(s)]
    <3>1. PICK k \in 1..Len(s) : s[k].kind \in Terminal
      BY Zenon, <1>5, <2>2 DEF HasTerminal
    <3>2. k \in 1..(i - 1) /\ j[k] = s[k]
      BY <1>1, <1>2, <2>2 DEF Joins
    <3> QED BY Zenon, <3>1, <3>2
  <2> QED BY Zenon, <1>2, <2>1, <2>2 DEF Joins
<1> QED BY Zenon, <1>3, <1>4, <1>5 DEF Announced, j

(* What the queue gains: an update of the present subscription.            *)
LEMMA EnqueueFacts ==
    ASSUME RuntimeInv, PumpInv, Enqueue
    PROVE  /\ queue \in Seq(LeasedItem) /\ outgoing \in Seq(LeasedItem) /\ queue' = queue \o outgoing
           /\ Len(outgoing) = 1 /\ outgoing[1].connection = connection /\ connection' = connection
           /\ \A i \in 1..Len(queue) : i \in 1..Len(queue') /\ queue'[i] = queue[i]
           /\ \A i \in 1..Len(queue') : (i \in 1..Len(queue) /\ queue'[i] = queue[i]) \/ queue'[i] = outgoing[1]
<1>1. queue \in Seq(LeasedItem) /\ outgoing \in Seq(LeasedItem) /\ queue' = queue \o outgoing
  BY Zenon DEF RuntimeInv, HoldersTyped, Enqueue
<1>2. Len(outgoing) = 1 /\ outgoing[1].connection = connection /\ connection' = connection
  BY Zenon DEF PumpInv, Enqueue
<1>3. Joins(queue', queue, outgoing)
  BY Zenon, <1>1, JoinedElements
<1>4. ASSUME NEW k \in 1..Len(outgoing) PROVE k = 1
  BY <1>2
<1> QED BY Zenon, <1>1, <1>2, <1>3, <1>4 DEF Joins

(* A recovered state that may still be admitted belongs to the present     *)
(* subscription, as do the updates queued behind it.                       *)
LEMMA RecoveredStep ==
    ASSUME RuntimeInv, PhaseInv, PumpInv, SegmentInv, FenceInv, CorrectionInv, RecoveredInv, [Next]_vars
    PROVE  RecoveredInv'
<1> USE DEF RecoveredInv, PublishPcs
<1>1. CASE SourcePump \/ Watchdog \/ Stop \/ UNCHANGED vars
  <2>1. /\ UNCHANGED <<snapshot, pc, segment, lease, correcting, publishing, candidate>>
        /\ signal'.active = signal.active
    BY Zenon, <1>1, OtherTasks
  <2>2. LeaseCurrent' => LeaseCurrent
    BY Zenon, <2>1, LeaseSteps
  <2>3. ~AdmitSegment /\ ~AdmitRecovered
    BY Zenon, <2>1 DEF AdmitSegment, AdmitRecovered
  <2>4. Admitted' => Admitted
    BY Zenon, <2>3, AdmissionOpens
  <2>5. CASE Subscribe
    <3>1. ~active /\ ~Admitted /\ (pc # "recheck" => ~LeaseCurrent)
      BY Zenon, <2>5 DEF Subscribe, PumpInv, RuntimeInv, AdmittedWhileConnected, LeaseIsLive, LeaseCurrent
    <3> QED BY Zenon, <2>1, <2>2, <2>4, <3>1
  <2>6. CASE Enqueue
    <3>1. connection' = connection
      BY Zenon, <2>6 DEF Enqueue
    <3>2. ASSUME \A i \in 1..Len(queue) : queue[i].connection = connection
          PROVE  \A i \in 1..Len(queue') : queue'[i].connection = connection
      BY Zenon, <2>6, <3>2, EnqueueFacts
    <3> QED BY Zenon, <2>1, <2>2, <2>4, <3>1, <3>2
  <2>7. CASE ~Subscribe /\ ~Enqueue
    <3>1. UNCHANGED <<connection, queue>>
      BY Zenon, <1>1, <2>7 DEF SourcePump, SubscribeFails, Receive, ReceiveCorrection, Terminate,
         PublishRequirement, Rest, Watchdog, SampleToken, BeginExpiration, CompareProgress,
         FinishExpiration, Stop, vars, source
    <3> QED BY Zenon, <2>1, <2>2, <2>4, <3>1
  <2> QED BY Zenon, <2>5, <2>6, <2>7
<1>2. CASE Dequeue \/ ApplySegment \/ BuildCorrection \/ StartCorrection \/ ApplyFails
           \/ AdmitSegment \/ CompleteCorrection
  <2>1. ~signal.active /\ signal' = signal
    BY Zenon, <1>2 DEF Dequeue, ApplySegment, BuildCorrection, StartCorrection, ApplyFails, AdmitSegment,
       CompleteCorrection, PhaseInv, LivePcs
  <2> QED BY Zenon, <2>1
<1>3. CASE ObserveSource \/ ReadLease \/ RecheckSource \/ SignalRecovery \/ StartAttempt
           \/ SourceIsActive \/ AttemptFails \/ RevokeAvailable \/ InstallFails
  <2>1. pc' \notin {"backfill", "install", "begin", "swap", "complete", "record", "admit", "finish"}
    BY Zenon, <1>3 DEF ObserveSource, ReadLease, RecheckSource, WithLease, SignalRecovery, StartAttempt,
       SourceIsActive, AttemptFails, RevokeAvailable, InstallFails
  <2> QED BY Zenon, <2>1
<1>4. CASE MarkNotReady
  BY Zenon, <1>4 DEF MarkNotReady, PhaseInv, Snapshot
<1>5. CASE FetchSnapshot
  <2>1. /\ pc' = "backfill" /\ candidate' = [ready |-> TRUE, connection |-> connection]
        /\ queue' = <<>> /\ connection' = connection
    BY Zenon, <1>5 DEF FetchSnapshot, Absorb, source
  <2> QED BY <2>1
<1>6. CASE LoadBackfill \/ InstallSnapshot
  <2>1. /\ pc \in {"backfill", "install"} /\ pc' \in {"install", "begin"}
        /\ UNCHANGED <<token, lease, candidate, connection>> /\ queue' = <<>>
        /\ signal.active
    BY Zenon, <1>6 DEF LoadBackfill, InstallSnapshot, Absorb, source, PhaseInv, RecoveryPcs
  <2>2. LeaseCurrent' => LeaseCurrent
    BY Zenon, <2>1 DEF LeaseCurrent, Stopped
  <2> QED BY <2>1, <2>2
<1>7. CASE BeginPublication \/ Swap \/ CompletePublication \/ RecordStateUpdate
  <2>1. UNCHANGED <<lease, candidate, connection, queue, signal>>
    BY Zenon, <1>7 DEF BeginPublication, Swap, CompletePublication, RecordStateUpdate, source
  <2>2. LeaseCurrent' => LeaseCurrent
    BY Zenon, <2>1, LeaseSteps
  <2>3. /\ pc \in {"begin", "swap", "complete", "record"} /\ pc' \notin {"backfill", "install", "finish"}
        /\ pc' \in {"record", "admit"} => (candidate.ready /\ snapshot' = candidate) \/ ~signal.active
    BY Zenon, <1>7 DEF BeginPublication, Swap, CompletePublication, RecordStateUpdate, SegmentInv
  <2> QED BY Zenon, <2>1, <2>2, <2>3
<1>8. CASE AdmitRecovered
  <2>1. /\ pc = "admit" /\ signal.active /\ signal' = signal
        /\ pc' = IF LeaseCurrent THEN "finish" ELSE "merge"
        /\ UNCHANGED <<snapshot, connection>>
    BY Zenon, <1>8 DEF AdmitRecovered, source
  <2> QED BY Zenon, <2>1
<1>9. CASE FinishRecovery
  BY SMTT(30), <1>9, FinishFacts
<1> QED BY Zenon, <1>1, <1>2, <1>3, <1>4, <1>5, <1>6, <1>7, <1>8, <1>9 DEF Next, Reducer

(* The live segment holds no Gap once it was applied.                      *)
LEMMA AppliedSegment ==
    ASSUME RuntimeInv, SegmentInv, ~signal.active, pc \in {"admit", "correct"}
    PROVE  /\ \A i \in 1..Len(segment) : ~Suspends(segment[i])
           /\ ~HasTerminal(segment)
<1>1. segment \in Seq(LeasedItem) /\ segment # <<>>
  BY Zenon DEF RuntimeInv, HoldersTyped
<1>2. \A i \in 1..Len(segment) : ~Suspends(segment[i])
  BY <1>1 DEF SegmentInv, Suspends, Terminal
<1> QED BY Zenon, <1>2 DEF Suspends, HasTerminal

(* A disconnect is known to the reducer before anything that follows it.   *)
LEMMA ContinuityStep ==
    ASSUME RuntimeInv, PhaseInv, PumpInv, SegmentInv, CorrectionInv, RecoveredInv, ContinuityInv, [Next]_vars
    PROVE  ContinuityInv'
<1> USE DEF ContinuityInv, Settled, LiveTerminal
<1>1. CASE SourcePump
  <2>1. /\ UNCHANGED <<snapshot, pc, segment>> /\ signal'.active = signal.active
        /\ Settled' => Settled
    <3>1. /\ UNCHANGED <<snapshot, pc, segment>> /\ signal'.active = signal.active
      BY Zenon, <1>1, OtherTasks
    <3>2. signal'.changed \/ signal' = signal
      BY Zenon, <1>1 DEF SourcePump, Subscribe, SubscribeFails, Receive, ReceiveCorrection, Terminate, Enqueue,
         PublishRequirement, Rest, PhaseInv
    <3> QED BY Zenon, <3>1, <3>2
  <2>2. CASE Subscribe \/ Rest
    BY Zenon, <2>1, <2>2 DEF Subscribe, Rest
  <2>3. CASE PublishRequirement
    <3>1. ~Settled'
      BY Zenon, <2>1, <2>3 DEF PublishRequirement, PhaseInv
    <3> QED BY Zenon, <3>1
  <2>4. CASE SubscribeFails \/ ReceiveCorrection
    BY Zenon, <2>1, <2>4 DEF SubscribeFails, ReceiveCorrection
  <2>5. CASE \E kind \in {"ordinary", "reorg"} : Receive(kind)
    BY Zenon, <2>1, <2>5 DEF Receive
  <2>6. CASE \E kind \in Terminal : Terminate(kind)
    BY Zenon, <2>1, <2>6 DEF Terminate
  <2>7. CASE Enqueue
    <3>1. connection' = connection /\ pump = "send" /\ pump' = IF IsTerminal THEN "delay" ELSE "stream"
      BY Zenon, <2>7 DEF Enqueue, AfterSend
    <3>q. /\ queue \in Seq(LeasedItem) /\ outgoing \in Seq(LeasedItem) /\ queue' = queue \o outgoing
          /\ Len(outgoing) = 1 /\ outgoing[1].connection = connection
      BY Zenon, <2>7, EnqueueFacts
    <3>2. HasTerminal(queue') <=> HasTerminal(queue) \/ HasTerminal(outgoing)
      BY Zenon, <3>q, JoinedGaps
    <3>3. IsTerminal => HasTerminal(outgoing)
      <4>1. 1 \in 1..Len(outgoing)
        BY <3>q
      <4> QED BY Zenon, <4>1 DEF IsTerminal, HasTerminal
    <3>4. ASSUME snapshot.connection = connection
          PROVE  \A i \in 1..Len(outgoing) : outgoing[i].connection = snapshot.connection
      BY <3>q, <3>4
    <3>5. ASSUME Announced(queue, snapshot.connection), HasTerminal(queue) \/ snapshot.connection = connection
          PROVE  Announced(queue', snapshot.connection)
      BY Zenon, <3>q, <3>4, <3>5, JoinedGaps
    <3> QED BY Zenon, <2>1, <3>1, <3>2, <3>3, <3>5
  <2> QED BY Zenon, <1>1, <2>2, <2>3, <2>4, <2>5, <2>6, <2>7 DEF SourcePump
<1>2. CASE Watchdog \/ Stop \/ UNCHANGED vars
  BY Zenon, <1>2 DEF Watchdog, SampleToken, BeginExpiration, CompareProgress, FinishExpiration, Stop, vars, reducer, source

<1>3. CASE Dequeue
  <2>1. PICK n \in 1..Len(queue) :
            segment' = SubSeq(queue, 1, n) /\ queue' = SubSeq(queue, n + 1, Len(queue))
    BY Zenon, <1>3 DEF Dequeue
  <2>2. queue \in Seq(LeasedItem) /\ ~signal.active /\ ~LiveTerminal
    <3>1. pc = "idle"
      BY Zenon, <1>3 DEF Dequeue
    <3>2. segment = <<>> /\ ~signal.active
      BY Zenon, <3>1 DEF PhaseInv, LivePcs
    <3>3. queue \in Seq(LeasedItem)
      BY Zenon DEF RuntimeInv, HoldersTyped
    <3>4. ~HasTerminal(<<>>)
      BY DEF HasTerminal
    <3> QED BY Zenon, <3>2, <3>3, <3>4
  <2>3. /\ segment' \in Seq(LeasedItem) /\ queue' \in Seq(LeasedItem) /\ queue = segment' \o queue'
    BY Zenon, <2>1, <2>2, SplitQueue
  <2>4. UNCHANGED <<signal, snapshot, connection, pump>>
    BY Zenon, <1>3 DEF Dequeue, source
  <2>5. HasTerminal(queue) <=> HasTerminal(segment') \/ HasTerminal(queue')
    BY Zenon, <2>3, JoinedGaps
  <2>6. Announced(queue, snapshot.connection) /\ ~HasTerminal(segment') => Announced(queue', snapshot.connection)
    BY Zenon, <2>3, JoinedGaps
  <2> QED BY Zenon, <2>2, <2>4, <2>5, <2>6
<1>4. CASE ObserveSource \/ ReadLease \/ RecheckSource \/ ApplySegment \/ BuildCorrection \/ RecordStateUpdate
  <2>1. UNCHANGED <<queue, signal, snapshot, connection, pump, segment>> /\ pc # "finish" /\ pc' # "finish"
    BY Zenon, <1>4 DEF ObserveSource, ReadLease, RecheckSource, WithLease, ApplySegment, BuildCorrection,
       RecordStateUpdate, source
  <2> QED BY Zenon, <2>1
<1>5. CASE ApplyFails \/ BeginPublication \/ CompletePublication
  <2>1. UNCHANGED <<queue, signal, snapshot, connection, pump, segment>> /\ pc # "finish" /\ pc' # "finish"
    BY Zenon, <1>5 DEF ApplyFails, BeginPublication, CompletePublication, source
  <2> QED BY Zenon, <2>1
<1>6. CASE Swap
  <2>1. UNCHANGED <<queue, signal, connection, pump, segment>> /\ pc' # "finish"
    BY Zenon, <1>6 DEF Swap, source
  <2>2. ~signal.active => snapshot'.connection = snapshot.connection
    BY SMTT(30), <1>6 DEF Swap, SegmentInv
  <2> QED BY Zenon, <2>1, <2>2
<1>7. CASE StartCorrection
  <2>1. UNCHANGED <<queue, signal, snapshot, connection, pump>> /\ pc' # "finish"
    BY Zenon, <1>7 DEF StartCorrection, source
  <2>2. HasTerminal(segment) => HasTerminal(segment')
    BY Zenon, <1>7, StartFacts DEF HasTerminal
  <2> QED BY Zenon, <1>7, <2>1, <2>2, StartFacts
<1>8. CASE AdmitSegment \/ CompleteCorrection
  <2>1. /\ UNCHANGED <<queue, signal, snapshot, connection, pump>> /\ pc' # "finish" /\ ~signal.active
        /\ pc \in {"admit", "correct"}
    BY Zenon, <1>8 DEF AdmitSegment, CompleteCorrection, source, PhaseInv, LivePcs
  <2>2. ~HasTerminal(segment)
    BY Zenon, <2>1, AppliedSegment
  <2> QED BY Zenon, <2>1, <2>2
<1>9. CASE \/ SignalRecovery \/ MarkNotReady \/ StartAttempt \/ SourceIsActive \/ AttemptFails
           \/ RevokeAvailable \/ FetchSnapshot \/ LoadBackfill \/ InstallSnapshot \/ InstallFails
  <2>1. signal'.active /\ pc' # "finish"
    BY Zenon, <1>9 DEF SignalRecovery, MarkNotReady, StartAttempt, SourceIsActive, AttemptFails, RevokeAvailable,
       FetchSnapshot, LoadBackfill, InstallSnapshot, InstallFails, MergeControl, PhaseInv, RecoveryPcs
  <2> QED BY SMTT(30), <2>1
<1>10. CASE AdmitRecovered
  <2>1. /\ pc = "admit" /\ signal.active /\ signal' = signal
        /\ pc' = IF LeaseCurrent THEN "finish" ELSE "merge"
        /\ UNCHANGED <<queue, snapshot, connection, pump>>
    BY Zenon, <1>10 DEF AdmitRecovered, source
  <2>2. CASE LeaseCurrent
    <3>1. active /\ pump \in {"stream", "send"}
      BY Zenon, <2>1, <2>2 DEF LeaseCurrent, RuntimeInv, LeaseIsLive, PumpInv
    <3>2. snapshot.connection = connection /\ \A i \in 1..Len(queue) : queue[i].connection = connection
      BY Zenon, <2>1, <2>2 DEF RecoveredInv, PublishPcs
    <3> QED BY Zenon, <2>1, <3>1, <3>2 DEF Announced
  <2> QED BY Zenon, <2>1, <2>2
<1>11. CASE FinishRecovery
  <2>1. UNCHANGED <<queue, snapshot, connection, pump>> /\ pc = "finish" /\ signal.active
    BY Zenon, <1>11, FinishFacts DEF source, PhaseInv, RecoveryPcs
  <2>2. CASE signal.changed
    BY Zenon, <1>11, <2>1, <2>2, FinishFacts
  <2>3. CASE ~signal.changed
    <3>1. ~signal'.active /\ segment' = <<>>
      BY <1>11, <2>3, FinishFacts
    <3> QED BY Zenon, <2>1, <2>3, <3>1
  <2> QED BY Zenon, <2>2, <2>3
<1> QED BY Zenon, <1>1, <1>2, <1>3, <1>4, <1>5, <1>6, <1>7, <1>8, <1>9, <1>10, <1>11 DEF Next, Reducer

(* Quotes come from a state that is continuous with the subscription.      *)
LEMMA ContinuousStep ==
    ASSUME RuntimeInv, RuntimeInv', PhaseInv, PumpInv, SegmentInv, ContinuityInv, AdmittedIsContinuous,
           PhaseInv', FenceInv', SegmentInv', RecoveredInv', ContinuityInv', [Next]_vars
    PROVE  AdmittedIsContinuous'
<1> SUFFICES ASSUME Admitted', ~Suspending'
             PROVE  snapshot'.ready /\ snapshot'.connection = connection'
  BY Zenon DEF AdmittedIsContinuous
<1>0. /\ \A i \in 1..Len(queue') : ~Suspends(queue'[i])
      /\ \A i \in 1..Len(segment') : ~Suspends(segment'[i])
  BY Zenon DEF Suspending, Items, Suspends
<1>1. segment' \in Seq(LeasedItem) /\ queue' \in Seq(LeasedItem) /\ (pc' # "idle" => segment' # <<>>)
  BY Zenon DEF RuntimeInv, HoldersTyped
<1>2. ~HasTerminal(queue)' /\ ~HasTerminal(segment)'
  BY Zenon, <1>0 DEF HasTerminal, Suspends
<1>3. CASE signal'.active /\ pc' # "revoke"
  BY Zenon, <1>3 DEF FenceInv, RecoveryIsFenced, RecoveredInv
<1>4. ~signal'.active => snapshot'.connection = connection'
  BY Zenon, <1>2 DEF ContinuityInv, Settled, LiveTerminal
<1>5. CASE ~signal'.active /\ pc' # "failing"
  <2>1. pc' # "idle" => ~Suspends(segment'[1])
    BY <1>0, <1>1
  <2>2. snapshot'.ready
    BY SMTT(30), <1>5, <2>1 DEF SegmentInv, PhaseInv
  <2> QED BY Zenon, <1>4, <1>5, <2>2
<1>6. CASE pc' \in {"failing", "revoke"} /\ (SourcePump \/ Watchdog \/ Stop \/ UNCHANGED vars)
  <2>1. UNCHANGED <<snapshot, pc, segment>>
    BY Zenon, <1>6, OtherTasks
  <2>2. ~AdmitSegment /\ ~AdmitRecovered
    BY Zenon, <1>6, <2>1 DEF AdmitSegment, AdmitRecovered
  <2>3. Admitted
    BY Zenon, <2>2, AdmissionOpens
  <2>4. connection' = connection
    <3>1. ~Subscribe
      BY Zenon, <2>3 DEF Subscribe, PumpInv, RuntimeInv, AdmittedWhileConnected
    <3> QED BY Zenon, <1>6, <3>1 DEF SourcePump, SubscribeFails, Receive, ReceiveCorrection, Terminate, Enqueue,
         PublishRequirement, Rest, Watchdog, SampleToken, BeginExpiration, CompareProgress,
         FinishExpiration, Stop, vars, source
  <2>5. \A i \in 1..Len(queue) : ~Suspends(queue[i])
    <3>1. CASE Enqueue
      BY Zenon, <1>0, <3>1, EnqueueFacts
    <3>2. CASE ~Enqueue
      <4>1. queue' = queue
        BY Zenon, <1>6, <3>2 DEF SourcePump, Subscribe, SubscribeFails, Receive, ReceiveCorrection, Terminate,
         PublishRequirement, Rest, Watchdog, SampleToken, BeginExpiration, CompareProgress,
         FinishExpiration, Stop, vars
      <4> QED BY Zenon, <1>0, <4>1
    <3> QED BY Zenon, <3>1, <3>2
  <2>6. ~Suspending
    BY Zenon, <1>0, <2>1, <2>5 DEF Suspending, Items, Suspends
  <2> QED BY Zenon, <2>1, <2>3, <2>4, <2>6 DEF AdmittedIsContinuous
<1>7. CASE SignalRecovery
  <2>1. UNCHANGED <<token, snapshot, queue, segment, connection>>
    BY Zenon, <1>7 DEF SignalRecovery, source
  <2> QED BY Zenon, <2>1 DEF AdmittedIsContinuous, Admitted, Suspending
<1>8. CASE pc' = "failing" /\ (ApplyFails \/ StartCorrection \/ CompleteCorrection)
  <2>1. pc \in {"apply", "build", "correct"} /\ UNCHANGED <<snapshot, signal>>
    BY Zenon, <1>8 DEF ApplyFails, StartCorrection, CompleteCorrection
  <2>2. ~signal.active /\ snapshot.ready
    BY SMTT(30), <2>1 DEF PhaseInv, LivePcs, SegmentInv
  <2> QED BY Zenon, <1>4, <2>1, <2>2
<1>9. CASE pc' = "failing" /\ CompletePublication
  <2>1. pc = "complete" /\ ~signal.active /\ ~candidate.ready /\ UNCHANGED <<segment, signal>>
    BY Zenon, <1>9 DEF CompletePublication
  <2>2. Suspends(segment'[1])
    BY SMTT(30), <2>1 DEF SegmentInv
  <2> QED BY <1>0, <1>1, <1>9, <2>2
<1>10. CASE pc' \in {"failing", "revoke"} /\ Reducer /\ ~SignalRecovery /\ ~ApplyFails /\ ~StartCorrection
            /\ ~CompleteCorrection /\ ~CompletePublication
  BY SMTT(30), <1>10, FinishFacts DEF Reducer, Dequeue, ObserveSource, ReadLease, RecheckSource, WithLease, ApplySegment,
     BuildCorrection, BeginPublication, Swap, RecordStateUpdate, AdmitSegment, RevokeAvailable, MarkNotReady,
     StartAttempt, SourceIsActive, FetchSnapshot, LoadBackfill, AttemptFails, InstallSnapshot, InstallFails,
     AdmitRecovered
<1>11. pc' = "revoke" /\ (ApplyFails \/ StartCorrection \/ CompleteCorrection \/ CompletePublication) => FALSE
  BY Zenon DEF ApplyFails, StartCorrection, CompleteCorrection, CompletePublication
<1> QED BY Zenon, <1>3, <1>5, <1>6, <1>7, <1>8, <1>9, <1>10, <1>11 DEF Next

(* The runtime connect() leaves satisfies the invariant.                   *)
LEMMA AdmissionInit == Init => AdmissionInv
<1> SUFFICES ASSUME Init PROVE AdmissionInv
  BY Zenon
<1>2. 1 \in Connection
  BY RuntimeAssumption DEF Connection
<1>3. PhaseInv /\ PumpInv
  BY SMTT(30), <1>2 DEF Init, PhaseInv, LivePcs, RecoveryPcs, SharedPcs, Snapshot, PumpInv
<1>4. FenceInv /\ SegmentInv
  BY SMTT(30) DEF Init, FenceInv, RecoveryIsFenced, SegmentInv
<1>6. CorrectionInv /\ RecoveredInv
  BY SMTT(30) DEF Init, CorrectionInv, RecoveredInv, PublishPcs
<1>5. ContinuityInv /\ AdmittedIsContinuous
  BY SMTT(30) DEF Init, ContinuityInv, Announced, AdmittedIsContinuous
<1> QED BY Zenon, <1>3, <1>4, <1>5, <1>6 DEF AdmissionInv

(* Every step of pump, watchdog, reducer and shutdown preserves it.        *)
LEMMA AdmissionStep ==
    ASSUME RuntimeInv, AdmissionInv, [Next]_vars
    PROVE  AdmissionInv'
<1> USE DEF AdmissionInv
<1>1. RuntimeInv'
  BY Zenon, RuntimeStep
<1>2. PhaseInv' /\ PumpInv' /\ FenceInv' /\ SegmentInv' /\ CorrectionInv'
  BY Zenon, PhaseStep, PumpStep, FenceStep, SegmentStep, CorrectionStep
<1>3. RecoveredInv' /\ ContinuityInv'
  BY Zenon, RecoveredStep, ContinuityStep
<1>4. AdmittedIsContinuous'
  BY Zenon, <1>1, <1>2, <1>3, ContinuousStep
<1> QED BY Zenon, <1>2, <1>3, <1>4

(* The inductive invariant of the admission protocol.                      *)
THEOREM AdmissionInvariant == Spec => [](RuntimeInv /\ AdmissionInv)
<1>1. Init => RuntimeInv /\ AdmissionInv
  BY Zenon, RuntimeInit, AdmissionInit
<1>2. RuntimeInv /\ AdmissionInv /\ [Next]_vars => RuntimeInv' /\ AdmissionInv'
  BY Zenon, RuntimeStep, AdmissionStep
<1> QED BY <1>1, <1>2, PTL DEF Spec

(* While a recovery is under way no task admits quotes, except before the  *)
(* failed transition is revoked and after the recovered state was admitted *)
(* under its own lease (recover_until_ready).                              *)
THEOREM RecoveryStaysFenced == Spec => []RecoveryIsFenced
<1>1. AdmissionInv => RecoveryIsFenced
  BY Zenon DEF AdmissionInv, FenceInv
<1> QED BY <1>1, AdmissionInvariant, PTL

(* Whatever the reducer publishes live continues the subscription of the   *)
(* published state: no disconnect is passed over in silence                *)
(* (publish_requirement_if_active, finish_recovery).                       *)
THEOREM LiveUpdatesAreContinuous == Spec => []NoSilentGap
<1>1. AdmissionInv => NoSilentGap
  BY Zenon DEF AdmissionInv, SegmentInv, NoSilentGap, Items
<1> QED BY <1>1, AdmissionInvariant, PTL

(* Admitted quotes come from a ready state of the present subscription     *)
(* unless an update that suspends readiness is already in the queue or in  *)
(* the reducer's hands.                                                    *)
THEOREM QuotesAreContinuous == Spec => []AdmittedIsContinuous
<1>1. AdmissionInv => AdmittedIsContinuous
  BY Zenon DEF AdmissionInv
<1> QED BY <1>1, AdmissionInvariant, PTL


-----------------------------------------------------------------------------
(* Who owns the admission token.  A token in state publishing or expiring  *)
(* is the right to open admission again.  It travels: the pump begins a    *)
(* correction and sends its token with the update through the queue; the   *)
(* reducer takes it from the segment it holds, or begins one for its own   *)
(* publication; the watchdog has one while it compares progress.  The      *)
(* invariant places the current token in exactly one of these, so that it  *)
(* is completed once and never abandoned.                                  *)

(* Only a correction takes a lease on admission to the queue with it.      *)
OnlyCorrections(s) == \A i \in 1..Len(s) : s[i].kind # "correction" => s[i].admission = NoToken

(* Updates that carry the token t, and the watchdog's lease.               *)
Carries(s, t) == \E i \in 1..Len(s) : s[i].admission = t
CarriedOnce(s, t) == \A i, j \in 1..Len(s) : s[i].admission = t /\ s[j].admission = t => i = j
Expires == watch \in {"expiring", "stale", "progressed"} /\ sampled = token

(* Corrections alone carry leases, and a publication has its token only    *)
(* between its begin and its completion.                                   *)
LeasesInv ==
    /\ OnlyCorrections(queue) /\ OnlyCorrections(segment) /\ OnlyCorrections(outgoing)
    /\ publishing # NoToken => pc \in {"swap", "complete"}

(* The current token has at most one holder that could complete it, and    *)
(* one exactly while it is publishing or expiring.                         *)
OwnerInv ==
    /\ CarriedOnce(queue, token) /\ CarriedOnce(segment, token) /\ CarriedOnce(outgoing, token)
    /\ ~(Carries(queue, token) /\ Carries(segment, token))
    /\ ~(Carries(queue, token) /\ Carries(outgoing, token))
    /\ ~(Carries(segment, token) /\ Carries(outgoing, token))
    /\ correcting = token \/ publishing = token =>
          ~Carries(queue, token) /\ ~Carries(segment, token) /\ ~Carries(outgoing, token)
    /\ ~(correcting = token /\ publishing = token)
    /\ token.state = "publishing" =>
          \/ Carries(queue, token) \/ Carries(segment, token) \/ Carries(outgoing, token)
          \/ correcting = token \/ publishing = token
    /\ token.state = "expiring" <=> Expires

(* What a sequence of updates carries, part by part.                       *)
LEMMA EmptyCarries ==
    ASSUME NEW t
    PROVE  ~Carries(<<>>, t) /\ CarriedOnce(<<>>, t) /\ OnlyCorrections(<<>>)
  BY DEF Carries, CarriedOnce, OnlyCorrections

(* A joined sequence carries what its two parts carry.                     *)
LEMMA ConcatCarries ==
    ASSUME NEW s \in Seq(LeasedItem), NEW u \in Seq(LeasedItem), NEW t
    PROVE  /\ Carries(s \o u, t) <=> Carries(s, t) \/ Carries(u, t)
           /\ CarriedOnce(s \o u, t) <=>
                 CarriedOnce(s, t) /\ CarriedOnce(u, t) /\ ~(Carries(s, t) /\ Carries(u, t))
           /\ OnlyCorrections(s \o u) <=> OnlyCorrections(s) /\ OnlyCorrections(u)
<1> DEFINE c == s \o u
<1>1. Len(s) \in Nat /\ Len(u) \in Nat
  OBVIOUS
<1>2. Joins(c, s, u)
  BY Zenon, JoinedElements
<1> HIDE DEF c
<1>3. Carries(c, t) <=> Carries(s, t) \/ Carries(u, t)
  <2>1. Carries(c, t) => Carries(s, t) \/ Carries(u, t)
    BY Zenon, <1>2 DEF Joins, Carries
  <2>2. Carries(s, t) => Carries(c, t)
    BY Zenon, <1>2 DEF Joins, Carries
  <2>3. ASSUME NEW i \in 1..Len(u), u[i].admission = t
        PROVE  Carries(c, t)
    <3>1. i + Len(s) \in 1..Len(c) /\ c[i + Len(s)] = u[i]
      BY Zenon, <1>2 DEF Joins
    <3> QED BY Zenon, <2>3, <3>1 DEF Carries
  <2> QED BY Zenon, <2>1, <2>2, <2>3 DEF Carries
<1>4. OnlyCorrections(c) <=> OnlyCorrections(s) /\ OnlyCorrections(u)
  <2>1. ASSUME OnlyCorrections(s), OnlyCorrections(u), NEW i \in 1..Len(c), c[i].kind # "correction"
        PROVE  c[i].admission = NoToken
    <3>1. \/ i \in 1..Len(s) /\ c[i] = s[i]
          \/ i - Len(s) \in 1..Len(u) /\ c[i] = u[i - Len(s)]
      BY Zenon, <1>2 DEF Joins
    <3> QED BY Zenon, <2>1, <3>1 DEF OnlyCorrections
  <2>2. OnlyCorrections(c) => OnlyCorrections(s)
    BY Zenon, <1>2 DEF Joins, OnlyCorrections
  <2>3. ASSUME OnlyCorrections(c), NEW i \in 1..Len(u), u[i].kind # "correction"
        PROVE  u[i].admission = NoToken
    <3>1. i + Len(s) \in 1..Len(c) /\ c[i + Len(s)] = u[i]
      BY Zenon, <1>2 DEF Joins
    <3> QED BY Zenon, <2>3, <3>1 DEF OnlyCorrections
  <2> QED BY Zenon, <2>1, <2>2, <2>3 DEF OnlyCorrections
<1>5. ASSUME CarriedOnce(s, t), CarriedOnce(u, t), ~(Carries(s, t) /\ Carries(u, t))
      PROVE  CarriedOnce(c, t)
  <2> SUFFICES ASSUME NEW i \in 1..Len(c), NEW j \in 1..Len(c), c[i].admission = t, c[j].admission = t
               PROVE  i = j
    BY Zenon DEF CarriedOnce
  <2>1. CASE i \in 1..Len(s) /\ c[i] = s[i] /\ j \in 1..Len(s) /\ c[j] = s[j]
    BY Zenon, <1>5, <2>1 DEF CarriedOnce
  <2>2. CASE /\ i - Len(s) \in 1..Len(u) /\ c[i] = u[i - Len(s)]
             /\ j - Len(s) \in 1..Len(u) /\ c[j] = u[j - Len(s)]
    <3>1. i - Len(s) = j - Len(s)
      BY Zenon, <1>5, <2>2 DEF CarriedOnce
    <3> QED BY <1>1, <3>1
  <2>3. CASE /\ i \in 1..Len(s) /\ c[i] = s[i]
             /\ j - Len(s) \in 1..Len(u) /\ c[j] = u[j - Len(s)]
    BY Zenon, <1>5, <2>3 DEF Carries
  <2>4. CASE /\ j \in 1..Len(s) /\ c[j] = s[j]
             /\ i - Len(s) \in 1..Len(u) /\ c[i] = u[i - Len(s)]
    BY Zenon, <1>5, <2>4 DEF Carries
  <2> QED BY Zenon, <1>2, <2>1, <2>2, <2>3, <2>4 DEF Joins
<1>6. ASSUME CarriedOnce(c, t)
      PROVE  CarriedOnce(s, t) /\ CarriedOnce(u, t) /\ ~(Carries(s, t) /\ Carries(u, t))
  <2>1. CarriedOnce(s, t)
    BY Zenon, <1>2, <1>6 DEF Joins, CarriedOnce
  <2>2. CarriedOnce(u, t)
    <3> SUFFICES ASSUME NEW i \in 1..Len(u), NEW j \in 1..Len(u), u[i].admission = t, u[j].admission = t
                 PROVE  i = j
      BY Zenon DEF CarriedOnce
    <3>2. /\ i + Len(s) \in 1..Len(c) /\ c[i + Len(s)] = u[i]
          /\ j + Len(s) \in 1..Len(c) /\ c[j + Len(s)] = u[j]
      BY Zenon, <1>2 DEF Joins
    <3>1. i + Len(s) = j + Len(s)
      BY Zenon, <1>6, <3>2 DEF CarriedOnce
    <3> QED BY <1>1, <3>1
  <2>3. ASSUME NEW i \in 1..Len(s), NEW j \in 1..Len(u), s[i].admission = t, u[j].admission = t
        PROVE  FALSE
    <3>1. i = j + Len(s)
      BY ZenonT(30), <1>2, <1>6, <2>3 DEF Joins, CarriedOnce
    <3> QED BY <1>1, <3>1
  <2> QED BY Zenon, <2>1, <2>2, <2>3 DEF Carries
<1> QED BY Zenon, <1>3, <1>4, <1>5, <1>6 DEF c

(* A compare-exchange that succeeds leaves every holder with a stale copy. *)
LEMMA MoveOwner ==
    ASSUME RuntimeInv, NEW allowed \in BOOLEAN, NEW s \in States, Move(allowed, s)
    PROVE  /\ ~allowed => token' = token
           /\ allowed => /\ token' = Fresh(s) /\ token' \in Tokens /\ token'.state = s
                         /\ ~Carries(queue, token') /\ ~Carries(segment, token') /\ ~Carries(outgoing, token')
                         /\ correcting # token' /\ publishing # token' /\ sampled # token'
                         /\ NoToken # token'
<1>1. token \in Tokens
  BY Zenon DEF RuntimeInv, HoldersTyped
<1>2. /\ token' \in Tokens
      /\ ~allowed => token' = token
      /\ allowed => /\ token' = Fresh(s)
                    /\ token'.state = s
                    /\ \A t \in HeldTokens : t # NoToken => token' # t
  BY Zenon, <1>1, MoveToken
<1>3. NoToken # token'
  BY Zenon, <1>2, RuntimeAssumption
<1>4. ASSUME \A t \in HeldTokens : t # NoToken => token' # t
      PROVE  /\ ~Carries(queue, token') /\ ~Carries(segment, token') /\ ~Carries(outgoing, token')
             /\ correcting # token' /\ publishing # token' /\ sampled # token'
  <2>1. correcting # token' /\ publishing # token' /\ sampled # token'
    BY Zenon, <1>3, <1>4 DEF HeldTokens
  <2>2. \A i \in 1..Len(queue) : queue[i].admission \in HeldTokens
    BY Zenon DEF HeldTokens, Items
  <2>3. \A i \in 1..Len(segment) : segment[i].admission \in HeldTokens
    BY Zenon DEF HeldTokens, Items
  <2>4. \A i \in 1..Len(outgoing) : outgoing[i].admission \in HeldTokens
    BY Zenon DEF HeldTokens, Items
  <2> QED BY Zenon, <1>3, <1>4, <2>1, <2>2, <2>3, <2>4 DEF Carries
<1> QED BY Zenon, <1>2, <1>3, <1>4

(* A token that opens no exclusive window and that nobody holds.           *)
LEMMA UnownedToken ==
    ASSUME token'.state \notin {"publishing", "expiring"},
           ~Carries(queue', token'), ~Carries(segment', token'), ~Carries(outgoing', token'),
           correcting' # token', publishing' # token', sampled' # token'
    PROVE  OwnerInv'
  BY Zenon DEF OwnerInv, Expires, Carries, CarriedOnce

(* Only corrections carry a lease, and a publication keeps its own only    *)
(* until it completes.                                                     *)
LEMMA LeasesStep ==
    ASSUME RuntimeInv, PhaseInv, PumpInv, LeasesInv, [Next]_vars
    PROVE  LeasesInv'
<1> USE DEF LeasesInv
<1>0. /\ queue \in Seq(LeasedItem) /\ segment \in Seq(LeasedItem) /\ outgoing \in Seq(LeasedItem)
      /\ OnlyCorrections(<<>>)
  BY Zenon, EmptyCarries DEF RuntimeInv, HoldersTyped
<1>1. CASE Subscribe \/ PublishRequirement \/ Rest
  BY Zenon, <1>0, <1>1 DEF Subscribe, PublishRequirement, Rest, reducer
<1>2. CASE \/ SubscribeFails \/ ReceiveCorrection
           \/ (\E kind \in {"ordinary", "reorg"} : Receive(kind)) \/ (\E kind \in Terminal : Terminate(kind))
  <2>1. UNCHANGED <<queue, segment, publishing, pc>>
    BY Zenon, <1>2 DEF SubscribeFails, ReceiveCorrection, Receive, Terminate, reducer
  <2>2. OnlyCorrections(outgoing')
    BY <1>2 DEF SubscribeFails, ReceiveCorrection, Receive, Terminate, Update, OnlyCorrections
  <2> QED BY Zenon, <2>1, <2>2
<1>3. CASE Enqueue
  <2>1. queue' = queue \o outgoing /\ outgoing' = <<>> /\ UNCHANGED <<segment, publishing, pc>>
    BY Zenon, <1>3 DEF Enqueue, reducer
  <2> QED BY Zenon, <1>0, <2>1, ConcatCarries
<1>4. CASE Watchdog \/ Stop \/ UNCHANGED vars
  BY Zenon, <1>4 DEF Watchdog, SampleToken, BeginExpiration, CompareProgress, FinishExpiration, Stop, vars, source, reducer
<1>5. CASE Dequeue
  <2>1. PICK n \in 1..Len(queue) :
            segment' = SubSeq(queue, 1, n) /\ queue' = SubSeq(queue, n + 1, Len(queue))
    BY Zenon, <1>5 DEF Dequeue
  <2>2. /\ segment' \in Seq(LeasedItem) /\ queue' \in Seq(LeasedItem) /\ queue = segment' \o queue'
    BY Zenon, <1>0, <2>1, SplitQueue
  <2>3. OnlyCorrections(segment') /\ OnlyCorrections(queue')
    BY Zenon, <2>2, ConcatCarries
  <2>4. UNCHANGED <<outgoing, publishing>> /\ pc = "idle"
    BY Zenon, <1>5 DEF Dequeue, source
  <2> QED BY Zenon, <2>3, <2>4
<1>6. CASE \/ ObserveSource \/ ReadLease \/ RecheckSource \/ ApplySegment \/ BuildCorrection \/ ApplyFails
           \/ RecordStateUpdate \/ SignalRecovery \/ RevokeAvailable \/ MarkNotReady
  <2>1. UNCHANGED <<queue, segment, outgoing, publishing>> /\ pc \notin {"swap", "complete"}
    BY Zenon, <1>6 DEF ObserveSource, ReadLease, RecheckSource, ApplySegment, BuildCorrection, ApplyFails,
       RecordStateUpdate, SignalRecovery, RevokeAvailable, MarkNotReady, source
  <2> QED BY Zenon, <2>1
<1>7. CASE BeginPublication \/ Swap \/ CompletePublication \/ SourceIsActive \/ AttemptFails \/ AdmitRecovered
  <2>1. UNCHANGED <<queue, segment, outgoing>>
    BY Zenon, <1>7 DEF BeginPublication, Swap, CompletePublication, SourceIsActive, AttemptFails, AdmitRecovered, source
  <2>2. publishing' # NoToken => pc' \in {"swap", "complete"}
    BY Zenon, <1>7 DEF BeginPublication, Swap, CompletePublication, SourceIsActive, AttemptFails, AdmitRecovered
  <2> QED BY Zenon, <2>1, <2>2
<1>8. CASE StartCorrection
  <2>1. UNCHANGED <<queue, outgoing, publishing>> /\ pc = "apply"
    BY Zenon, <1>8 DEF StartCorrection, source
  <2>2. OnlyCorrections(segment')
    BY Zenon, <1>8, StartFacts DEF OnlyCorrections
  <2> QED BY Zenon, <2>1, <2>2
<1>9. CASE AdmitSegment \/ CompleteCorrection
  <2>1. UNCHANGED <<queue, outgoing, publishing>> /\ pc \in {"admit", "correct"} /\ segment' \in {segment, <<>>}
    BY Zenon, <1>9 DEF AdmitSegment, CompleteCorrection, source
  <2> QED BY Zenon, <1>0, <2>1
<1>10. CASE StartAttempt \/ FetchSnapshot \/ LoadBackfill \/ InstallSnapshot \/ InstallFails
  <2>1. /\ segment' = segment \o queue /\ queue' = <<>>
        /\ UNCHANGED <<outgoing, publishing>> /\ pc \notin {"swap", "complete"}
    BY Zenon, <1>10 DEF StartAttempt, FetchSnapshot, LoadBackfill, InstallSnapshot, InstallFails, Absorb, source
  <2> QED BY Zenon, <1>0, <2>1, ConcatCarries
<1>11. CASE FinishRecovery
  <2>1. UNCHANGED <<queue, outgoing, publishing>> /\ pc = "finish" /\ segment' \in {segment, <<>>}
    BY Zenon, <1>11, FinishFacts DEF source
  <2> QED BY Zenon, <1>0, <2>1
<1> QED BY Zenon, <1>1, <1>2, <1>3, <1>4, <1>5, <1>6, <1>7, <1>8, <1>9, <1>10, <1>11 DEF Next, Reducer, SourcePump

(* One task at a time owns the token of an exclusive window.               *)
LEMMA OwnerStep ==
    ASSUME RuntimeInv, PhaseInv, PumpInv, SegmentInv, CorrectionInv, LeasesInv, OwnerInv, [Next]_vars
    PROVE  OwnerInv'
<1>0. /\ queue \in Seq(LeasedItem) /\ segment \in Seq(LeasedItem) /\ outgoing \in Seq(LeasedItem)
      /\ token \in Tokens /\ NoToken # token
      /\ \A t : ~Carries(<<>>, t) /\ CarriedOnce(<<>>, t)
  BY Zenon, EmptyCarries, RuntimeAssumption DEF RuntimeInv, HoldersTyped
<1>m. ASSUME NEW allowed \in BOOLEAN, NEW s \in {"invalid", "ready", "stopping"}, Move(allowed, s), allowed,
             queue' = queue, segment' \in {segment, <<>>}, outgoing' = outgoing \/ ~Carries(outgoing', token'),
             correcting' \in {correcting, NoToken}, publishing' \in {publishing, NoToken},
             sampled' \in {sampled, NoToken}
      PROVE  OwnerInv'
  <2>1. /\ token'.state = s
        /\ ~Carries(queue, token') /\ ~Carries(segment, token') /\ ~Carries(outgoing, token')
        /\ correcting # token' /\ publishing # token' /\ sampled # token' /\ NoToken # token'
    BY Zenon, <1>m, MoveOwner DEF States
  <2>2. /\ ~Carries(queue', token') /\ ~Carries(segment', token') /\ ~Carries(outgoing', token')
    BY Zenon, <1>0, <1>m, <2>1
  <2>3. correcting' # token' /\ publishing' # token' /\ sampled' # token'
    BY Zenon, <1>m, <2>1
  <2>4. token'.state \notin {"publishing", "expiring"}
    BY Zenon, <1>m, <2>1
  <2> QED BY Zenon, <2>2, <2>3, <2>4, UnownedToken
<1>k. ASSUME token' = token, queue' = queue, segment' = segment, outgoing' = outgoing,
             correcting' = correcting, publishing' = publishing, Expires' <=> Expires
      PROVE  OwnerInv'
  BY Zenon, <1>k DEF OwnerInv
<1>1. CASE Subscribe
  BY Zenon, <1>1, <1>k DEF Subscribe, reducer, watchdog, Expires
<1>2. CASE SubscribeFails \/ PublishRequirement \/ \E kind \in {"ordinary", "reorg"} : Receive(kind)
  <2>1. /\ UNCHANGED <<token, queue, segment, correcting, publishing, watch, sampled>>
        /\ outgoing' = <<>> \/ \E kind : outgoing' = Update(kind, NoToken)
    BY Zenon, <1>2 DEF SubscribeFails, PublishRequirement, Receive, reducer, watchdog
  <2>2. ~Carries(outgoing', token)
    BY <1>0, <2>1 DEF Update, Carries
  <2>3. ~Carries(outgoing, token)
    <3>1. CASE PublishRequirement
      <4>1. Len(outgoing) = 1 /\ outgoing[1].kind # "correction"
        BY Zenon, <3>1 DEF PublishRequirement, IsTerminal, Terminal, PumpInv
      <4> QED BY <1>0, <4>1 DEF LeasesInv, OnlyCorrections, Carries
    <3>2. CASE ~PublishRequirement
      <4>1. outgoing = <<>>
        BY Zenon, <1>2, <3>2 DEF SubscribeFails, Receive, PumpInv
      <4> QED BY Zenon, <1>0, <4>1
    <3> QED BY Zenon, <3>1, <3>2
  <2>4. CarriedOnce(outgoing', token)
    BY Zenon, <2>2 DEF CarriedOnce, Carries
  <2> QED BY Zenon, <2>1, <2>2, <2>3, <2>4 DEF OwnerInv, Expires
<1>3. CASE ReceiveCorrection
  <2>1. /\ UNCHANGED <<queue, segment, correcting, publishing, watch, sampled>> /\ outgoing = <<>>
        /\ Move(CanBegin, "publishing")
        /\ outgoing' = <<[kind |-> "correction", connection |-> connection, admission |-> BeginToken]>>
    BY Zenon, <1>3 DEF ReceiveCorrection, Begin, Update, PumpInv, reducer, watchdog
  <2>2. CarriedOnce(outgoing', token') /\ (Carries(outgoing', token') <=> BeginToken = token')
    BY <2>1 DEF CarriedOnce, Carries
  <2>3. CASE CanBegin
    <3>1. /\ token' = Fresh("publishing") /\ token'.state = "publishing"
          /\ ~Carries(queue, token') /\ ~Carries(segment, token')
          /\ correcting # token' /\ publishing # token' /\ sampled # token'
      BY Zenon, <2>1, <2>3, MoveOwner DEF States
    <3>2. BeginToken = token'
      BY Zenon, <2>3, <3>1 DEF BeginToken
    <3>3. CarriedOnce(queue, token') /\ CarriedOnce(segment, token')
      BY Zenon, <3>1 DEF CarriedOnce, Carries
    <3> QED BY Zenon, <2>1, <2>2, <3>1, <3>2, <3>3 DEF OwnerInv, Expires
  <2>4. CASE ~CanBegin
    <3>1. token' = token /\ BeginToken = NoToken
      BY Zenon, <2>1, <2>4 DEF Move, BeginToken
    <3> QED BY Zenon, <1>0, <2>1, <2>2, <3>1 DEF OwnerInv, Expires
  <2> QED BY Zenon, <2>3, <2>4
<1>4. CASE Rest \/ \E kind \in Terminal : Terminate(kind)
  <2>1. /\ UNCHANGED <<queue, segment, correcting, publishing, watch, sampled>>
        /\ Move(~Stopped, "invalid")
        /\ \/ outgoing' = outgoing
           \/ outgoing = <<>> /\ \E kind : outgoing' = Update(kind, NoToken)
    BY Zenon, <1>4 DEF Rest, Terminate, MarkInactive, InvalidateSourceLease, PumpInv, reducer, watchdog
  <2>2. outgoing' = outgoing \/ (~Carries(outgoing', token') /\ CarriedOnce(outgoing', token') /\ outgoing = <<>>)
    <3>1. token' \in Tokens /\ NoToken # token'
      BY Zenon, RuntimeStep, RuntimeAssumption DEF RuntimeInv, HoldersTyped
    <3> QED BY <2>1, <3>1 DEF Update, Carries, CarriedOnce
  <2>3. CASE ~Stopped
    <3>1. (~Stopped) \in BOOLEAN
      BY Zenon DEF Stopped
    <3> QED BY Zenon, <1>m, <2>1, <2>2, <2>3, <3>1
  <2>4. CASE Stopped
    <3>1. token' = token
      BY Zenon, <2>1, <2>4 DEF Move
    <3> QED BY Zenon, <1>0, <2>1, <2>2, <3>1 DEF OwnerInv, Expires
  <2> QED BY Zenon, <2>3, <2>4
<1>5. CASE Enqueue
  <2>1. /\ UNCHANGED <<token, segment, correcting, publishing, watch, sampled>>
        /\ queue' = queue \o outgoing /\ outgoing' = <<>>
    BY Zenon, <1>5 DEF Enqueue, reducer, watchdog
  <2>2. /\ Carries(queue', token) <=> Carries(queue, token) \/ Carries(outgoing, token)
        /\ CarriedOnce(queue', token)
    BY <1>0, <2>1, ConcatCarries DEF OwnerInv
  <2> QED BY Zenon, <1>0, <2>1, <2>2 DEF OwnerInv, Expires
<1>6. CASE StartAttempt \/ FetchSnapshot \/ LoadBackfill \/ InstallSnapshot \/ InstallFails
  <2>1. /\ UNCHANGED <<token, outgoing, correcting, publishing, watch, sampled>>
        /\ segment' = segment \o queue /\ queue' = <<>>
    BY Zenon, <1>6 DEF StartAttempt, FetchSnapshot, LoadBackfill, InstallSnapshot, InstallFails, Absorb, source, watchdog
  <2>2. /\ Carries(segment', token) <=> Carries(segment, token) \/ Carries(queue, token)
        /\ CarriedOnce(segment', token)
    BY Zenon, <1>0, <2>1, ConcatCarries DEF OwnerInv
  <2> QED BY Zenon, <1>0, <2>1, <2>2 DEF OwnerInv, Expires
<1>7. CASE Dequeue
  <2>1. PICK n \in 1..Len(queue) :
            segment' = SubSeq(queue, 1, n) /\ queue' = SubSeq(queue, n + 1, Len(queue))
    BY Zenon, <1>7 DEF Dequeue
  <2>2. /\ UNCHANGED <<token, outgoing, correcting, publishing, watch, sampled>>
        /\ segment = <<>>
    BY SMTT(30), <1>7 DEF Dequeue, source, watchdog, PhaseInv
  <2>3. /\ segment' \in Seq(LeasedItem) /\ queue' \in Seq(LeasedItem) /\ queue = segment' \o queue'
    BY Zenon, <1>0, <2>1, SplitQueue
  <2>4. /\ Carries(queue, token) <=> Carries(segment', token) \/ Carries(queue', token)
        /\ CarriedOnce(queue, token) <=> /\ CarriedOnce(segment', token) /\ CarriedOnce(queue', token)
                                        /\ ~(Carries(segment', token) /\ Carries(queue', token))
    BY Zenon, <2>3, ConcatCarries
  <2> QED BY Zenon, <1>0, <2>2, <2>4 DEF OwnerInv, Expires
<1>8. CASE SampleToken \/ CompareProgress
  <2>1. /\ UNCHANGED <<token, queue, segment, outgoing, correcting, publishing>>
        /\ Expires' <=> Expires
    BY Zenon, <1>8 DEF SampleToken, CompareProgress, source, reducer, Expires, OwnerInv
  <2> QED BY Zenon, <1>k, <2>1
<1>9. CASE BeginExpiration
  <2>1. UNCHANGED <<queue, segment, outgoing, correcting, publishing>> /\ watch = "sampled"
    BY Zenon, <1>9 DEF BeginExpiration, source, reducer
  <2>2. CASE token = sampled
    <3>1. Move(token = sampled, "expiring") /\ sampled' = Fresh("expiring") /\ watch' = "expiring"
      BY Zenon, <1>9, <2>2 DEF BeginExpiration, CompareExchange
    <3>2. /\ token' = Fresh("expiring") /\ token'.state = "expiring"
          /\ ~Carries(queue, token') /\ ~Carries(segment, token') /\ ~Carries(outgoing, token')
          /\ correcting # token' /\ publishing # token'
      BY Zenon, <2>2, <3>1, MoveOwner DEF States
    <3>3. /\ CarriedOnce(queue, token') /\ CarriedOnce(segment, token') /\ CarriedOnce(outgoing, token')
      BY Zenon, <3>2 DEF Carries, CarriedOnce
    <3>4. /\ ~Carries(queue, token)' /\ ~Carries(segment, token)' /\ ~Carries(outgoing, token)'
          /\ CarriedOnce(queue, token)' /\ CarriedOnce(segment, token)' /\ CarriedOnce(outgoing, token)'
          /\ correcting' # token' /\ publishing' # token'
      BY Zenon, <2>1, <3>2, <3>3 DEF Carries, CarriedOnce
    <3>5. Expires' /\ token'.state = "expiring" /\ token'.state # "publishing"
      BY Zenon, <3>1, <3>2 DEF Expires
    <3> QED BY Zenon, <3>4, <3>5 DEF OwnerInv
  <2>3. CASE token # sampled
    <3>1. token' = token /\ watch' = "idle"
      BY Zenon, <1>9, <2>3 DEF BeginExpiration, CompareExchange, Move
    <3> QED BY Zenon, <1>k, <2>1, <3>1 DEF Expires
  <2> QED BY Zenon, <2>2, <2>3
<1>10. CASE FinishExpiration
  <2>1. /\ UNCHANGED <<queue, segment, outgoing, correcting, publishing>> /\ sampled' = NoToken /\ watch' = "idle"
        /\ \E s \in {"invalid", "ready"} : Move(token = sampled, s)
    BY Zenon, <1>10 DEF FinishExpiration, CompareExchange, source, reducer
  <2>2. CASE token = sampled
    BY Zenon, <1>m, <2>1, <2>2
  <2>3. CASE token # sampled
    <3>1. token' = token
      BY Zenon, <2>1, <2>3 DEF Move
    <3> QED BY Zenon, <1>k, <2>1, <2>3, <3>1 DEF Expires
  <2> QED BY Zenon, <2>2, <2>3
<1>11. CASE Stop \/ RevokeAvailable
  <2>1. /\ UNCHANGED <<queue, segment, outgoing, correcting, publishing, watch, sampled>>
        /\ \E s \in {"invalid", "stopping"} : Move(token.state \notin {s, "stopping"}, s)
    BY Zenon, <1>11 DEF Stop, RevokeAvailable, TransitionToTerminal, source, reducer, watchdog
  <2>2. PICK s \in {"invalid", "stopping"} : Move(token.state \notin {s, "stopping"}, s)
    BY Zenon, <2>1
  <2>3. CASE token.state \notin {s, "stopping"}
    <3> DEFINE moves == token.state \notin {s, "stopping"}
    <3>1. moves \in BOOLEAN /\ moves /\ Move(moves, s)
      BY Zenon, <2>2, <2>3
    <3> HIDE DEF moves
    <3> QED BY Zenon, <1>m, <2>1, <3>1
  <2>4. CASE token.state \in {s, "stopping"}
    <3>1. token' = token
      BY Zenon, <2>2, <2>4 DEF Move
    <3> QED BY Zenon, <1>k, <2>1, <3>1 DEF Expires
  <2> QED BY Zenon, <2>3, <2>4
<1>12. CASE \/ ObserveSource \/ ReadLease \/ RecheckSource \/ ApplySegment \/ BuildCorrection \/ Swap
            \/ RecordStateUpdate \/ SignalRecovery \/ MarkNotReady \/ SourceIsActive \/ AttemptFails
  <2>1. UNCHANGED <<token, queue, segment, outgoing, correcting, publishing, watch, sampled>>
    BY Zenon, <1>12 DEF ObserveSource, ReadLease, RecheckSource, ApplySegment, BuildCorrection, Swap, RecordStateUpdate,
       SignalRecovery, MarkNotReady, SourceIsActive, AttemptFails, source, watchdog
  <2> QED BY Zenon, <1>k, <2>1 DEF Expires
<1>13. CASE UNCHANGED vars
  BY Zenon, <1>13, <1>k DEF vars, source, reducer, watchdog, Expires
<1>14. CASE StartCorrection
  <2>1. /\ UNCHANGED <<queue, outgoing, publishing, watch, sampled>> /\ pc = "apply"
        /\ segment # <<>> /\ segment[1].kind = "correction" /\ segment'[1].admission = NoToken
        /\ Len(segment') = Len(segment) /\ ~signal.active
    BY Zenon, <1>14, StartFacts DEF StartCorrection, source, watchdog
  <2>2. publishing = NoToken /\ correcting = NoToken /\ Len(segment) = 1
    BY <1>0, <2>1 DEF LeasesInv, CorrectionInv, SegmentInv
  <2>3. \A t : t # NoToken => ~Carries(segment', t) /\ CarriedOnce(segment', t)
    BY <2>1, <2>2 DEF Carries, CarriedOnce
  <2>4. CASE segment[1].admission # NoToken
    <3>1. token' = token /\ correcting' = segment[1].admission
      BY Zenon, <1>14, <2>4 DEF StartCorrection
    <3>2. Carries(segment, token) <=> segment[1].admission = token
      BY <2>2 DEF Carries
    <3> QED BY Zenon, <1>0, <2>1, <2>2, <2>3, <3>1, <3>2 DEF OwnerInv, Expires
  <2>5. CASE segment[1].admission = NoToken
    <3>1. Move(CanBegin, "publishing") /\ correcting' = BeginToken /\ segment' = segment
      BY Zenon, <1>14, <2>5 DEF StartCorrection, Begin
    <3>2. CASE CanBegin
      <4>1. /\ token' = Fresh("publishing") /\ token'.state = "publishing"
            /\ ~Carries(queue, token') /\ ~Carries(segment, token') /\ ~Carries(outgoing, token')
            /\ publishing # token' /\ sampled # token'
        BY Zenon, <3>1, <3>2, MoveOwner DEF States
      <4>2. correcting' = token'
        BY Zenon, <3>1, <3>2, <4>1 DEF BeginToken
      <4>3. CarriedOnce(queue, token') /\ CarriedOnce(segment, token') /\ CarriedOnce(outgoing, token')
        BY SMTT(30), <4>1 DEF CarriedOnce, Carries
      <4> QED BY Zenon, <2>1, <3>1, <4>1, <4>2, <4>3 DEF OwnerInv, Expires
    <3>3. CASE ~CanBegin
      <4>1. token' = token /\ correcting' = NoToken
        BY Zenon, <3>1, <3>3 DEF Move, BeginToken
      <4> QED BY Zenon, <1>k, <2>1, <2>2, <3>1, <4>1 DEF Expires
    <3> QED BY Zenon, <3>2, <3>3
  <2> QED BY Zenon, <2>4, <2>5
<1>15. CASE BeginPublication
  <2>1. /\ UNCHANGED <<queue, segment, outgoing, correcting, watch, sampled>> /\ publishing = NoToken
        /\ Move(CanBegin, "publishing") /\ publishing' = BeginToken
    BY Zenon, <1>15 DEF BeginPublication, Begin, LeasesInv, source, watchdog
  <2>2. CASE CanBegin
    <3>1. /\ token' = Fresh("publishing") /\ token'.state = "publishing"
          /\ ~Carries(queue, token') /\ ~Carries(segment, token') /\ ~Carries(outgoing, token')
          /\ correcting # token' /\ sampled # token'
      BY Zenon, <2>1, <2>2, MoveOwner DEF States
    <3>2. publishing' = token'
      BY Zenon, <2>1, <2>2, <3>1 DEF BeginToken
    <3>3. CarriedOnce(queue, token') /\ CarriedOnce(segment, token') /\ CarriedOnce(outgoing, token')
      BY Zenon, <3>1 DEF CarriedOnce, Carries
    <3> QED BY Zenon, <2>1, <3>1, <3>2, <3>3 DEF OwnerInv, Expires
  <2>3. CASE ~CanBegin
    <3>1. token' = token /\ publishing' = NoToken
      BY Zenon, <2>1, <2>3 DEF Move, BeginToken
    <3> QED BY Zenon, <1>k, <2>1, <3>1 DEF Expires
  <2> QED BY Zenon, <2>2, <2>3
<1>16. CASE ApplyFails \/ CompleteCorrection
  <2>1. /\ UNCHANGED <<queue, outgoing, publishing, watch, sampled>> /\ correcting' = NoToken
        /\ \E s \in {"invalid", "ready"} : Move(token = correcting, s)
        /\ segment' \in {segment, <<>>} /\ (token # correcting => segment' = segment)
    BY Zenon, <1>16 DEF ApplyFails, CompleteCorrection, CompareExchange, source, watchdog
  <2>2. CASE token = correcting
    BY Zenon, <1>m, <2>1, <2>2
  <2>3. CASE token # correcting
    <3>1. token' = token
      BY Zenon, <2>1, <2>3 DEF Move
    <3> QED BY Zenon, <1>0, <2>1, <2>3, <3>1 DEF OwnerInv, Expires
  <2> QED BY Zenon, <2>2, <2>3
<1>17. CASE CompletePublication
  <2>1. /\ UNCHANGED <<queue, segment, outgoing, correcting, watch, sampled>> /\ publishing' = NoToken
        /\ Move(token = publishing, "ready")
    BY Zenon, <1>17 DEF CompletePublication, CompareExchange, source, watchdog
  <2>2. CASE token = publishing
    BY Zenon, <1>m, <2>1, <2>2
  <2>3. CASE token # publishing
    <3>1. token' = token
      BY Zenon, <2>1, <2>3 DEF Move
    <3> QED BY Zenon, <1>0, <2>1, <2>3, <3>1 DEF OwnerInv, Expires
  <2> QED BY Zenon, <2>2, <2>3
<1>18. CASE AdmitSegment \/ AdmitRecovered
  <2> DEFINE publishes == LeaseCurrent /\ token.state \in {"invalid", "expiring"}
  <2>1. /\ UNCHANGED <<queue, outgoing, correcting, publishing, watch, sampled>>
        /\ Move(publishes, "ready") /\ publishes \in BOOLEAN
        /\ segment' \in {segment, <<>>}
    BY Zenon, <1>18 DEF AdmitSegment, AdmitRecovered, PublishIf, LeaseCurrent, source, watchdog
  <2>2. segment' # segment => ~Carries(segment, token)
    <3>1. CASE AdmitSegment
      <4>1. /\ correcting = NoToken /\ segment[1].kind # "correction"
            /\ Len(segment) > 1 => \A i \in 1..Len(segment) : segment[i].kind = "ordinary"
        BY Zenon, <3>1 DEF AdmitSegment, CorrectionInv, SegmentInv, PublishPcs
      <4>2. \A i \in 1..Len(segment) : segment[i].kind # "correction"
        BY <1>0, <4>1
      <4> QED BY Zenon, <1>0, <4>2 DEF LeasesInv, OnlyCorrections, Carries
    <3>2. CASE AdmitRecovered
      BY Zenon, <3>2 DEF AdmitRecovered
    <3> QED BY Zenon, <1>18, <3>1, <3>2
  <2> HIDE DEF publishes
  <2>3. CASE publishes
    BY Zenon, <1>m, <2>1, <2>3
  <2>4. CASE ~publishes
    <3>1. token' = token
      BY Zenon, <2>1, <2>4 DEF Move
    <3> QED BY Zenon, <1>0, <2>1, <2>2, <3>1 DEF OwnerInv, Expires
  <2> QED BY Zenon, <2>3, <2>4
<1>19. CASE FinishRecovery
  <2>1. /\ UNCHANGED <<queue, outgoing, correcting, publishing, watch, sampled>>
        /\ \/ signal.changed /\ UNCHANGED <<token, segment>>
           \/ ~signal.changed /\ segment' = <<>>
    BY Zenon, <1>19, FinishFacts DEF source, watchdog
  <2>2. CASE signal.changed
    BY Zenon, <1>k, <2>1, <2>2 DEF Expires
  <2>3. CASE ~signal.changed
    <3> DEFINE revokes == \E i \in Items(segment) : i.admission = token
    <3>1. Move(revokes, "invalid") /\ revokes \in BOOLEAN
      BY Zenon, <1>19, <2>3 DEF FinishRecovery
    <3>2. Carries(segment, token) => revokes
      BY Zenon DEF Carries, Items
    <3> HIDE DEF revokes
    <3>3. CASE revokes
      BY Zenon, <1>m, <2>1, <2>3, <3>1, <3>3
    <3>4. CASE ~revokes
      <4>1. token' = token
        BY Zenon, <3>1, <3>4 DEF Move
      <4> QED BY Zenon, <1>0, <2>1, <2>3, <3>2, <3>4, <4>1 DEF OwnerInv, Expires
    <3> QED BY Zenon, <3>3, <3>4
  <2> QED BY Zenon, <2>2, <2>3
<1> QED BY Zenon, <1>1, <1>2, <1>3, <1>4, <1>5, <1>6, <1>7, <1>8, <1>9, <1>10, <1>11, <1>12, <1>13, <1>14, <1>15, <1>16,
           <1>17, <1>18, <1>19 DEF Next, SourcePump, Watchdog, Reducer

(* The sets that OwnershipExclusive counts have at most one element.       *)
LEMMA CardinalityOfNone == Cardinality({}) = 0
<1> DEFINE F(f) == [T \in SUBSET {} |-> IF T = {} THEN 0 ELSE 1 + f[T \ {CHOOSE x : x \in T}]]
<1>1. \E f : f = F(f)
  <2> DEFINE f == [T \in SUBSET {} |-> 0]
  <2>1. f = F(f)
    BY Zenon
  <2> QED BY Zenon, <2>1
<1>2. PICK g : g = CHOOSE f : f = F(f)
  BY Zenon
<1>3. g = F(g)
  BY Zenon, <1>1, <1>2
<1>4. g[{}] = 0
  BY Zenon, <1>3
<1> QED BY Zenon, <1>2, <1>4 DEF Cardinality

(* A set of one element.                                                   *)
LEMMA CardinalityOfOne ==
    ASSUME NEW o
    PROVE  Cardinality({o}) = 1
<1> DEFINE F(f) == [T \in SUBSET {o} |-> IF T = {} THEN 0 ELSE 1 + f[T \ {CHOOSE x : x \in T}]]
<1>0. \A T \in SUBSET {o} : T = {} \/ (T = {o} /\ T \ {CHOOSE x : x \in T} = {})
  <2>1. (CHOOSE x : x \in {o}) = o
    BY Zenon
  <2> QED BY Zenon, <2>1
<1>1. \E f : f = F(f)
  <2> DEFINE f == [T \in SUBSET {o} |-> IF T = {} THEN 0 ELSE 1]
  <2>0. f[{}] = 0 
    BY Zenon
  <2>1. \A T \in SUBSET {o} : f[T] = IF T = {} THEN 0 ELSE 1 + f[T \ {CHOOSE x : x \in T}]
    BY <1>0, <2>0
  <2>2. f = F(f)
    BY Zenon, <2>1
  <2> QED BY Zenon, <2>2
<1>2. PICK g : g = CHOOSE f : f = F(f)
  BY Zenon
<1>3. g = F(g)
  BY Zenon, <1>1, <1>2
<1> HIDE DEF F
<1>5. \A T \in SUBSET {o} : g[T] = IF T = {} THEN 0 ELSE 1 + g[T \ {CHOOSE x : x \in T}]
  BY Zenon, <1>3 DEF F
<1>4. g[{}] = 0 /\ g[{o}] = 1
  <2>1. {} \in SUBSET {o} /\ {o} \in SUBSET {o} /\ {o} # {}
    BY Zenon
  <2>2. {o} \ {CHOOSE x : x \in {o}} = {}
    BY Zenon, <1>0, <2>1
  <2>3. g[{}] = 0
    BY Zenon, <1>5, <2>1
  <2>4. g[{o}] = 1 + g[{o} \ {CHOOSE x : x \in {o}}]
    BY Zenon, <1>5, <2>1
  <2> QED BY <2>2, <2>3, <2>4
<1> QED BY Zenon, <1>2, <1>4 DEF Cardinality, F

(* The owners counted.                                                     *)
LEMMA OwnersCounted ==
    ASSUME RuntimeInv, OwnerInv
    PROVE  OwnershipExclusive
<1> DEFINE joined == queue \o segment
           inFlight == joined \o outgoing
           owned == {i \in 1..Len(inFlight) : inFlight[i].admission = token}
           owners == {o \in {"correcting", "publishing", "expiring"} :
                        \/ o = "correcting" /\ correcting = token
                        \/ o = "publishing" /\ publishing = token
                        \/ o = "expiring" /\ Expires}
<1>1. /\ queue \in Seq(LeasedItem) /\ segment \in Seq(LeasedItem) /\ outgoing \in Seq(LeasedItem)
      /\ token \in Tokens /\ NoToken \notin Tokens
  BY Zenon, RuntimeAssumption DEF RuntimeInv, HoldersTyped
<1>2. joined \in Seq(LeasedItem) /\ inFlight \in Seq(LeasedItem)
  BY <1>1
<1>3. /\ Carries(joined, token) <=> Carries(queue, token) \/ Carries(segment, token)
      /\ CarriedOnce(joined, token)
  BY Zenon, <1>1, ConcatCarries DEF OwnerInv
<1>4. /\ Carries(inFlight, token) <=> Carries(joined, token) \/ Carries(outgoing, token)
      /\ CarriedOnce(inFlight, token)
  <2> HIDE DEF joined
  <2> QED BY <1>1, <1>2, <1>3, ConcatCarries DEF OwnerInv
<1>5. OwnershipExclusive <=> Cardinality(owned) + Cardinality(owners)
                               = IF token.state \in {"publishing", "expiring"} THEN 1 ELSE 0
  BY Zenon DEF OwnershipExclusive, OwnedAdmissions, Expires
<1>6. Carries(inFlight, token) => token.state = "publishing"
  <2> HIDE DEF inFlight
  <2>1. \A i \in 1..Len(inFlight) : inFlight[i] \in LeasedItem
    BY <1>2
  <2> QED BY Zenon, <1>1, <2>1 DEF Carries, LeasedItem, PublishingToken
<1>7. correcting = token \/ publishing = token => token.state = "publishing"
  BY Zenon, <1>1 DEF RuntimeInv, HoldersTyped, PublishingToken
<1>8. Cardinality(owned) = IF Carries(inFlight, token) THEN 1 ELSE 0
  <2> HIDE DEF inFlight
  <2>1. CASE Carries(inFlight, token)
    <3>1. PICK i \in 1..Len(inFlight) : inFlight[i].admission = token
      BY Zenon, <2>1 DEF Carries
    <3>2. owned = {i}
      BY Zenon, <1>4, <3>1 DEF CarriedOnce
    <3>3. Cardinality({i}) = 1
      BY Zenon, CardinalityOfOne
    <3> QED BY Zenon, <2>1, <3>2, <3>3
  <2>2. CASE ~Carries(inFlight, token)
    <3>1. owned = {}
      BY Zenon, <2>2 DEF Carries
    <3>2. Cardinality({}) = 0
      BY Zenon, CardinalityOfNone
    <3> QED BY Zenon, <2>2, <3>1, <3>2
  <2> QED BY Zenon, <2>1, <2>2
<1> HIDE DEF joined, inFlight, owned
<1>9. Cardinality(owners) = IF correcting = token \/ publishing = token \/ Expires THEN 1 ELSE 0
  <2>1. Cardinality({}) = 0 /\ \A o : Cardinality({o}) = 1
    BY Zenon, CardinalityOfNone, CardinalityOfOne
  <2>2. ~(correcting = token /\ publishing = token) /\ (Expires <=> token.state = "expiring")
    BY Zenon DEF OwnerInv
  <2>3. CASE correcting = token
    <3>1. owners = {"correcting"}
      BY Zenon, <1>7, <2>2, <2>3
    <3> QED BY Zenon, <2>1, <2>3, <3>1
  <2>4. CASE publishing = token
    <3>1. owners = {"publishing"}
      BY Zenon, <1>7, <2>2, <2>4
    <3> QED BY Zenon, <2>1, <2>4, <3>1
  <2>5. CASE Expires
    <3>1. owners = {"expiring"}
      BY Zenon, <1>7, <2>2, <2>5
    <3> QED BY Zenon, <2>1, <2>5, <3>1
  <2>6. CASE ~(correcting = token \/ publishing = token \/ Expires)
    <3>1. owners = {}
      BY Zenon, <2>6
    <3> QED BY Zenon, <2>1, <2>6, <3>1
  <2> QED BY Zenon, <2>3, <2>4, <2>5, <2>6
<1> HIDE DEF owners
<1>10. Cardinality(owned) + Cardinality(owners)
          = IF token.state \in {"publishing", "expiring"} THEN 1 ELSE 0
  BY <1>3, <1>4, <1>6, <1>7, <1>8, <1>9 DEF OwnerInv
<1> QED BY Zenon, <1>5, <1>10

(* The runtime connect() leaves has no owner to account for.               *)
LEMMA OwnershipInit == Init => LeasesInv /\ OwnerInv
<1> SUFFICES ASSUME Init PROVE LeasesInv /\ OwnerInv
  BY Zenon
<1>1. /\ queue = <<>> /\ segment = <<>> /\ outgoing = <<>> /\ watch = "idle"
      /\ correcting = NoToken /\ publishing = NoToken /\ token \in Tokens /\ token.state = "ready"
  BY SMTT(30), RuntimeInit DEF Init, RuntimeInv, HoldersTyped
<1>2. NoToken # token
  BY Zenon, <1>1, RuntimeAssumption
<1>3. LeasesInv
  BY Zenon, <1>1, EmptyCarries DEF LeasesInv
<1>4. OwnerInv
  BY Zenon, <1>1, <1>2, EmptyCarries DEF OwnerInv, Expires
<1> QED BY Zenon, <1>3, <1>4

(* Every step keeps the leases where they belong and the token's owner     *)
(* unique.                                                                 *)
THEOREM OwnershipInvariant == Spec => [](LeasesInv /\ OwnerInv)
<1>1. RuntimeInv /\ AdmissionInv /\ LeasesInv /\ OwnerInv /\ [Next]_vars => LeasesInv' /\ OwnerInv'
  BY Zenon, LeasesStep, OwnerStep DEF AdmissionInv
<1> QED BY <1>1, OwnershipInit, AdmissionInvariant, PTL DEF Spec

(* The token of an exclusive window has exactly one owner: an update on    *)
(* its way, the reducer's correction or publication, or the watchdog.      *)
THEOREM TokensHaveOneOwner == Spec => []OwnershipExclusive
<1>1. RuntimeInv /\ OwnerInv => OwnershipExclusive
  BY Zenon, OwnersCounted
<1> QED BY <1>1, AdmissionInvariant, OwnershipInvariant, PTL
=============================================================================
