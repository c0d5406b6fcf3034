------------------------- MODULE ClaimCleanupProofs -------------------------
(***************************************************************************)
(* What executeClaim and its recovery leave behind, for every set of       *)
(* claims, every choice of payload kinds and runtimes and every bound on   *)
(* faults.  RemainsInv and DeliveryInv are inductive together with         *)
(* ExecutionInv, which ClaimLifecycleProofs establishes; the two           *)
(* invariants of the run one_claim about the host, and its three action    *)
(* properties about saved reports, follow from them.                       *)
(***************************************************************************)
EXTENDS ClaimLifecycleProofs

USE DEF vars, job, session, host, server, history, fixed, Goto, Fault, NoFault, Removed, Reaped

-----------------------------------------------------------------------------
(* What is left on the host at each point, and what the marker says of it. *)

USE DEF RemainsInv, ContainersAreHeld, ProcessesAreHeld, StagingIsHeld, Recovering,
        Occupied, Unlaunched, Accepted, InContainer, Deliverable

\* What recovery relies on once it may deliver a report.
NothingRuns ==
  /\ procs = {} /\ containers = {} /\ scripts = {} /\ staging # "moved"
  /\ ~fresh => staging = "empty"

\* A restarted service leaves nothing that the marker does not name.
LEMMA RestartRemains == ASSUME ExecutionInv, RemainsInv, Restart PROVE RemainsInv'
BY DEF Restart

\* The poll loop of runPaired leaves nothing that the marker does not name.
LEMMA LoopRemains == ASSUME ExecutionInv, RemainsInv, Loop PROVE RemainsInv'
<1>1. CASE Connect
  BY <1>1 DEF Connect, Owned
<1>2. CASE ResumeNothing
  BY <1>2 DEF ResumeNothing
<1>3. CASE ResetStaging
  BY <1>3 DEF ResetStaging, ExecutionInv, TypeOK
<1>4. CASE PollIdle
  BY <1>4 DEF PollIdle, Owned
<1>5. CASE LoopFails
  BY <1>5 DEF LoopFails, Aborted, Leave
<1>6. ASSUME NEW c \in Claims, PollClaim(c) PROVE RemainsInv'
  BY <1>6 DEF PollClaim, ExecutionInv, HoldsStage
<1>7. ASSUME NEW c \in Claims, PollLost(c) PROVE RemainsInv'
  BY <1>7 DEF PollLost
<1> QED BY <1>1, <1>2, <1>3, <1>4, <1>5, <1>6, <1>7 DEF Loop

\* executeClaim up to the acknowledged start leaves nothing that the marker does not name.
LEMMA BeginRemains == ASSUME ExecutionInv, RemainsInv, Begin PROVE RemainsInv'
<1>1. CASE PersistLegacy
  BY <1>1 DEF PersistLegacy, Write
<1>2. CASE PersistLegacyFails
  BY <1>2 DEF PersistLegacyFails, Leave
<1>3. CASE RejectClaim
  BY <1>3 DEF RejectClaim, Leave
<1>4. CASE StartAcknowledged
  BY <1>4 DEF StartAcknowledged, ExecutionInv, HoldsStage
<1>5. CASE StartConflict
  BY <1>5 DEF StartConflict, Clear, ReturnConflict, Leave
<1>6. CASE StartAborts
  BY <1>6 DEF StartAborts, Leave
<1>7. CASE PrepareContainer
  BY <1>7 DEF PrepareContainer, Write, CleanupReport, ExecutionInv, HoldsStage
<1>8. CASE PrepareFails
  BY <1>8 DEF PrepareFails
<1>9. CASE ReportUnprepared
  BY <1>9 DEF ReportUnprepared, Leave, ReturnConflict
<1>10. CASE ReportUnpreparedAborts
  BY <1>10 DEF ReportUnpreparedAborts, Leave
<1> QED BY <1>1, <1>2, <1>3, <1>4, <1>5, <1>6, <1>7, <1>8, <1>9, <1>10 DEF Begin

\* Execution and its end leave nothing that the marker does not name.
LEMMA ExecuteRemains == ASSUME ExecutionInv, RemainsInv, Execute PROVE RemainsInv'
<1>1. CASE SetupFails
  BY <1>1 DEF SetupFails, ExecutionInv, HoldsStage
<1>2. CASE SetupHost
  BY <1>2 DEF SetupHost, ExecutionDone
<1>3. CASE SetupContainer
  BY <1>3 DEF SetupContainer, ExecutionDone
<1>4. CASE SetupPartial
  BY <1>4 DEF SetupPartial
<1>5. CASE RecordStage
  BY <1>5 DEF RecordStage, Write, TerminalReport, ExecutionInv, TypeOK
<1>6. CASE RecordStageFails
  BY <1>6 DEF RecordStageFails, WriteFails, TerminalReport
<1>7. CASE Launch
  BY <1>7 DEF Launch, ExecutionDone, Staged, ExecutionInv, TypeOK, HoldsStage
<1>8. CASE LaunchRefused
  BY <1>8 DEF LaunchRefused, AfterFailure
<1>9. ASSUME NEW b \in BOOLEAN, ExecutionEnds(b) PROVE RemainsInv'
  BY <1>9 DEF ExecutionEnds, Staged, AfterFailure
<1>10. CASE ContainerUnremoved
  BY <1>10 DEF ContainerUnremoved, EndsUnclean, AfterFailure
<1>11. CASE SupervisorUnconfirmed
  BY <1>11 DEF SupervisorUnconfirmed, EndsUnclean, AfterFailure
<1>12. CASE ScriptDirectoryRemains
  BY <1>12 DEF ScriptDirectoryRemains, EndsUnclean, AfterFailure
<1>13. CASE Publish
  BY <1>13 DEF Publish, ExecutionDone
<1>14. CASE PublishFails
  BY <1>14 DEF PublishFails
<1> QED BY <1>1, <1>2, <1>3, <1>4, <1>5, <1>6, <1>7, <1>8, <1>9, <1>10, <1>11,
       <1>12, <1>13, <1>14 DEF Execute

\* stage.close and the outcome of executeClaim leaves nothing that the marker does not name.
LEMMA FinishRemains == ASSUME ExecutionInv, RemainsInv, Finish PROVE RemainsInv'
<1>1. CASE CloseKeeps
  BY <1>1 DEF CloseKeeps, ExecutionInv, TypeOK
<1>2. CASE CloseContainer
  BY <1>2 DEF CloseContainer
<1>3. CASE CloseContainerFails
  BY <1>3 DEF CloseContainerFails
<1>4. CASE CloseRecords
  BY <1>4 DEF CloseRecords, Write, TerminalReport, ExecutionInv, TypeOK
<1>5. CASE CloseRecordsFails
  BY <1>5 DEF CloseRecordsFails, WriteFails, TerminalReport, ExecutionInv, TypeOK
<1>6. CASE Purge
  BY <1>6 DEF Purge
<1>7. CASE PurgeFails
  BY <1>7 DEF PurgeFails
<1>8. ASSUME NEW b \in BOOLEAN, Settle(b) PROVE RemainsInv'
  BY <1>8 DEF Settle
<1>9. CASE Hold
  BY <1>9 DEF Hold, TryWrite, TerminalReport, ReturnCleanupError, Write, WriteFails, Leave
<1>10. CASE ReportUnconfirmed
  BY <1>10 DEF ReportUnconfirmed, ReturnCleanupError, Leave
<1>11. CASE ReportUnconfirmedAborts
  BY <1>11 DEF ReportUnconfirmedAborts, ReturnCleanupError, Leave
<1>12. CASE SaveUnconfirmed
  BY <1>12
     DEF SaveUnconfirmed, TryWrite, CleanupReport, ReturnCleanupError, Write, WriteFails,
         Leave
<1>13. CASE SaveOutcome
  BY <1>13 DEF SaveOutcome, Write, TerminalReport
<1>14. CASE SaveOutcomeFails
  BY <1>14 DEF SaveOutcomeFails, Leave
<1> QED BY <1>1, <1>2, <1>3, <1>4, <1>5, <1>6, <1>7, <1>8, <1>9, <1>10, <1>11,
       <1>12, <1>13, <1>14 DEF Finish

\* resumeCleanupResult leaves nothing that the marker does not name.
LEMMA ResumeRemains == ASSUME ExecutionInv, RemainsInv, Resume PROVE RemainsInv'
<1>1. CASE ResumePurge
  BY <1>1 DEF ResumePurge, Leave
<1>2. CASE ResumeRootsBlocked
  BY <1>2 DEF ResumeRootsBlocked, RootsReplayable, Leave
<1>3. CASE ReportTerminal
  <2>1. NothingRuns
    BY <1>3 DEF ReportTerminal, Deliverable, NothingRuns
  <2> QED BY <1>3, <2>1 DEF ReportTerminal, ReturnConflict, Leave, Deliverable, NothingRuns
<1>4. CASE ConfirmCancellation
  <2>1. NothingRuns
    BY <1>4 DEF ConfirmCancellation, NothingRuns
  <2> QED BY <1>4, <2>1 DEF ConfirmCancellation, ReturnConflict, Leave, NothingRuns
<1>5. CASE ConfirmAborts
  <2>1. NothingRuns
    BY <1>5 DEF ConfirmAborts, NothingRuns
  <2> QED BY <1>5, <2>1 DEF ConfirmAborts, ReturnConflict, Leave, NothingRuns
<1>6. CASE ResumeCleanup
  BY <1>6 DEF ResumeCleanup, Owned
<1>7. CASE ResumeRuntimeBlocked
  BY <1>7 DEF ResumeRuntimeBlocked, Leave
<1>8. CASE ReportCleanup
  <2>1. NothingRuns
    BY <1>8 DEF ReportCleanup, NothingRuns
  <2> QED BY <1>8, <2>1 DEF ReportCleanup, ReturnConflict, Leave, NothingRuns
<1>9. CASE ResumeAborts
  BY <1>9 DEF ResumeAborts, Leave
<1>10. CASE SwapCancellation
  BY <1>10 DEF SwapCancellation, Rewrite, Leave
<1>11. CASE Acknowledge
  BY <1>11 DEF Acknowledge, Rewrite, Write, WriteFails, Leave, ExecutionInv, TypeOK, Markers
<1>12. CASE ResumeAcknowledged
  BY <1>12 DEF ResumeAcknowledged
<1>13. CASE Retire
  <2>1. NothingRuns
    BY <1>13 DEF Retire, NothingRuns
  <2> QED BY <1>13, <2>1 DEF Retire, Clear, ClearFails, Leave, NoMarker, NothingRuns
<1> QED BY <1>1, <1>2, <1>3, <1>4, <1>5, <1>6, <1>7, <1>8, <1>9, <1>10, <1>11,
       <1>12, <1>13 DEF Resume

\* The heartbeat goroutine leaves nothing that the marker does not name.
LEMMA HeartbeatRemains == ASSUME ExecutionInv, RemainsInv, Heartbeat PROVE RemainsInv'
BY DEF Heartbeat

\* Crashes, signals, the operator, lost answers and the server leave nothing that the marker does not name.
LEMMA EnvironmentRemains == ASSUME ExecutionInv, RemainsInv, Environment PROVE RemainsInv'
<1>1. CASE Crash
  BY <1>1 DEF Crash
<1>2. CASE Terminate
  BY <1>2 DEF Terminate
<1>3. CASE Reconfigure
  BY <1>3 DEF Reconfigure
<1>4. CASE ScriptMovesWorkspace
  BY <1>4 DEF ScriptMovesWorkspace
<1>5. CASE OperatorRestoresWorkspace
  BY <1>5 DEF OperatorRestoresWorkspace
<1>6. CASE AnswerLost
  BY <1>6 DEF AnswerLost
<1>7. ASSUME NEW c \in Claims, ServerReclaims(c) PROVE RemainsInv'
  BY <1>7 DEF ServerReclaims, ServerMoves
<1>8. ASSUME NEW c \in Claims, ServerCancels(c) PROVE RemainsInv'
  BY <1>8 DEF ServerCancels, ServerMoves
<1>9. ASSUME NEW c \in Claims, ServerGivesUp(c) PROVE RemainsInv'
  BY <1>9 DEF ServerGivesUp, ServerMoves
<1> QED BY <1>1, <1>2, <1>3, <1>4, <1>5, <1>6, <1>7, <1>8, <1>9 DEF Environment

-----------------------------------------------------------------------------
(* Whose report the marker holds, and how far it has been delivered.       *)

USE DEF DeliveryInv, ReportsAreOwn, ReportsAreDelivered, Reports

\* A restarted service keeps every saved report its claim's own.
LEMMA RestartDelivers == ASSUME ExecutionInv, RemainsInv, DeliveryInv, Restart PROVE DeliveryInv'
BY DEF Restart

\* The poll loop of runPaired keeps every saved report its claim's own.
LEMMA LoopDelivers == ASSUME ExecutionInv, RemainsInv, DeliveryInv, Loop PROVE DeliveryInv'
<1>1. CASE Connect
  BY <1>1 DEF Connect, Owned
<1>2. CASE ResumeNothing
  BY <1>2 DEF ResumeNothing
<1>3. CASE ResetStaging
  BY <1>3 DEF ResetStaging
<1>4. CASE PollIdle
  BY <1>4 DEF PollIdle, Owned
<1>5. CASE LoopFails
  BY <1>5 DEF LoopFails, Aborted, Leave
<1>6. ASSUME NEW c \in Claims, PollClaim(c) PROVE DeliveryInv'
  BY <1>6 DEF PollClaim, HandOut, Owned
<1>7. ASSUME NEW c \in Claims, PollLost(c) PROVE DeliveryInv'
  BY <1>7 DEF PollLost, HandOut
<1> QED BY <1>1, <1>2, <1>3, <1>4, <1>5, <1>6, <1>7 DEF Loop

\* executeClaim up to the acknowledged start keeps every saved report its claim's own.
LEMMA BeginDelivers == ASSUME ExecutionInv, RemainsInv, DeliveryInv, Begin PROVE DeliveryInv'
<1>1. CASE PersistLegacy
  BY <1>1 DEF PersistLegacy, Write, Legacy
<1>2. CASE PersistLegacyFails
  <2>1. pc = "claim" /\ marker' \in {marker, Legacy}
    BY <1>2 DEF PersistLegacyFails, WriteFails
  <2>2. marker'.kind \notin Reports
    BY <2>1 DEF Legacy, NoMarker
  <2>3. pc' \in {"down", "init"} /\ UNCHANGED <<host, server>>
    BY <1>2 DEF PersistLegacyFails, Leave
  <2> QED BY <2>2, <2>3
<1>3. CASE RejectClaim
  BY <1>3 DEF RejectClaim, Clear, ClearFails, Leave, NoMarker
<1>4. CASE StartAcknowledged
  BY <1>4
     DEF StartAcknowledged, Answers, Serve, Staged, WellFormed, Accepts, Moves,
         ResultStates, Complete, Transition
<1>5. CASE StartConflict
  BY <1>5
     DEF StartConflict, Answers, Clear, ClearFails, ReturnConflict, WellFormed, Accepts,
         NoMarker, Leave, Moves, ResultStates, Complete, Transition
<1>6. CASE StartAborts
  BY <1>6 DEF StartAborts, Clear, ClearFails, Leave, NoMarker
<1>7. CASE PrepareContainer
  BY <1>7 DEF PrepareContainer, Write, CleanupReport
<1>8. CASE PrepareFails
  BY <1>8 DEF PrepareFails, NoMarker, CleanupReport
<1>9. CASE ReportUnprepared
  BY <1>9
     DEF ReportUnprepared, Serve, Answers, Leave, ReturnConflict, Accepts, WellFormed,
         Moves, ResultStates, Complete, Transition, Duplicate, Rejected, CanTransition, Edges,
         ExecutionInv, TypeOK, HoldsClaim, HoldsStage, HoldsReport, NotYetRun, StartIsFinal,
         SuccessIsJustified
<1>10. CASE ReportUnpreparedAborts
  BY <1>10 DEF ReportUnpreparedAborts, Leave
<1> QED BY <1>1, <1>2, <1>3, <1>4, <1>5, <1>6, <1>7, <1>8, <1>9, <1>10 DEF Begin

\* Execution and its end keep every saved report its claim's own.
LEMMA ExecuteDelivers == ASSUME ExecutionInv, RemainsInv, DeliveryInv, Execute PROVE DeliveryInv'
<1>1. CASE SetupFails
  BY <1>1 DEF SetupFails
<1>2. CASE SetupHost
  BY <1>2 DEF SetupHost, ExecutionDone
<1>3. CASE SetupContainer
  BY <1>3 DEF SetupContainer, ExecutionDone
<1>4. CASE SetupPartial
  BY <1>4 DEF SetupPartial
<1>5. CASE RecordStage
  BY <1>5 DEF RecordStage, Write, TerminalReport, ExecutionInv, TypeOK
<1>6. CASE RecordStageFails
  BY <1>6 DEF RecordStageFails, WriteFails, TerminalReport, ExecutionInv, TypeOK
<1>7. CASE Launch
  BY <1>7 DEF Launch, ExecutionDone, Staged
<1>8. CASE LaunchRefused
  BY <1>8 DEF LaunchRefused, AfterFailure
<1>9. ASSUME NEW b \in BOOLEAN, ExecutionEnds(b) PROVE DeliveryInv'
  BY <1>9 DEF ExecutionEnds, Staged, AfterFailure
<1>10. CASE ContainerUnremoved
  BY <1>10 DEF ContainerUnremoved, EndsUnclean, AfterFailure
<1>11. CASE SupervisorUnconfirmed
  BY <1>11 DEF SupervisorUnconfirmed, EndsUnclean, AfterFailure
<1>12. CASE ScriptDirectoryRemains
  BY <1>12 DEF ScriptDirectoryRemains, EndsUnclean, AfterFailure
<1>13. CASE Publish
  BY <1>13 DEF Publish, ExecutionDone, HeartbeatValid
<1>14. CASE PublishFails
  BY <1>14 DEF PublishFails, HeartbeatValid
<1> QED BY <1>1, <1>2, <1>3, <1>4, <1>5, <1>6, <1>7, <1>8, <1>9, <1>10, <1>11,
       <1>12, <1>13, <1>14 DEF Execute

\* stage.close and the outcome of executeClaim keeps every saved report its claim's own.
LEMMA FinishDelivers == ASSUME ExecutionInv, RemainsInv, DeliveryInv, Finish PROVE DeliveryInv'
<1>1. CASE CloseKeeps
  BY <1>1 DEF CloseKeeps
<1>2. CASE CloseContainer
  BY <1>2 DEF CloseContainer
<1>3. CASE CloseContainerFails
  BY <1>3 DEF CloseContainerFails
<1>4. CASE CloseRecords
  BY <1>4 DEF CloseRecords, Write, TerminalReport, ExecutionInv, TypeOK
<1>5. CASE CloseRecordsFails
  BY <1>5 DEF CloseRecordsFails, WriteFails, TerminalReport, ExecutionInv, TypeOK
<1>6. CASE Purge
  BY <1>6 DEF Purge
<1>7. CASE PurgeFails
  BY <1>7 DEF PurgeFails
<1>8. ASSUME NEW b \in BOOLEAN, Settle(b) PROVE DeliveryInv'
  BY <1>8 DEF Settle
<1>9. CASE Hold
  BY <1>9 DEF Hold, TryWrite, TerminalReport, ReturnCleanupError, Write, WriteFails, Leave
<1>10. CASE ReportUnconfirmed
  BY <1>10
     DEF ReportUnconfirmed, Serve, Answers, ReturnCleanupError, Accepts, WellFormed, Leave,
         Moves, ResultStates, Complete, Transition, Duplicate, Rejected, CanTransition, Edges,
         ExecutionInv, TypeOK, HoldsClaim, HoldsStage, HoldsReport, NotYetRun, StartIsFinal,
         Results
<1>11. CASE ReportUnconfirmedAborts
  BY <1>11 DEF ReportUnconfirmedAborts, ReturnCleanupError, Leave
<1>12. CASE SaveUnconfirmed
  BY <1>12
     DEF SaveUnconfirmed, TryWrite, CleanupReport, ReturnCleanupError, Write, WriteFails,
         Leave
<1>13. CASE SaveOutcome
  BY <1>13 DEF SaveOutcome, Write, TerminalReport
<1>14. CASE SaveOutcomeFails
  BY <1>14 DEF SaveOutcomeFails, WriteFails, TerminalReport, Leave
<1> QED BY <1>1, <1>2, <1>3, <1>4, <1>5, <1>6, <1>7, <1>8, <1>9, <1>10, <1>11,
       <1>12, <1>13, <1>14 DEF Finish

\* resumeCleanupResult keeps every saved report its claim's own.
LEMMA ResumeDelivers == ASSUME ExecutionInv, RemainsInv, DeliveryInv, Resume PROVE DeliveryInv'
<1>1. CASE ResumePurge
  BY <1>1
     DEF ResumePurge, RootsReplayable, Write, WriteFails, Leave, ExecutionInv, TypeOK,
         Markers
<1>2. CASE ResumeRootsBlocked
  BY <1>2 DEF ResumeRootsBlocked, RootsReplayable, Leave
<1>3. CASE ReportTerminal
  BY <1>3
     DEF ReportTerminal, Answers, Serve, ReturnConflict, WellFormed, Accepts, Leave, Moves,
         ResultStates, Complete, Transition, Duplicate, Rejected, CanTransition, Edges,
         ExecutionInv, TypeOK, HoldsReport
<1>4. CASE ConfirmCancellation
  BY <1>4 DEF ConfirmCancellation, CancelRequested, ReturnConflict, Leave
<1>5. CASE ConfirmAborts
  BY <1>5 DEF ConfirmAborts, ReturnConflict, Leave
<1>6. CASE ResumeCleanup
  BY <1>6 DEF ResumeCleanup, Owned
<1>7. CASE ResumeRuntimeBlocked
  BY <1>7 DEF ResumeRuntimeBlocked, Leave
<1>8. CASE ReportCleanup
  BY <1>8
     DEF ReportCleanup, Answers, Serve, ReturnConflict, WellFormed, Accepts, Leave, Moves,
         ResultStates, Complete, Transition, Duplicate, Rejected, CanTransition, Edges,
         ExecutionInv, TypeOK, HoldsReport
<1>9. CASE ResumeAborts
  BY <1>9 DEF ResumeAborts, Leave
<1>10. CASE SwapCancellation
  BY <1>10
     DEF SwapCancellation, Rewrite, Write, WriteFails, Leave, ExecutionInv, TypeOK,
         HoldsClaim, HoldsStage, HoldsReport, NotYetRun, StartIsFinal, SuccessIsJustified,
         Markers, Results, ResultStates
<1>11. CASE Acknowledge
  BY <1>11 DEF Acknowledge, Rewrite, Write, WriteFails, Leave, ExecutionInv, TypeOK, Markers
<1>12. CASE ResumeAcknowledged
  BY <1>12 DEF ResumeAcknowledged
<1>13. CASE Retire
  BY <1>13 DEF Retire, Clear, Leave, ClearFails, NoMarker
<1> QED BY <1>1, <1>2, <1>3, <1>4, <1>5, <1>6, <1>7, <1>8, <1>9, <1>10, <1>11,
       <1>12, <1>13 DEF Resume

\* The heartbeat goroutine keeps every saved report its claim's own.
LEMMA HeartbeatDelivers == ASSUME ExecutionInv, RemainsInv, DeliveryInv, Heartbeat PROVE DeliveryInv'
BY DEF Heartbeat, CancelRequested, HeartbeatValid

\* Crashes, signals, the operator, lost answers and the server keep every saved report its claim's own.
LEMMA EnvironmentDelivers == ASSUME ExecutionInv, RemainsInv, DeliveryInv, Environment PROVE DeliveryInv'
<1>1. CASE Crash
  BY <1>1 DEF Crash
<1>2. CASE Terminate
  BY <1>2 DEF Terminate
<1>3. CASE Reconfigure
  BY <1>3 DEF Reconfigure
<1>4. CASE ScriptMovesWorkspace
  BY <1>4 DEF ScriptMovesWorkspace
<1>5. CASE OperatorRestoresWorkspace
  BY <1>5 DEF OperatorRestoresWorkspace
<1>6. CASE AnswerLost
  BY <1>6
     DEF AnswerLost, Results, Accepts, Serve, ResultStates, WellFormed, Moves, Complete,
         Transition, Duplicate, Rejected, CanTransition, Edges, ExecutionInv, TypeOK,
         HoldsReport
<1>7. ASSUME NEW c \in Claims, ServerReclaims(c) PROVE DeliveryInv'
  BY <1>7
     DEF ServerReclaims, Reclaim, ServerMoves, Rejected, Transition, CanTransition, Edges,
         ExecutionInv, TypeOK, HoldsClaim, HoldsStage, HoldsReport, NotYetRun, StartIsFinal,
         SuccessIsJustified, Results, ResultStates
<1>8. ASSUME NEW c \in Claims, ServerCancels(c) PROVE DeliveryInv'
  BY <1>8
     DEF ServerCancels, ServerMoves, CanTransition, Edges, ExecutionInv, TypeOK, HoldsClaim,
         HoldsStage, HoldsReport, NotYetRun, StartIsFinal, SuccessIsJustified, Results,
         ResultStates
<1>9. ASSUME NEW c \in Claims, ServerGivesUp(c) PROVE DeliveryInv'
  BY <1>9
     DEF ServerGivesUp, ServerMoves, CanTransition, Edges, ExecutionInv, TypeOK, HoldsClaim,
         HoldsStage, HoldsReport, NotYetRun, StartIsFinal, SuccessIsJustified, Results,
         ResultStates
<1> QED BY <1>1, <1>2, <1>3, <1>4, <1>5, <1>6, <1>7, <1>8, <1>9 DEF Environment

-----------------------------------------------------------------------------
(* What a step may do to a saved report, and to a recorded outcome.         *)

\* Only these steps write the marker.
LEMMA MarkerWriters ==
  ASSUME Next, marker' # marker
  PROVE  \/ PersistLegacy \/ PersistLegacyFails \/ RejectClaim \/ StartConflict
         \/ StartAborts \/ PrepareContainer \/ PrepareFails \/ RecordStage
         \/ RecordStageFails \/ CloseRecords \/ CloseRecordsFails \/ Hold
         \/ SaveUnconfirmed \/ SaveOutcome \/ SaveOutcomeFails \/ ResumePurge
         \/ SwapCancellation \/ Acknowledge \/ Retire
<1>1. CASE Restart
  BY <1>1 DEF Restart
<1>2. CASE Loop
  BY <1>2
     DEF Loop, Connect, ResumeNothing, ResetStaging, PollIdle, LoopFails, PollClaim,
         PollLost
<1>3. CASE Begin
  BY <1>3 DEF Begin, StartAcknowledged, ReportUnprepared, ReportUnpreparedAborts
<1>4. CASE Execute
  BY <1>4
     DEF Execute, SetupFails, SetupHost, SetupContainer, SetupPartial, Launch,
         LaunchRefused, ExecutionEnds, ContainerUnremoved, SupervisorUnconfirmed,
         ScriptDirectoryRemains, Publish, PublishFails, EndsUnclean
<1>5. CASE Finish
  BY <1>5
     DEF Finish, CloseKeeps, CloseContainer, CloseContainerFails, Purge, PurgeFails, Settle,
         ReportUnconfirmed, ReportUnconfirmedAborts
<1>6. CASE Resume
  BY <1>6
     DEF Resume, ResumeRootsBlocked, ReportTerminal, ConfirmCancellation, ConfirmAborts,
         ResumeCleanup, ResumeRuntimeBlocked, ReportCleanup, ResumeAborts, ResumeAcknowledged
<1>7. CASE Heartbeat
  BY <1>7 DEF Heartbeat
<1>8. CASE Environment
  BY <1>8
     DEF Environment, Crash, Terminate, Reconfigure, ScriptMovesWorkspace,
         OperatorRestoresWorkspace, AnswerLost, ServerReclaims, ServerCancels, ServerGivesUp,
         ServerMoves
<1> QED BY <1>1, <1>2, <1>3, <1>4, <1>5, <1>6, <1>7, <1>8 DEF Next, Agent

\* Only these steps change what the server holds.
LEMMA DispatchMovers ==
  ASSUME Next, disp' # disp
  PROVE  \/ \E c \in Claims : PollClaim(c) \/ PollLost(c)
         \/ StartAcknowledged \/ ReportUnprepared \/ ReportUnconfirmed
         \/ ReportTerminal \/ ReportCleanup \/ AnswerLost
         \/ \E c \in Claims : ServerReclaims(c) \/ ServerCancels(c) \/ ServerGivesUp(c)
<1>1. CASE Restart
  BY <1>1 DEF Restart
<1>2. CASE Loop
  BY <1>2 DEF Loop, Connect, ResumeNothing, ResetStaging, PollIdle, LoopFails
<1>3. CASE Begin
  BY <1>3
     DEF Begin, PersistLegacy, PersistLegacyFails, RejectClaim, StartConflict, StartAborts,
         PrepareContainer, PrepareFails, ReportUnpreparedAborts
<1>4. CASE Execute
  BY <1>4
     DEF Execute, SetupFails, SetupHost, SetupContainer, SetupPartial, RecordStage,
         RecordStageFails, Launch, LaunchRefused, ExecutionEnds, ContainerUnremoved,
         SupervisorUnconfirmed, ScriptDirectoryRemains, Publish, PublishFails, EndsUnclean
<1>5. CASE Finish
  BY <1>5
     DEF Finish, CloseKeeps, CloseContainer, CloseContainerFails, CloseRecords,
         CloseRecordsFails, Purge, PurgeFails, Settle, Hold, ReportUnconfirmedAborts,
         SaveUnconfirmed, SaveOutcome, SaveOutcomeFails
<1>6. CASE Resume
  BY <1>6
     DEF Resume, ResumePurge, ResumeRootsBlocked, ConfirmCancellation, ConfirmAborts,
         ResumeCleanup, ResumeRuntimeBlocked, ResumeAborts, SwapCancellation, Acknowledge,
         ResumeAcknowledged, Retire, Rewrite
<1>7. CASE Heartbeat
  BY <1>7 DEF Heartbeat
<1>8. CASE Environment
  BY <1>8
     DEF Environment, Crash, Terminate, Reconfigure, ScriptMovesWorkspace,
         OperatorRestoresWorkspace
<1> QED BY <1>1, <1>2, <1>3, <1>4, <1>5, <1>6, <1>7, <1>8 DEF Next, Agent

\* A report that leaves the disk has been delivered.
LEMMA RetiringStep ==
  ASSUME ExecutionInv, RemainsInv, DeliveryInv, Next,
         marker.kind \in Reports, marker'.claim # marker.claim \/ marker'.kind \notin Reports
  PROVE  disp[marker.claim] = marker.result
<1>1. marker' # marker
  OBVIOUS
<1>2. CASE PersistLegacy
  BY <1>2 DEF PersistLegacy, Write, Legacy
<1>3. CASE PersistLegacyFails
  BY <1>3 DEF PersistLegacyFails, WriteFails, Legacy, Leave
<1>4. CASE RejectClaim
  BY <1>4 DEF RejectClaim, Clear, ClearFails, Leave
<1>5. CASE StartConflict
  BY <1>5
     DEF StartConflict, Answers, Clear, ClearFails, ReturnConflict, WellFormed, Accepts,
         NoMarker, Leave, Moves, ResultStates, Complete, Transition, Duplicate, Rejected,
         CanTransition
<1>6. CASE StartAborts
  BY <1>6 DEF StartAborts, Clear, ClearFails, Leave
<1>7. CASE PrepareContainer
  BY <1>7 DEF PrepareContainer, Write, CleanupReport
<1>8. CASE PrepareFails
  BY <1>8 DEF PrepareFails, NoMarker
<1>9. CASE RecordStage
  BY <1>9 DEF RecordStage, Write, TerminalReport
<1>10. CASE RecordStageFails
  BY <1>10 DEF RecordStageFails, WriteFails, TerminalReport
<1>11. CASE CloseRecords
  BY <1>11 DEF CloseRecords, Write, TerminalReport
<1>12. CASE CloseRecordsFails
  BY <1>12 DEF CloseRecordsFails, WriteFails, TerminalReport
<1>13. CASE Hold
  BY <1>13 DEF Hold, TryWrite, TerminalReport, ReturnCleanupError, Write, WriteFails
<1>14. CASE SaveUnconfirmed
  BY <1>14
     DEF SaveUnconfirmed, TryWrite, CleanupReport, ReturnCleanupError, Write, WriteFails
<1>15. CASE SaveOutcome
  BY <1>15 DEF SaveOutcome, Write, TerminalReport
<1>16. CASE SaveOutcomeFails
  BY <1>16 DEF SaveOutcomeFails, WriteFails, TerminalReport
<1>17. CASE ResumePurge
  BY <1>17
     DEF ResumePurge, RootsReplayable, Write, WriteFails, ExecutionInv, TypeOK, Markers
<1>18. CASE SwapCancellation
  BY <1>18 DEF SwapCancellation, Rewrite, Write, WriteFails, ExecutionInv, TypeOK, Markers
<1>19. CASE Acknowledge
  BY <1>19 DEF Acknowledge, Rewrite, Write, WriteFails
<1>20. CASE Retire
  BY <1>20 DEF Retire, Clear, Leave, ClearFails
<1> QED BY <1>1, <1>2, <1>3, <1>4, <1>5, <1>6, <1>7, <1>8, <1>9, <1>10, <1>11,
       <1>12, <1>13, <1>14, <1>15, <1>16, <1>17, <1>18, <1>19, <1>20, MarkerWriters

\* A result ready for delivery is replaced by a confirmed cancellation only.
LEMMA RewritingStep ==
  ASSUME ExecutionInv, RemainsInv, DeliveryInv, Next,
         Deliverable, marker'.kind = "terminal", marker'.claim = marker.claim,
         marker'.result # marker.result
  PROVE  /\ marker'.result = "cancelled"
         /\ disp[marker.claim] \in {"cancel_requested", "cancelled", "cancel_unconfirmed",
                                   "lost"}
<1>1. marker' # marker
  OBVIOUS
<1>2. CASE PersistLegacy
  BY <1>2 DEF PersistLegacy, Write, Legacy
<1>3. CASE PersistLegacyFails
  BY <1>3 DEF PersistLegacyFails, WriteFails, Legacy, Leave
<1>4. CASE RejectClaim
  BY <1>4 DEF RejectClaim, Clear, ClearFails, Leave
<1>5. CASE StartConflict
  BY <1>5
     DEF StartConflict, Answers, Clear, ClearFails, ReturnConflict, WellFormed, Accepts,
         NoMarker, Leave, Moves, ResultStates, Complete, Transition, Duplicate, Rejected,
         CanTransition
<1>6. CASE StartAborts
  BY <1>6 DEF StartAborts, Clear, ClearFails, Leave
<1>7. CASE PrepareContainer
  BY <1>7 DEF PrepareContainer, Write, CleanupReport
<1>8. CASE PrepareFails
  BY <1>8 DEF PrepareFails, NoMarker
<1>9. CASE RecordStage
  BY <1>9 DEF RecordStage, Write
<1>10. CASE RecordStageFails
  BY <1>10 DEF RecordStageFails, WriteFails
<1>11. CASE CloseRecords
  BY <1>11 DEF CloseRecords, Write
<1>12. CASE CloseRecordsFails
  BY <1>12 DEF CloseRecordsFails, WriteFails
<1>13. CASE Hold
  BY <1>13 DEF Hold, TryWrite, TerminalReport, ReturnCleanupError, Write, WriteFails
<1>14. CASE SaveUnconfirmed
  BY <1>14
     DEF SaveUnconfirmed, TryWrite, CleanupReport, ReturnCleanupError, Write, WriteFails
<1>15. CASE SaveOutcome
  BY <1>15 DEF SaveOutcome, Write
<1>16. CASE SaveOutcomeFails
  BY <1>16 DEF SaveOutcomeFails, WriteFails, TerminalReport
<1>17. CASE ResumePurge
  BY <1>17 DEF ResumePurge, RootsReplayable, Write, WriteFails
<1>18. CASE SwapCancellation
  BY <1>18 DEF SwapCancellation, Rewrite, Write, WriteFails, ExecutionInv, TypeOK, Markers
<1>19. CASE Acknowledge
  BY <1>19 DEF Acknowledge, Rewrite, Write, WriteFails, ExecutionInv, TypeOK, Markers
<1>20. CASE Retire
  BY <1>20 DEF Retire, Clear, Leave, ClearFails, NoMarker
<1> QED BY <1>1, <1>2, <1>3, <1>4, <1>5, <1>6, <1>7, <1>8, <1>9, <1>10, <1>11,
       <1>12, <1>13, <1>14, <1>15, <1>16, <1>17, <1>18, <1>19, <1>20, MarkerWriters

\* The server learns a plain outcome of executed work when nothing of it is left.
LEMMA OutcomeStep ==
  ASSUME ExecutionInv, RemainsInv, DeliveryInv, Next, NEW c \in Claims,
         executed[c] > 0, disp'[c] # disp[c], disp'[c] \in {"succeeded", "failed", "cancelled"}
  PROVE  c \notin procs' /\ staging' = "empty" /\ \A x \in containers' : x[1] # c
<1>1. disp' # disp
  OBVIOUS
<1>2. CASE \E b \in Claims : PollClaim(b) \/ PollLost(b)
  BY <1>2
     DEF PollClaim, HandOut, Owned, Transition, CanTransition, Rejected, Edges, PollLost,
         ExecutionInv, TypeOK, HoldsClaim, HoldsReport, NotYetRun, StartIsFinal,
         SuccessIsJustified, Outcomes, Results, ResultStates, Markers, Serve
<1>3. CASE StartAcknowledged
  BY <1>3
     DEF StartAcknowledged, Answers, Serve, Staged, WellFormed, Accepts, Moves,
         ResultStates, Complete, Transition, Duplicate, Rejected, CanTransition, Edges,
         ExecutionInv, TypeOK, HoldsClaim, HoldsReport, NotYetRun, StartIsFinal
<1>4. CASE ReportUnprepared
  BY <1>4
     DEF ReportUnprepared, Serve, Answers, Leave, ReturnConflict, Accepts, WellFormed,
         Moves, ResultStates, Complete, Transition, Duplicate, Rejected, CanTransition, Edges,
         ExecutionInv, TypeOK, HoldsClaim, HoldsReport, NotYetRun, StartIsFinal
<1>5. CASE ReportUnconfirmed
  BY <1>5
     DEF ReportUnconfirmed, Serve, Answers, ReturnCleanupError, Accepts, WellFormed, Leave,
         Moves, ResultStates, Complete, Transition, Duplicate, Rejected, CanTransition, Edges,
         ExecutionInv, TypeOK, HoldsClaim, HoldsReport, NotYetRun, StartIsFinal
<1>6. CASE ReportTerminal
  BY <1>6
     DEF ReportTerminal, Answers, Serve, ReturnConflict, WellFormed, Accepts, Leave, Moves,
         ResultStates, Complete, Transition, Duplicate, Rejected, CanTransition, Edges,
         ExecutionInv, TypeOK, HoldsClaim, HoldsReport, NotYetRun, StartIsFinal
<1>7. CASE ReportCleanup
  BY <1>7
     DEF ReportCleanup, Answers, Serve, ReturnConflict, WellFormed, Accepts, Leave, Moves,
         ResultStates, Complete, Transition, Duplicate, Rejected, CanTransition, Edges,
         ExecutionInv, TypeOK, HoldsClaim, HoldsReport, NotYetRun, StartIsFinal
<1>8. CASE AnswerLost
  BY <1>8
     DEF AnswerLost, Results, Accepts, Serve, ResultStates, WellFormed, Moves, Complete,
         Transition, Duplicate, Rejected, CanTransition, Edges, ExecutionInv, TypeOK,
         HoldsClaim, HoldsReport, NotYetRun
<1>9. CASE \E b \in Claims : ServerReclaims(b) \/ ServerCancels(b) \/ ServerGivesUp(b)
  BY <1>9
     DEF ServerReclaims, Reclaim, ServerMoves, Rejected, Transition, CanTransition, Edges,
         ServerCancels, ServerGivesUp, ExecutionInv, TypeOK, HoldsClaim, HoldsReport, NotYetRun,
         StartIsFinal, SuccessIsJustified, Outcomes, Results, ResultStates, Markers, Serve
<1> QED BY <1>1, <1>2, <1>3, <1>4, <1>5, <1>6, <1>7, <1>8, <1>9, DispatchMovers

-----------------------------------------------------------------------------
(* The theorems.                                                           *)

\* Both invariants hold before the agent first starts.
LEMMA InitRemains == ASSUME Init PROVE RemainsInv /\ DeliveryInv
BY DEF Init, NoMarker

\* Every step, and every stuttering step, preserves both.
LEMMA NextRemains ==
  ASSUME ExecutionInv, RemainsInv, DeliveryInv, [Next]_vars
  PROVE  RemainsInv' /\ DeliveryInv'
<1>1. CASE UNCHANGED vars
  BY <1>1
<1>2. CASE Next
  <2>1. RemainsInv'
    BY <1>2, RestartRemains, LoopRemains, BeginRemains, ExecuteRemains, FinishRemains, ResumeRemains, HeartbeatRemains, EnvironmentRemains
       DEF Next, Agent
  <2>2. DeliveryInv'
    BY <1>2, RestartDelivers, LoopDelivers, BeginDelivers, ExecuteDelivers, FinishDelivers, ResumeDelivers, HeartbeatDelivers, EnvironmentDelivers
       DEF Next, Agent
  <2> QED BY <2>1, <2>2
<1> QED BY <1>1, <1>2

HIDE DEF RemainsInv, DeliveryInv

\* What is left on the host is always this claim's or named by the marker, and
\* a saved report is the claim's own and delivered before it counts as such.
THEOREM LeftoversInvariant == Spec => [](RemainsInv /\ DeliveryInv)
<1>1. Init => RemainsInv /\ DeliveryInv
  BY InitRemains
<1>2. ExecutionInv /\ RemainsInv /\ DeliveryInv /\ [Next]_vars => RemainsInv' /\ DeliveryInv'
  BY NextRemains
<1> QED BY <1>1, <1>2, ExecutionInvariant, PTL DEF Spec

\* The report on disk is that of the claim in execution, if there is one; it is delivered
\* only with nothing staged left, and counts as delivered only once the server holds its
\* result (persistTerminalResult, resumeCleanupResult).
THEOREM ReportsAreFaithful == Spec => []DeliveryInv
BY LeftoversInvariant, PTL

\* runPaired asks for the next claim only with nothing of an earlier one left on
\* the host, whatever crashed, failed or was moved away before.
THEOREM PollsClean == Spec => []CleanBeforePoll
<1>1. RemainsInv => CleanBeforePoll
  BY DEF CleanBeforePoll, RemainsInv
<1> QED BY <1>1, LeftoversInvariant, PTL

\* A container or a supervised process that exists is named by the claim marker
\* on disk, so that a restarted agent finds it.
THEOREM LeftoversAreRecorded == Spec => []WorkIsRecorded
<1>1. RemainsInv => WorkIsRecorded
  BY DEF WorkIsRecorded, RemainsInv
<1> QED BY <1>1, LeftoversInvariant, PTL

\* A plain outcome of executed work reaches the server only when none of its
\* processes, containers or staged data is left on the host.
THEOREM OutcomeFollowsCleanup == Spec => OutcomeAfterCleanup
<1>1. ASSUME ExecutionInv, RemainsInv, DeliveryInv, [Next]_vars
      PROVE  \A c \in Claims :
               /\ executed[c] > 0 /\ disp'[c] # disp[c]
               /\ disp'[c] \in {"succeeded", "failed", "cancelled"}
               => c \notin procs' /\ staging' = "empty" /\ \A x \in containers' : x[1] # c
  BY <1>1, OutcomeStep
<1> QED BY ExecutionInvariant, LeftoversInvariant, <1>1, PTL DEF Spec, OutcomeAfterCleanup

\* A saved report is removed, or replaced by another claim's, only after the
\* server recorded its result, however often the agent was restarted.
THEOREM ReportsAreRetiredDelivered == Spec => RetireOnlyDelivered
<1>1. ASSUME ExecutionInv, RemainsInv, DeliveryInv, [Next]_vars
      PROVE  marker.kind \in {"terminal", "cleanup"} /\ executed[marker.claim] > 0
               /\ (marker'.claim # marker.claim \/ marker'.kind \notin {"terminal", "cleanup"})
               => disp[marker.claim] = marker.result
  BY <1>1, RetiringStep DEF Reports
<1> QED BY ExecutionInvariant, LeftoversInvariant, <1>1, PTL DEF Spec, RetireOnlyDelivered

\* A result saved for delivery is only ever replaced by a cancellation that the
\* server asked for.
THEOREM SavedResultStands == Spec => SavedOutcomeStands
<1>1. ASSUME ExecutionInv, RemainsInv, DeliveryInv, [Next]_vars
      PROVE  marker.kind = "terminal" /\ marker.roots = "none"
               /\ marker'.kind = "terminal" /\ marker'.claim = marker.claim
               /\ marker'.result # marker.result
               => /\ marker'.result = "cancelled"
                  /\ disp[marker.claim] \in {"cancel_requested", "cancelled",
                                             "cancel_unconfirmed", "lost"}
  BY <1>1, RewritingStep DEF Deliverable
<1> QED BY ExecutionInvariant, LeftoversInvariant, <1>1, PTL DEF Spec, SavedOutcomeStands
=============================================================================
