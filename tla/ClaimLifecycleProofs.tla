------------------------ MODULE ClaimLifecycleProofs ------------------------
(***************************************************************************)
(* ExecutionInv is an inductive invariant of ClaimLifecycle for every set  *)
(* of claims, every choice of payload kinds and runtimes and every bound   *)
(* on faults; the types, AtMostOneExecution, TruthfulSuccess and the       *)
(* implementation of DeploymentOutcome follow from it.                     *)
(*                                                                         *)
(* Most steps either leave executeClaim (QuitInv) or move on between its   *)
(* rounds (RecoverInv); both lemmas only ask what the step does to the     *)
(* marker (SoundMarker), the server (ServerSteps) and the host.            *)
(***************************************************************************)
EXTENDS ClaimLifecycle, TLAPS

USE DEF vars, job, session, host, server, history, fixed, Goto, Fault, NoFault, Removed, Reaped

-----------------------------------------------------------------------------
(* The dispatch contract.                                                  *)

\* What Transition and Complete (protocol/state.go) return: a refusal, the state
\* itself for a duplicate, or the target of an edge.
LEMMA TransitionFacts ==
  ASSUME NEW from \in DispatchStates, NEW to, CanTransition(from, to)
  PROVE  /\ to \in DispatchStates /\ from \notin Final
         /\ from \notin {"waiting", "claimed"} => to \notin {"waiting", "claimed"}
         /\ to = "started" => from = "claimed"
         /\ to = "cancelled" => from \in {"waiting", "claimed", "started", "cancel_requested"}
         /\ from \in Live /\ to \notin ResultStates \cup {"cancelled"} => to \in Live
BY DEF CanTransition, Edges, DispatchStates, Final, Live, ResultStates

\* A poll hands out a waiting deployment only, and leaves it claimed.
LEMMA ClaimedFacts ==
  Transition("waiting", "claimed") = "claimed" /\ CanTransition("waiting", "claimed")
BY DEF Transition, CanTransition, Edges

\* An accepted request is an edge of the contract, whichever function decided.
LEMMA MovesFacts ==
  ASSUME NEW c, disp[c] \in DispatchStates, NEW to \in Results \cup {"started"},
         Moves(c, to) = to
  PROVE  CanTransition(disp[c], to)
BY DEF Moves, Complete, Transition, Rejected, Duplicate, Results, ResultStates

-----------------------------------------------------------------------------
(* What a step may do at the server without disturbing the invariant.      *)

ServerSteps ==
  /\ disp' \in [Claims -> DispatchStates] /\ epoch' \in [Claims -> Nat]
  /\ published \subseteq published' /\ published' \subseteq Claims
  /\ \A c \in Claims : disp'[c] # disp[c] =>
       /\ CanTransition(disp[c], disp'[c])
       /\ disp'[c] = "succeeded" => Justified(c)
       /\ pc \in Accepted /\ c = cur => disp'[c] \in Live

\* A step that leaves the server alone respects the dispatch contract.
LEMMA NoServerStep == ASSUME ExecutionInv, UNCHANGED server PROVE ServerSteps
BY DEF ExecutionInv, TypeOK, ServerSteps

\* One served request changes at most one deployment, along an edge.
LEMMA ServeFacts ==
  ASSUME ExecutionInv, NEW c \in Claims, NEW t, NEW to \in Results \cup {"started"},
         to = "succeeded" => Justified(c), pc \in Accepted => c # cur, Serve(c, t, to)
  PROVE  ServerSteps
<1> USE DEF ExecutionInv, TypeOK
<1>1. CASE Accepts(c, t, to)
  <2>1. CanTransition(disp[c], to) /\ to \in DispatchStates
    BY <1>1, MovesFacts, TransitionFacts DEF Accepts
  <2>2. disp' = [disp EXCEPT ![c] = to] /\ UNCHANGED <<epoch, published>>
    BY <1>1 DEF Serve
  <2> QED BY <2>1, <2>2 DEF ServerSteps
<1>2. CASE ~Accepts(c, t, to)
  BY <1>2, NoServerStep DEF Serve
<1> QED BY <1>1, <1>2

\* Along edges a started deployment is never waiting again and no final
\* outcome is replaced.
LEMMA ServerStepsInv ==
  ASSUME ExecutionInv, ServerSteps, UNCHANGED <<history, kind>>
  PROVE  /\ \A c \in Claims : executed'[c] > 0 => disp'[c] \notin {"waiting", "claimed"}
         /\ \A c \in Claims : Justified(c) => Justified(c)'
         /\ \A c \in Claims : disp'[c] = "succeeded" => Justified(c)'
         /\ pc \in Accepted /\ cur \in Claims => disp'[cur] \in Live
<1> USE DEF ExecutionInv, TypeOK, ServerSteps
<1>1. \A c \in Claims : executed'[c] > 0 => disp'[c] \notin {"waiting", "claimed"}
  BY TransitionFacts DEF StartIsFinal
<1>2. \A c \in Claims : Justified(c) => Justified(c)'
  BY DEF Justified, Staged
<1>3. \A c \in Claims : disp'[c] = "succeeded" => Justified(c)'
  BY <1>2 DEF SuccessIsJustified
<1>4. pc \in Accepted /\ cur \in Claims => disp'[cur] \in Live
  BY DEF StartIsFinal
<1> QED BY <1>1, <1>2, <1>3, <1>4

-----------------------------------------------------------------------------
(* The marker: whatever is written is well-typed and claims no success     *)
(* that did not happen.                                                    *)

SoundMarker(m) ==
  /\ m \in Markers
  /\ m.kind \in {"terminal", "cleanup"} => m.claim \in Claims /\ m.result \in Results
  /\ m.result = "succeeded" => m.claim \in Claims /\ Justified(m.claim)

\* Every marker the agent writes or keeps is a sound one.
LEMMA MarkerFacts ==
  ASSUME ExecutionInv
  PROVE  /\ SoundMarker(marker) /\ SoundMarker(NoMarker) /\ SoundMarker(Legacy)
         /\ SoundMarker([marker EXCEPT !.roots = "none"])
         /\ SoundMarker([marker EXCEPT !.result = "cancelled"])
         /\ SoundMarker([marker EXCEPT !.acked = TRUE])
<1> USE DEF SoundMarker, Markers, Outcomes, Results, ResultStates, Endpoints, Roots
<1>1. SoundMarker(marker)
  BY DEF ExecutionInv, TypeOK, SuccessIsJustified, HoldsReport
<1>2. SoundMarker(NoMarker)
  BY DEF NoMarker
<1>3. SoundMarker(Legacy)
  BY DEF Legacy, NoMarker, ExecutionInv, TypeOK
<1>4. /\ SoundMarker([marker EXCEPT !.roots = "none"])
      /\ SoundMarker([marker EXCEPT !.result = "cancelled"])
      /\ SoundMarker([marker EXCEPT !.acked = TRUE])
  BY <1>1
<1> QED BY <1>1, <1>2, <1>3, <1>4

\* The two reports executeClaim saves are sound for the claim it holds.
LEMMA ReportFacts ==
  ASSUME ExecutionInv, pc \in Occupied
  PROVE  /\ cur \in Claims
         /\ SoundMarker(CleanupReport(TRUE)) /\ SoundMarker(CleanupReport(FALSE))
         /\ \A h \in Roots : SoundMarker(TerminalReport("failed", h))
         /\ pc = "outcome" => SoundMarker(TerminalReport(outcome, "none"))
<1> USE DEF SoundMarker, Markers, Outcomes, Results, ResultStates, Endpoints, Roots
<1>1. cur \in Claims
  BY DEF ExecutionInv, HoldsClaim
<1>2. SoundMarker(CleanupReport(TRUE)) /\ SoundMarker(CleanupReport(FALSE))
  BY <1>1 DEF CleanupReport, ExecutionInv, TypeOK
<1>3. \A h \in Roots : SoundMarker(TerminalReport("failed", h))
  BY <1>1 DEF TerminalReport, ExecutionInv, TypeOK
<1>4. pc = "outcome" => SoundMarker(TerminalReport(outcome, "none"))
  BY <1>1 DEF TerminalReport, ExecutionInv, TypeOK, HoldsReport, SuccessIsJustified
<1> QED BY <1>1, <1>2, <1>3, <1>4
-----------------------------------------------------------------------------
(* Leaving executeClaim or a recovery attempt.                             *)

HostTypes ==
  /\ staging' \in {"empty", "inside", "moved"} /\ procs' \subseteq Claims
  /\ scripts' \subseteq Claims /\ containers' \subseteq Claims \X Endpoints
  /\ faults' \in Nat

\* Host state that a step does not touch keeps its types.
LEMMA HostUnchanged ==
  ASSUME ExecutionInv, UNCHANGED host, NoFault \/ Fault
  PROVE  HostTypes
BY DEF ExecutionInv, TypeOK, HostTypes

Left ==
  /\ pc' \in {"down", "init", "resume"} /\ cur' = NoClaim /\ tok' = 0
  /\ term' = FALSE /\ fresh' \in BOOLEAN
  /\ stage' = "none" /\ roots' = "none" /\ errs' = {} /\ outcome' = "none" /\ hb' = "off"

\* Leave forgets everything about the claim.
LEMMA LeaveFacts ==
  ASSUME ExecutionInv, NEW next \in {"down", "init", "resume"}, Leave(next)
  PROVE  Left
BY DEF Leave, Left, ExecutionInv, TypeOK

\* Both ways of returning from executeClaim are a Leave.
LEMMA ReturnFacts ==
  ASSUME ExecutionInv, ReturnConflict \/ ReturnCleanupError
  PROVE  Left
BY LeaveFacts DEF ReturnConflict, ReturnCleanupError

\* Returning from executeClaim or a recovery attempt preserves the invariant.
LEMMA QuitInv ==
  ASSUME ExecutionInv, Left, SoundMarker(marker'), ServerSteps, HostTypes,
         UNCHANGED <<history, fixed>>
  PROVE  ExecutionInv'
<1> USE DEF Left, HostTypes
<1>1. TypeOK'
  BY DEF ExecutionInv, TypeOK, SoundMarker, PCs, Outcomes, Roots, ServerSteps
<1>2. HoldsClaim' /\ HoldsStage' /\ HoldsReport' /\ NotYetRun' /\ AtMostOneExecution'
  BY DEF ExecutionInv, HoldsClaim, HoldsStage, HoldsReport, SoundMarker, NotYetRun,
         AtMostOneExecution, Occupied, Unlaunched, Accepted
<1>3. StartIsFinal'
  BY ServerStepsInv DEF StartIsFinal, Accepted
<1>4. SuccessIsJustified'
  BY ServerStepsInv DEF SuccessIsJustified, SoundMarker
<1> QED BY <1>1, <1>2, <1>3, <1>4 DEF ExecutionInv

\* Going on between the rounds of the loop, or staying at the same point.
LEMMA RecoverInv ==
  ASSUME ExecutionInv, SoundMarker(marker'), ServerSteps, HostTypes,
         UNCHANGED <<job, cur, history, kind>>, runtime' \in Endpoints,
         tok' \in Nat, fresh' \in BOOLEAN, term' \in BOOLEAN,
         \/ pc' = "resume"
         \/ pc' \in {"init", "reset", "poll"} /\ cur = NoClaim
         \/ pc' = "unconfirmedAck" /\ pc \in Occupied
         \/ /\ pc' \in {"report", "confirm", "swap", "ack", "retire"}
            /\ marker'.kind \in {"terminal", "cleanup"}
         \/ pc' = pc /\ marker' = marker /\ (staging' = "empty" => staging = "empty")
  PROVE  ExecutionInv'
<1> USE DEF HostTypes
<1>1. TypeOK'
  BY DEF ExecutionInv, TypeOK, SoundMarker, PCs, ServerSteps
<1>2. HoldsClaim' /\ HoldsStage' /\ HoldsReport' /\ NotYetRun' /\ AtMostOneExecution'
  BY DEF ExecutionInv, HoldsClaim, HoldsStage, HoldsReport, SoundMarker, NotYetRun,
         AtMostOneExecution, Occupied, Unlaunched, Accepted, Staged
<1>3. StartIsFinal'
  BY ServerStepsInv DEF StartIsFinal, Accepted, ExecutionInv, HoldsClaim, Occupied, Unlaunched
<1>4. SuccessIsJustified'
  BY ServerStepsInv DEF SuccessIsJustified, SoundMarker, ExecutionInv, HoldsClaim, Occupied,
     Unlaunched
<1> QED BY <1>1, <1>2, <1>3, <1>4 DEF ExecutionInv

-----------------------------------------------------------------------------
(* run and runPaired.                                                      *)

\* The invariant holds before the agent first starts.
LEMMA InitInv == ASSUME Init PROVE ExecutionInv
<1> USE DEF Init, NoMarker
<1>1. marker \in Markers
  BY DEF Markers, Endpoints, Roots, Outcomes
<1>2. kind \in [Claims -> KindSet]
  BY KindsAssumption
<1>3. TypeOK
  BY <1>1, <1>2 DEF TypeOK, PCs, Endpoints, Roots, Outcomes, DispatchStates
<1>4. HoldsClaim /\ HoldsStage /\ HoldsReport /\ NotYetRun /\ StartIsFinal
        /\ SuccessIsJustified /\ AtMostOneExecution
  BY DEF HoldsClaim, HoldsStage, HoldsReport, NotYetRun, StartIsFinal, SuccessIsJustified,
         AtMostOneExecution, Unlaunched, Accepted, Occupied
<1> QED BY <1>3, <1>4 DEF ExecutionInv

\* A claim received from the server has not been executed before.
LEMMA PollClaimInv ==
  ASSUME ExecutionInv, NEW c \in Claims, PollClaim(c) PROVE ExecutionInv'
<1> USE DEF PollClaim, HandOut, ExecutionInv
<1>1. /\ disp[c] = "waiting" /\ disp' = [disp EXCEPT ![c] = "claimed"]
      /\ epoch' \in [Claims -> Nat] /\ tok' \in Nat
  <2>1. disp[c] = "waiting" /\ disp' = [disp EXCEPT ![c] = "claimed"]
    BY ClaimedFacts
  <2>2. epoch' \in [Claims -> Nat]
    BY DEF TypeOK
  <2> QED BY <2>1, <2>2
<1>2. executed[c] = 0 /\ ran[c] = "no"
  BY <1>1 DEF StartIsFinal, NotYetRun, TypeOK
<1>3. TypeOK'
  BY <1>1 DEF TypeOK, PCs, Owned, DispatchStates
<1>4. HoldsClaim' /\ HoldsStage' /\ HoldsReport' /\ NotYetRun'
  BY <1>1, <1>2 DEF HoldsClaim, HoldsStage, HoldsReport, NotYetRun, TypeOK
<1>5. StartIsFinal' /\ AtMostOneExecution'
  BY <1>1, <1>2 DEF StartIsFinal, AtMostOneExecution, TypeOK, Accepted
<1>6. SuccessIsJustified'
  BY <1>1 DEF SuccessIsJustified, TypeOK, Justified, Staged
<1> QED BY <1>3, <1>4, <1>5, <1>6

\* The poll loop of runPaired preserves the invariant.
LEMMA LoopInv == ASSUME ExecutionInv, Loop PROVE ExecutionInv'
<1>1. CASE Connect
  BY <1>1, MarkerFacts, NoServerStep, RecoverInv
     DEF Connect, Owned, ExecutionInv, TypeOK, HoldsStage, HostTypes
<1>2. CASE ResumeNothing
  BY <1>2, MarkerFacts, NoServerStep, RecoverInv
     DEF ResumeNothing, ExecutionInv, TypeOK, HostTypes
<1>3. CASE ResetStaging
  BY <1>3, MarkerFacts, NoServerStep, RecoverInv
     DEF ResetStaging, ExecutionInv, TypeOK, HoldsStage, HostTypes
<1>4. CASE PollIdle
  BY <1>4, MarkerFacts, NoServerStep, RecoverInv
     DEF PollIdle, Owned, ExecutionInv, TypeOK, HostTypes
<1>5. CASE LoopFails
  BY <1>5, MarkerFacts, NoServerStep, HostUnchanged, LeaveFacts, QuitInv
     DEF LoopFails, Aborted
<1>6. ASSUME NEW c \in Claims, PollClaim(c) PROVE ExecutionInv'
  BY <1>6, PollClaimInv
<1>7. ASSUME NEW c \in Claims, PollLost(c) PROVE ExecutionInv'
  <2>1. ServerSteps
    BY <1>7, ClaimedFacts
       DEF PollLost, HandOut, ServerSteps, ExecutionInv, TypeOK, DispatchStates, Accepted
  <2> QED BY <1>7, <2>1, MarkerFacts, HostUnchanged, RecoverInv
          DEF PollLost, ExecutionInv, TypeOK
<1> QED BY <1>1, <1>2, <1>3, <1>4, <1>5, <1>6, <1>7 DEF Loop
-----------------------------------------------------------------------------
(* executeClaim up to the acknowledged start.                              *)

\* A step of executeClaim before the launch keeps the claim unexecuted.
LEMMA BeginStays ==
  ASSUME ExecutionInv, SoundMarker(marker'), ServerSteps, HostTypes,
         UNCHANGED <<session, history, fixed, stage, roots, errs>>,
         pc \in {"claim", "start", "prepare"},
         pc' \in {"start", "prepare", "prepared", "setup", "launch"},
         pc' \in Accepted => disp'[cur] \in Live,
         pc' = "launch" => ~Staged(cur),
         hb' \in {"off", "on", "cancel", "failed"},
         IF pc' = "prepared" THEN outcome' \in {"failed", "cleanup_unconfirmed"}
         ELSE outcome' = outcome
  PROVE  ExecutionInv'
<1>1. stage' = stage /\ cur \in Claims /\ staging' \in {"empty", "inside", "moved"}
  BY DEF ExecutionInv, HoldsClaim, Occupied, Unlaunched, Accepted, HostTypes
<1>2. TypeOK'
  BY DEF ExecutionInv, TypeOK, SoundMarker, PCs, ServerSteps, HostTypes, Outcomes, Results,
     ResultStates
<1>3. HoldsClaim' /\ HoldsReport' /\ NotYetRun' /\ AtMostOneExecution'
  BY <1>1 DEF ExecutionInv, HoldsClaim, HoldsReport, SoundMarker, NotYetRun,
     AtMostOneExecution, Occupied, Unlaunched, Accepted
<1>4. HoldsStage'
  BY <1>1 DEF ExecutionInv, HoldsStage, Staged
<1>5. StartIsFinal'
  BY <1>1, ServerStepsInv DEF StartIsFinal
<1>6. SuccessIsJustified'
  BY <1>1, ServerStepsInv DEF SuccessIsJustified, SoundMarker
<1> QED BY <1>2, <1>3, <1>4, <1>5, <1>6 DEF ExecutionInv

\* A rejected claim leaves with its marker cleared or kept.
LEMMA RejectedInv ==
  ASSUME ExecutionInv, pc = "start" \/ pc = "retire",
         Clear \/ ClearFails, Left, UNCHANGED <<host, server, history, fixed>>
  PROVE  ExecutionInv'
BY MarkerFacts, HostUnchanged, NoServerStep, QuitInv DEF Clear, ClearFails

\* executeClaim up to the acknowledged start preserves the invariant.
LEMMA BeginInv == ASSUME ExecutionInv, Begin PROVE ExecutionInv'
<1>1. CASE PersistLegacy
  BY <1>1, MarkerFacts, HostUnchanged, NoServerStep, BeginStays
     DEF PersistLegacy, Write, ExecutionInv, TypeOK, Accepted
<1>2. CASE PersistLegacyFails
  BY <1>2, MarkerFacts, HostUnchanged, NoServerStep, LeaveFacts, QuitInv
     DEF PersistLegacyFails, WriteFails
<1>3. CASE RejectClaim
  BY <1>3, LeaveFacts, RejectedInv DEF RejectClaim
<1>4. CASE StartConflict
  BY <1>4, ReturnFacts, RejectedInv DEF StartConflict
<1>5. CASE StartAborts
  BY <1>5, LeaveFacts, RejectedInv DEF StartAborts
<1>6. CASE StartAcknowledged
  <2>1. ServerSteps
    BY <1>6, ServeFacts
       DEF StartAcknowledged, ExecutionInv, HoldsClaim, Occupied, Unlaunched, Accepted
  <2>2. disp'[cur] \in Live
    BY <1>6 DEF StartAcknowledged, Answers, Accepts, Serve, Live, WellFormed,
       ExecutionInv, TypeOK, HoldsClaim, Occupied, Unlaunched
  <2> QED BY <1>6, <2>1, <2>2, MarkerFacts, HostUnchanged, BeginStays
          DEF StartAcknowledged, ExecutionInv, TypeOK, Staged
<1>7. CASE PrepareContainer
  <2>1. SoundMarker(marker')
    BY <1>7, ReportFacts DEF PrepareContainer, Write, Occupied, Unlaunched, Accepted
  <2>2. disp[cur] \in Live
    BY <1>7 DEF PrepareContainer, ExecutionInv, StartIsFinal, Accepted
  <2> QED BY <1>7, <2>1, <2>2, HostUnchanged, NoServerStep, BeginStays
          DEF PrepareContainer, Write, ExecutionInv, TypeOK, Staged
<1>8. CASE PrepareFails
  <2>1. SoundMarker(marker')
    BY <1>8, MarkerFacts, ReportFacts DEF PrepareFails, Occupied, Unlaunched, Accepted
  <2> QED BY <1>8, <2>1, HostUnchanged, NoServerStep, BeginStays
          DEF PrepareFails, ExecutionInv, TypeOK, Accepted
<1>9. CASE ReportUnprepared
  <2>1. cur \in Claims /\ outcome \in {"failed", "cleanup_unconfirmed"}
    BY <1>9 DEF ReportUnprepared, ExecutionInv, HoldsClaim, SuccessIsJustified, Occupied,
       Unlaunched
  <2>2. ServerSteps
    BY <1>9, <2>1, ServeFacts DEF ReportUnprepared, Accepted, Results, ResultStates
  <2>3. Left
    BY <1>9, LeaveFacts, ReturnFacts DEF ReportUnprepared
  <2> QED BY <1>9, <2>2, <2>3, MarkerFacts, HostUnchanged, QuitInv DEF ReportUnprepared
<1>10. CASE ReportUnpreparedAborts
  BY <1>10, MarkerFacts, HostUnchanged, NoServerStep, LeaveFacts, QuitInv
     DEF ReportUnpreparedAborts
<1> QED BY <1>1, <1>2, <1>3, <1>4, <1>5, <1>6, <1>7, <1>8, <1>9, <1>10 DEF Begin
-----------------------------------------------------------------------------
(* Execution and its end.                                                  *)

Working == {"setup", "record", "launch", "running", "publish", "close", "purge", "settle"}

JobTypes ==
  /\ stage' \in {"none", "host", "container"} /\ roots' \in Roots
  /\ errs' \subseteq {"plain", "cleanup", "hostproc"}
  /\ outcome' \in Outcomes /\ hb' \in {"off", "on", "cancel", "failed"}

\* Job state that a step does not touch keeps its types.
LEMMA JobUnchanged == ASSUME ExecutionInv, UNCHANGED job PROVE JobTypes
BY DEF ExecutionInv, TypeOK, JobTypes

\* A step inside executeClaim that launches nothing and ends nothing.
LEMMA WorkInv ==
  ASSUME ExecutionInv, SoundMarker(marker'), ServerSteps, HostTypes, JobTypes, HoldsStage',
         UNCHANGED <<session, history, fixed>>,
         pc \in Working,
         pc' \in (Working \ {"publish", "running"}) \cup {"hold", "unconfirmed", "outcome", pc},
         pc' \in Accepted => pc \in Accepted,
         pc' # pc /\ pc' \in {"close", "purge", "settle"} /\ errs' = {} => Justified(cur)',
         pc' # pc \/ UNCHANGED errs,
         pc' = "outcome" => outcome' # "none" /\ (outcome' = "succeeded" => Justified(cur)'),
         pc' = "unconfirmed" => outcome' = "cleanup_unconfirmed"
  PROVE  ExecutionInv'
<1>1. cur \in Claims /\ pc \in Occupied
  BY DEF ExecutionInv, HoldsClaim, Occupied, Unlaunched, Accepted, Working
<1>2. TypeOK'
  BY DEF ExecutionInv, TypeOK, SoundMarker, PCs, ServerSteps, HostTypes, JobTypes, Working
<1>3. HoldsClaim' /\ HoldsReport' /\ NotYetRun' /\ AtMostOneExecution'
  BY <1>1 DEF ExecutionInv, HoldsClaim, HoldsReport, SoundMarker, NotYetRun,
     AtMostOneExecution, Occupied, Unlaunched, Accepted, Working
<1>4. StartIsFinal'
  BY <1>1, ServerStepsInv DEF StartIsFinal
<1>5. SuccessIsJustified'
  BY <1>1, ServerStepsInv DEF ExecutionInv, SuccessIsJustified, SoundMarker, Working
<1> QED BY <1>2, <1>3, <1>4, <1>5 DEF ExecutionInv

\* The heartbeat goroutine only changes what it has observed itself.
LEMMA HeartbeatInv == ASSUME ExecutionInv, Heartbeat PROVE ExecutionInv'
<1>1. HoldsStage'
  BY DEF Heartbeat, ExecutionInv, HoldsStage, Staged
<1>2. HostTypes /\ ServerSteps /\ SoundMarker(marker')
  BY MarkerFacts, HostUnchanged, NoServerStep DEF Heartbeat
<1>3. TypeOK'
  BY DEF Heartbeat, ExecutionInv, TypeOK
<1>4. HoldsClaim' /\ HoldsReport' /\ NotYetRun' /\ StartIsFinal' /\ AtMostOneExecution'
  BY DEF Heartbeat, ExecutionInv, HoldsClaim, HoldsReport, NotYetRun, StartIsFinal,
     AtMostOneExecution
<1>5. SuccessIsJustified'
  BY DEF Heartbeat, ExecutionInv, SuccessIsJustified, Justified, Staged
<1> QED BY <1>1, <1>3, <1>4, <1>5 DEF ExecutionInv

\* Staging, recording, launching, running and publishing preserve the invariant;
\* the launch is the one step that counts an execution.
LEMMA ExecuteInv == ASSUME ExecutionInv, Execute PROVE ExecutionInv'
<1>1. CASE SetupFails
  <2>1. HoldsStage'
    BY <1>1 DEF SetupFails, ExecutionInv, TypeOK, HoldsStage
  <2>2. JobTypes
    BY <1>1 DEF SetupFails, JobTypes, ExecutionInv, TypeOK, HoldsStage, Roots, Outcomes,
       Results, ResultStates
  <2>3. HostTypes
    BY <1>1, HostUnchanged DEF SetupFails
  <2>4. SoundMarker(marker')
    BY <1>1, MarkerFacts DEF SetupFails
  <2>5. ServerSteps
    BY <1>1, NoServerStep DEF SetupFails
  <2> QED BY <1>1, <2>1, <2>2, <2>3, <2>4, <2>5, WorkInv
          DEF SetupFails, Working, Accepted
<1>2. CASE SetupHost
  <2>1. HoldsStage'
    BY <1>2, ClaimsAssumption
       DEF SetupHost, ExecutionInv, TypeOK, HoldsStage, HoldsClaim, Occupied, Unlaunched,
          Accepted
  <2>2. JobTypes
    BY <1>2 DEF SetupHost, JobTypes, ExecutionInv, TypeOK, HoldsStage, Roots, Outcomes,
       Results, ResultStates
  <2>3. HostTypes
    BY <1>2 DEF SetupHost, HostTypes, ExecutionInv, TypeOK, HoldsClaim, Occupied, Unlaunched,
       Accepted
  <2>4. SoundMarker(marker')
    BY <1>2, MarkerFacts DEF SetupHost
  <2>5. ServerSteps
    BY <1>2, NoServerStep DEF SetupHost
  <2> QED BY <1>2, <2>1, <2>2, <2>3, <2>4, <2>5, WorkInv
          DEF SetupHost, Working, Accepted
<1>3. CASE SetupContainer
  <2>1. HoldsStage'
    BY <1>3, ClaimsAssumption
       DEF SetupContainer, ExecutionInv, TypeOK, HoldsStage, HoldsClaim, Occupied, Unlaunched,
          Accepted
  <2>2. JobTypes
    BY <1>3 DEF SetupContainer, JobTypes, ExecutionInv, TypeOK, HoldsStage, Roots, Outcomes,
       Results, ResultStates
  <2>3. HostTypes
    BY <1>3 DEF SetupContainer, HostTypes, ExecutionInv, TypeOK, HoldsClaim, Occupied,
       Unlaunched, Accepted
  <2>4. SoundMarker(marker')
    BY <1>3, MarkerFacts DEF SetupContainer
  <2>5. ServerSteps
    BY <1>3, NoServerStep DEF SetupContainer
  <2> QED BY <1>3, <2>1, <2>2, <2>3, <2>4, <2>5, WorkInv
          DEF SetupContainer, Working, Accepted
<1>4. CASE SetupPartial
  <2>1. HoldsStage'
    BY <1>4, ClaimsAssumption
       DEF SetupPartial, ExecutionInv, TypeOK, HoldsStage, HoldsClaim, Occupied, Unlaunched,
          Accepted
  <2>2. JobTypes
    BY <1>4 DEF SetupPartial, JobTypes, ExecutionInv, TypeOK, HoldsStage, Roots, Outcomes,
       Results, ResultStates
  <2>3. HostTypes
    BY <1>4 DEF SetupPartial, HostTypes, ExecutionInv, TypeOK, HoldsClaim, Occupied,
       Unlaunched, Accepted
  <2>4. SoundMarker(marker')
    BY <1>4, MarkerFacts DEF SetupPartial
  <2>5. ServerSteps
    BY <1>4, NoServerStep DEF SetupPartial
  <2> QED BY <1>4, <2>1, <2>2, <2>3, <2>4, <2>5, WorkInv
          DEF SetupPartial, Working, Accepted
<1>5. CASE RecordStage
  <2>1. HoldsStage'
    BY <1>5 DEF RecordStage, Write, ExecutionInv, TypeOK, HoldsStage
  <2>2. JobTypes
    BY <1>5 DEF RecordStage, Write, JobTypes, ExecutionInv, TypeOK, HoldsStage, Roots, Outcomes,
       Results, ResultStates
  <2>3. HostTypes
    BY <1>5, HostUnchanged DEF RecordStage, Write
  <2>4. SoundMarker(marker')
    BY <1>5, <2>2, MarkerFacts, ReportFacts DEF RecordStage, Write, JobTypes, Occupied,
       Unlaunched, Accepted
  <2>5. ServerSteps
    BY <1>5, NoServerStep DEF RecordStage, Write
  <2> QED BY <1>5, <2>1, <2>2, <2>3, <2>4, <2>5, WorkInv
          DEF RecordStage, Write, Working, Accepted
<1>6. CASE RecordStageFails
  <2>1. HoldsStage'
    BY <1>6 DEF RecordStageFails, WriteFails, ExecutionInv, TypeOK, HoldsStage
  <2>2. JobTypes
    BY <1>6 DEF RecordStageFails, WriteFails, JobTypes, ExecutionInv, TypeOK, HoldsStage,
       Roots, Outcomes,
       Results, ResultStates
  <2>3. HostTypes
    BY <1>6, HostUnchanged DEF RecordStageFails, WriteFails
  <2>4. SoundMarker(marker')
    BY <1>6, <2>2, MarkerFacts, ReportFacts DEF RecordStageFails, WriteFails, JobTypes,
       Occupied, Unlaunched, Accepted
  <2>5. ServerSteps
    BY <1>6, NoServerStep DEF RecordStageFails, WriteFails
  <2> QED BY <1>6, <2>1, <2>2, <2>3, <2>4, <2>5, WorkInv
          DEF RecordStageFails, WriteFails, Working, Accepted
<1>7. CASE Launch
  <2>1. cur \in Claims /\ executed[cur] = 0 /\ disp[cur] \in Live
    BY <1>7 DEF Launch, ExecutionInv, HoldsClaim, NotYetRun, StartIsFinal, Occupied, Unlaunched,
       Accepted
  <2>2. TypeOK'
    BY <1>7, <2>1 DEF Launch, ExecutionInv, TypeOK, PCs
  <2>3. HoldsClaim' /\ HoldsStage' /\ HoldsReport' /\ NotYetRun'
    BY <1>7, <2>1 DEF Launch, ExecutionInv, TypeOK, HoldsClaim, HoldsStage, HoldsReport,
       NotYetRun,
       Staged, Unlaunched, Accepted, Occupied
  <2>4. StartIsFinal' /\ AtMostOneExecution'
    BY <1>7, <2>1 DEF Launch, ExecutionInv, TypeOK, StartIsFinal, AtMostOneExecution, Accepted,
       Live
  <2>5. SuccessIsJustified'
    BY <1>7, <2>1 DEF Launch, ExecutionInv, TypeOK, SuccessIsJustified, Justified, Staged
  <2> QED BY <2>2, <2>3, <2>4, <2>5 DEF ExecutionInv
<1>8. CASE LaunchRefused
  <2>1. HoldsStage'
    BY <1>8 DEF LaunchRefused, AfterFailure, ExecutionInv, TypeOK, HoldsStage
  <2>2. JobTypes
    BY <1>8 DEF LaunchRefused, AfterFailure, JobTypes, ExecutionInv, TypeOK, HoldsStage, Roots,
       Outcomes,
       Results, ResultStates
  <2>3. HostTypes
    BY <1>8, HostUnchanged DEF LaunchRefused, AfterFailure
  <2>4. SoundMarker(marker')
    BY <1>8, MarkerFacts DEF LaunchRefused, AfterFailure
  <2>5. ServerSteps
    BY <1>8, NoServerStep DEF LaunchRefused, AfterFailure
  <2> QED BY <1>8, <2>1, <2>2, <2>3, <2>4, <2>5, WorkInv
          DEF LaunchRefused, AfterFailure, Working, Accepted
<1>9. CASE Publish
  <2>1. HoldsStage'
    BY <1>9 DEF Publish, ExecutionInv, TypeOK, HoldsStage
  <2>2. JobTypes
    BY <1>9 DEF Publish, JobTypes, ExecutionInv, TypeOK, HoldsStage, Roots, Outcomes,
       Results, ResultStates
  <2>3. HostTypes
    BY <1>9, HostUnchanged DEF Publish
  <2>4. SoundMarker(marker')
    BY <1>9, MarkerFacts DEF Publish
  <2>5. ServerSteps
    BY <1>9 DEF Publish, ServerSteps, ExecutionInv, TypeOK, HoldsClaim, Occupied
  <2>6. Justified(cur)'
    BY <1>9 DEF Publish, ExecutionInv, SuccessIsJustified, Justified, Staged
  <2> QED BY <1>9, <2>1, <2>2, <2>3, <2>4, <2>5, <2>6, WorkInv
          DEF Publish, Working, Accepted
<1>10. CASE PublishFails
  <2>1. HoldsStage'
    BY <1>10 DEF PublishFails, ExecutionInv, TypeOK, HoldsStage
  <2>2. JobTypes
    BY <1>10 DEF PublishFails, JobTypes, ExecutionInv, TypeOK, HoldsStage, Roots, Outcomes,
       Results, ResultStates
  <2>3. HostTypes
    BY <1>10, HostUnchanged DEF PublishFails
  <2>4. SoundMarker(marker')
    BY <1>10, MarkerFacts DEF PublishFails
  <2>5. ServerSteps
    BY <1>10 DEF PublishFails, ServerSteps, ExecutionInv, TypeOK, HoldsClaim, Occupied
  <2> QED BY <1>10, <2>1, <2>2, <2>3, <2>4, <2>5, WorkInv
          DEF PublishFails, Working, Accepted
<1>11. ASSUME NEW ok \in BOOLEAN, ExecutionEnds(ok) PROVE ExecutionInv'
  <2>1. /\ cur \in Claims /\ executed[cur] > 0 /\ ran[cur] = "no" /\ pc = "running"
        /\ \A c \in Claims : Justified(c) => c # cur
    BY <1>11 DEF ExecutionEnds, ExecutionInv, HoldsClaim, NotYetRun, Justified, Occupied
  <2>2. \A c \in Claims : Justified(c) => Justified(c)'
    BY <1>11, <2>1 DEF ExecutionEnds, ExecutionInv, TypeOK, Justified, Staged
  <2>3. TypeOK'
    BY <1>11, <2>1 DEF ExecutionEnds, AfterFailure, ExecutionInv, TypeOK, PCs
  <2>4. HoldsClaim' /\ HoldsReport' /\ StartIsFinal' /\ AtMostOneExecution'
    BY <1>11, <2>1 DEF ExecutionEnds, AfterFailure, ExecutionInv, HoldsClaim, HoldsReport,
       StartIsFinal, AtMostOneExecution, Accepted, Occupied, Unlaunched
  <2>5. HoldsStage'
    BY <1>11, <2>1 DEF ExecutionEnds, AfterFailure, ExecutionInv, HoldsStage, Staged
  <2>6. NotYetRun'
    BY <1>11, <2>1 DEF ExecutionEnds, AfterFailure, ExecutionInv, TypeOK, NotYetRun, Unlaunched,
       Accepted
  <2>7. SuccessIsJustified'
    BY <1>11, <2>1, <2>2 DEF ExecutionEnds, AfterFailure, ExecutionInv, TypeOK,
       SuccessIsJustified, Justified, Staged, HoldsStage
  <2> QED BY <2>3, <2>4, <2>5, <2>6, <2>7 DEF ExecutionInv
<1>12. CASE ContainerUnremoved \/ SupervisorUnconfirmed \/ ScriptDirectoryRemains
  <2>1. PICK wraps \in SUBSET {"hostproc"} : EndsUnclean(wraps)
    BY <1>12 DEF ContainerUnremoved, SupervisorUnconfirmed, ScriptDirectoryRemains
  <2>2. /\ cur \in Claims /\ executed[cur] > 0 /\ ran[cur] = "no" /\ pc = "running"
        /\ \A c \in Claims : Justified(c) => c # cur
    BY <2>1 DEF EndsUnclean, ExecutionInv, HoldsClaim, NotYetRun, Justified, Occupied
  <2>3. \A c \in Claims : Justified(c) => Justified(c)'
    BY <2>1, <2>2 DEF EndsUnclean, ExecutionInv, TypeOK, Justified, Staged
  <2>4. HostTypes
    BY <1>12, <2>1, <2>2
       DEF ContainerUnremoved, SupervisorUnconfirmed, ScriptDirectoryRemains, EndsUnclean,
           HostTypes, ExecutionInv, TypeOK
  <2>5. TypeOK'
    BY <2>1, <2>2, <2>4 DEF EndsUnclean, HostTypes, AfterFailure, ExecutionInv, TypeOK, PCs
  <2>6. HoldsClaim' /\ HoldsReport' /\ StartIsFinal' /\ AtMostOneExecution'
    BY <2>1, <2>2 DEF EndsUnclean, AfterFailure, ExecutionInv, HoldsClaim, HoldsReport,
       StartIsFinal, AtMostOneExecution, Accepted, Occupied, Unlaunched
  <2>7. HoldsStage'
    BY <2>1, <2>2 DEF EndsUnclean, AfterFailure, ExecutionInv, HoldsStage, Staged
  <2>8. NotYetRun'
    BY <2>1, <2>2 DEF EndsUnclean, AfterFailure, ExecutionInv, TypeOK, NotYetRun, Unlaunched,
       Accepted
  <2>9. SuccessIsJustified'
    BY <2>1, <2>2, <2>3 DEF EndsUnclean, AfterFailure, ExecutionInv, TypeOK,
       SuccessIsJustified
  <2> QED BY <2>5, <2>6, <2>7, <2>8, <2>9 DEF ExecutionInv
<1> QED BY <1>1, <1>2, <1>3, <1>4, <1>5, <1>6, <1>7, <1>8, <1>9, <1>10, <1>11, <1>12 DEF Execute

\* Closing the stage, settling the outcome and saving it preserve the invariant.
LEMMA FinishInv == ASSUME ExecutionInv, Finish PROVE ExecutionInv'
<1>1. CASE CloseKeeps
  <2>1. HoldsStage'
    BY <1>1 DEF CloseKeeps, ExecutionInv, TypeOK, HoldsStage
  <2>2. JobTypes
    BY <1>1 DEF CloseKeeps, JobTypes, ExecutionInv, TypeOK, HoldsStage, Roots, Outcomes,
       Results, ResultStates
  <2>3. HostTypes
    BY <1>1, HostUnchanged DEF CloseKeeps
  <2>4. SoundMarker(marker')
    BY <1>1, MarkerFacts DEF CloseKeeps
  <2>5. ServerSteps
    BY <1>1, NoServerStep DEF CloseKeeps
  <2>6. errs # {}
    BY <1>1 DEF CloseKeeps
  <2> QED BY <1>1, <2>1, <2>2, <2>3, <2>4, <2>5, <2>6, WorkInv
          DEF CloseKeeps, Working, Accepted
<1>2. CASE CloseContainer
  <2>1. HoldsStage'
    BY <1>2 DEF CloseContainer, ExecutionInv, TypeOK, HoldsStage
  <2>2. JobTypes
    BY <1>2 DEF CloseContainer, JobTypes, ExecutionInv, TypeOK, HoldsStage, Roots, Outcomes,
       Results, ResultStates
  <2>3. HostTypes
    BY <1>2 DEF CloseContainer, HostTypes, ExecutionInv, TypeOK, HoldsClaim, Occupied,
       Unlaunched, Accepted
  <2>4. SoundMarker(marker')
    BY <1>2, MarkerFacts DEF CloseContainer
  <2>5. ServerSteps
    BY <1>2, NoServerStep DEF CloseContainer
  <2>6. errs = {} => Justified(cur)'
    BY <1>2 DEF CloseContainer, ExecutionInv, SuccessIsJustified, Justified, Staged
  <2> QED BY <1>2, <2>1, <2>2, <2>3, <2>4, <2>5, <2>6, WorkInv
          DEF CloseContainer, Working, Accepted
<1>3. CASE CloseContainerFails
  <2>1. HoldsStage'
    BY <1>3 DEF CloseContainerFails, ExecutionInv, TypeOK, HoldsStage
  <2>2. JobTypes
    BY <1>3 DEF CloseContainerFails, JobTypes, ExecutionInv, TypeOK, HoldsStage, Roots,
       Outcomes,
       Results, ResultStates
  <2>3. HostTypes
    BY <1>3 DEF CloseContainerFails, HostTypes, ExecutionInv, TypeOK, HoldsClaim, Occupied,
       Unlaunched, Accepted
  <2>4. SoundMarker(marker')
    BY <1>3, MarkerFacts DEF CloseContainerFails
  <2>5. ServerSteps
    BY <1>3, NoServerStep DEF CloseContainerFails
  <2> QED BY <1>3, <2>1, <2>2, <2>3, <2>4, <2>5, WorkInv
          DEF CloseContainerFails, Working, Accepted
<1>4. CASE CloseRecords
  <2>1. HoldsStage'
    BY <1>4 DEF CloseRecords, Write, ExecutionInv, TypeOK, HoldsStage
  <2>2. JobTypes
    BY <1>4 DEF CloseRecords, Write, JobTypes, ExecutionInv, TypeOK, HoldsStage, Roots,
       Outcomes,
       Results, ResultStates
  <2>3. HostTypes
    BY <1>4, HostUnchanged DEF CloseRecords, Write
  <2>4. SoundMarker(marker')
    BY <1>4, <2>2, MarkerFacts, ReportFacts DEF CloseRecords, Write, JobTypes, Occupied,
       Unlaunched, Accepted
  <2>5. ServerSteps
    BY <1>4, NoServerStep DEF CloseRecords, Write
  <2>6. errs = {} => Justified(cur)'
    BY <1>4 DEF CloseRecords, ExecutionInv, SuccessIsJustified, Justified, Staged
  <2> QED BY <1>4, <2>1, <2>2, <2>3, <2>4, <2>5, <2>6, WorkInv
          DEF CloseRecords, Write, Working, Accepted
<1>5. CASE CloseRecordsFails
  <2>1. HoldsStage'
    BY <1>5 DEF CloseRecordsFails, WriteFails, ExecutionInv, TypeOK, HoldsStage
  <2>2. JobTypes
    BY <1>5 DEF CloseRecordsFails, WriteFails, JobTypes, ExecutionInv, TypeOK, HoldsStage,
       Roots, Outcomes,
       Results, ResultStates
  <2>3. HostTypes
    BY <1>5, HostUnchanged DEF CloseRecordsFails, WriteFails
  <2>4. SoundMarker(marker')
    BY <1>5, <2>2, MarkerFacts, ReportFacts DEF CloseRecordsFails, WriteFails, JobTypes,
       Occupied, Unlaunched, Accepted
  <2>5. ServerSteps
    BY <1>5, NoServerStep DEF CloseRecordsFails, WriteFails
  <2> QED BY <1>5, <2>1, <2>2, <2>3, <2>4, <2>5, WorkInv
          DEF CloseRecordsFails, WriteFails, Working, Accepted
<1>6. CASE Purge
  <2>1. HoldsStage'
    BY <1>6 DEF Purge, ExecutionInv, TypeOK, HoldsStage
  <2>2. JobTypes
    BY <1>6 DEF Purge, JobTypes, ExecutionInv, TypeOK, HoldsStage, Roots, Outcomes,
       Results, ResultStates
  <2>3. HostTypes
    BY <1>6 DEF Purge, HostTypes, ExecutionInv, TypeOK, HoldsClaim, Occupied, Unlaunched,
       Accepted
  <2>4. SoundMarker(marker')
    BY <1>6, MarkerFacts DEF Purge
  <2>5. ServerSteps
    BY <1>6, NoServerStep DEF Purge
  <2>6. errs = {} => Justified(cur)'
    BY <1>6 DEF Purge, ExecutionInv, SuccessIsJustified, Justified, Staged
  <2> QED BY <1>6, <2>1, <2>2, <2>3, <2>4, <2>5, <2>6, WorkInv
          DEF Purge, Working, Accepted
<1>7. CASE PurgeFails
  <2>1. HoldsStage'
    BY <1>7 DEF PurgeFails, ExecutionInv, TypeOK, HoldsStage
  <2>2. JobTypes
    BY <1>7 DEF PurgeFails, JobTypes, ExecutionInv, TypeOK, HoldsStage, Roots, Outcomes,
       Results, ResultStates
  <2>3. HostTypes
    BY <1>7 DEF PurgeFails, HostTypes, ExecutionInv, TypeOK, HoldsClaim, Occupied, Unlaunched,
       Accepted
  <2>4. SoundMarker(marker')
    BY <1>7, MarkerFacts DEF PurgeFails
  <2>5. ServerSteps
    BY <1>7, NoServerStep DEF PurgeFails
  <2> QED BY <1>7, <2>1, <2>2, <2>3, <2>4, <2>5, WorkInv
          DEF PurgeFails, Working, Accepted
<1>8. ASSUME NEW flushed \in BOOLEAN, Settle(flushed) PROVE ExecutionInv'
  <2>1. HoldsStage' /\ HostTypes /\ SoundMarker(marker') /\ ServerSteps
    BY <1>8, MarkerFacts, HostUnchanged, NoServerStep DEF Settle, ExecutionInv, HoldsStage
  <2>2. JobTypes
    BY <1>8 DEF Settle, JobTypes, ExecutionInv, TypeOK, Outcomes, Results, ResultStates
  <2>3. outcome' = "succeeded" => Justified(cur)'
    BY <1>8 DEF Settle, ExecutionInv, SuccessIsJustified, Justified, Staged
  <2> QED BY <1>8, <2>1, <2>2, <2>3, WorkInv DEF Settle, Working, Accepted
<1>9. CASE Hold
  <2>1. roots \in Roots /\ pc \in Occupied
    BY <1>9 DEF Hold, ExecutionInv, TypeOK, Occupied
  <2>2. SoundMarker(marker')
    BY <1>9, <2>1, MarkerFacts, ReportFacts DEF Hold, TryWrite, Write, WriteFails
  <2> QED BY <1>9, <2>2, HostUnchanged, NoServerStep, ReturnFacts, QuitInv
          DEF Hold, TryWrite, Write, WriteFails
<1>10. CASE ReportUnconfirmed
  <2>1. cur \in Claims /\ outcome \in {"failed", "cleanup_unconfirmed"} /\ pc \in Occupied
    BY <1>10 DEF ReportUnconfirmed, ExecutionInv, HoldsClaim, SuccessIsJustified, Occupied
  <2>2. ServerSteps
    BY <1>10, <2>1, ServeFacts DEF ReportUnconfirmed, Accepted, Results, ResultStates
  <2>3. CASE Goto("unconfirmedAck") /\ UNCHANGED <<job, session>>
    BY <1>10, <2>1, <2>2, <2>3, MarkerFacts, HostUnchanged, RecoverInv
       DEF ReportUnconfirmed, ExecutionInv, TypeOK
  <2>4. CASE ReturnCleanupError
    BY <1>10, <2>2, <2>4, MarkerFacts, HostUnchanged, ReturnFacts, QuitInv DEF ReportUnconfirmed
  <2> QED BY <1>10, <2>3, <2>4 DEF ReportUnconfirmed
<1>11. CASE ReportUnconfirmedAborts
  BY <1>11, MarkerFacts, HostUnchanged, NoServerStep, ReturnFacts, QuitInv
     DEF ReportUnconfirmedAborts
<1>12. CASE SaveUnconfirmed
  <2>1. SoundMarker(marker')
    BY <1>12, MarkerFacts, ReportFacts DEF SaveUnconfirmed, TryWrite, Write, WriteFails,
       Occupied
  <2>2. NoFault \/ Fault
    BY <1>12 DEF SaveUnconfirmed, TryWrite, Write, WriteFails
  <2> QED BY <1>12, <2>1, <2>2, HostUnchanged, NoServerStep, ReturnFacts, QuitInv
          DEF SaveUnconfirmed
<1>13. CASE SaveOutcome
  <2>1. SoundMarker(marker')
    BY <1>13, ReportFacts DEF SaveOutcome, Write, Occupied
  <2> QED BY <1>13, <2>1, HostUnchanged, NoServerStep, RecoverInv
          DEF SaveOutcome, Write, ExecutionInv, TypeOK
<1>14. CASE SaveOutcomeFails
  <2>1. SoundMarker(marker')
    BY <1>14, MarkerFacts, ReportFacts DEF SaveOutcomeFails, WriteFails, Occupied
  <2> QED BY <1>14, <2>1, HostUnchanged, NoServerStep, LeaveFacts, QuitInv
          DEF SaveOutcomeFails, WriteFails
<1> QED BY <1>1, <1>2, <1>3, <1>4, <1>5, <1>6, <1>7, <1>8, <1>9, <1>10, <1>11, <1>12, <1>13,
           <1>14 DEF Finish
-----------------------------------------------------------------------------
(* resumeCleanupResult.                                                    *)

\* Serving the saved report is sound: it claims a success only if there was one.
LEMMA ReportServed ==
  ASSUME ExecutionInv, marker.kind \in {"terminal", "cleanup"}, pc \notin Accepted,
         Serve(marker.claim, marker.tok, marker.result)
  PROVE  ServerSteps
BY ServeFacts DEF ExecutionInv, HoldsReport, SuccessIsJustified

\* Rewriting a saved report preserves the invariant if the new one is sound.
LEMMA RewriteInv ==
  ASSUME ExecutionInv, NEW at, NEW m, SoundMarker(m), m.kind \in {"terminal", "cleanup"},
         NEW next \in {"resume", "retire"}, Rewrite(at, m, next)
  PROVE  ExecutionInv'
<1>1. CASE Write(m) /\ Goto(next) /\ UNCHANGED <<job, session>>
  BY <1>1, HostUnchanged, NoServerStep, RecoverInv DEF Rewrite, Write, ExecutionInv, TypeOK
<1>2. CASE WriteFails(m) /\ Leave("init")
  BY <1>2, MarkerFacts, HostUnchanged, NoServerStep, LeaveFacts, QuitInv DEF Rewrite, WriteFails
<1> QED BY <1>1, <1>2 DEF Rewrite

\* Purging recorded identities leaves the saved result as it is.
LEMMA ResumePurgeInv == ASSUME ExecutionInv, ResumePurge PROVE ExecutionInv'
<1>1. HostTypes
  BY DEF ResumePurge, Write, WriteFails, ExecutionInv, TypeOK, HostTypes
<1>2. SoundMarker(marker')
  BY MarkerFacts DEF ResumePurge, Write, WriteFails
<1>3. CASE UNCHANGED <<pc, job, session>>
  <2>1. pc' = "resume"
    BY <1>3 DEF ResumePurge
  <2> QED BY <1>1, <1>2, <1>3, <2>1, NoServerStep, RecoverInv
          DEF ResumePurge, ExecutionInv, TypeOK
<1>4. CASE Leave("init")
  BY <1>1, <1>2, <1>4, LeaveFacts, NoServerStep, QuitInv DEF ResumePurge
<1> QED BY <1>3, <1>4 DEF ResumePurge

\* The two steps that send the report and either go on or give up this round.
LEMMA DeliverInv ==
  ASSUME ExecutionInv, marker.kind \in {"terminal", "cleanup"}, ServerSteps,
         UNCHANGED <<host, history, fixed, marker, faults>>,
         \/ pc' \in {"ack", "confirm", "swap", "retire"} /\ UNCHANGED <<job, session>>
         \/ ReturnConflict
  PROVE  ExecutionInv'
<1>1. CASE pc' \in {"ack", "confirm", "swap", "retire"} /\ UNCHANGED <<job, session>>
  BY <1>1, MarkerFacts, HostUnchanged, RecoverInv DEF ExecutionInv, TypeOK
<1>2. CASE ReturnConflict
  BY <1>2, MarkerFacts, HostUnchanged, ReturnFacts, QuitInv
<1> QED BY <1>1, <1>2

\* Recovery from the saved marker preserves the invariant.
LEMMA ResumeInv == ASSUME ExecutionInv, Resume PROVE ExecutionInv'
<1>1. CASE ResumePurge
  BY <1>1, ResumePurgeInv
<1>2. CASE ResumeRootsBlocked
  BY <1>2, MarkerFacts, HostUnchanged, NoServerStep, LeaveFacts, QuitInv
     DEF ResumeRootsBlocked
<1>3. CASE ReportTerminal
  <2>1. ServerSteps
    BY <1>3, ReportServed DEF ReportTerminal, Deliverable, Accepted
  <2> QED BY <1>3, <2>1, DeliverInv DEF ReportTerminal, Deliverable
<1>4. CASE ConfirmCancellation
  <2>1. marker.kind \in {"terminal", "cleanup"}
    BY <1>4 DEF ConfirmCancellation, ExecutionInv, HoldsReport
  <2> QED BY <1>4, <2>1, NoServerStep, DeliverInv DEF ConfirmCancellation
<1>5. CASE ConfirmAborts
  BY <1>5, MarkerFacts, HostUnchanged, NoServerStep, ReturnFacts, QuitInv
     DEF ConfirmAborts, Aborted
<1>6. CASE ResumeCleanup
  BY <1>6, MarkerFacts, NoServerStep, RecoverInv
     DEF ResumeCleanup, Owned, ExecutionInv, TypeOK, HostTypes
<1>7. CASE ResumeRuntimeBlocked
  BY <1>7, MarkerFacts, HostUnchanged, NoServerStep, LeaveFacts, QuitInv
     DEF ResumeRuntimeBlocked
<1>8. CASE ReportCleanup
  <2>1. marker.kind \in {"terminal", "cleanup"}
    BY <1>8 DEF ReportCleanup, ExecutionInv, HoldsReport
  <2>2. ServerSteps
    BY <1>8, <2>1, ReportServed DEF ReportCleanup, Accepted
  <2> QED BY <1>8, <2>1, <2>2, DeliverInv DEF ReportCleanup
<1>9. CASE ResumeAborts
  BY <1>9, MarkerFacts, HostUnchanged, NoServerStep, LeaveFacts, QuitInv DEF ResumeAborts
<1>10. CASE SwapCancellation
  BY <1>10, MarkerFacts, RewriteInv DEF SwapCancellation, Rewrite, ExecutionInv, HoldsReport,
     TypeOK, Markers
<1>11. CASE Acknowledge
  BY <1>11, MarkerFacts, RewriteInv DEF Acknowledge, Rewrite, ExecutionInv, HoldsReport,
     TypeOK, Markers
<1>12. CASE ResumeAcknowledged
  BY <1>12, NoServerStep, DeliverInv DEF ResumeAcknowledged, Deliverable
<1>13. CASE Retire
  BY <1>13, LeaveFacts, RejectedInv DEF Retire
<1> QED BY <1>1, <1>2, <1>3, <1>4, <1>5, <1>6, <1>7, <1>8, <1>9, <1>10, <1>11, <1>12, <1>13
        DEF Resume

-----------------------------------------------------------------------------
(* The environment.                                                        *)

\* The server's own moves follow the edges of the contract.
LEMMA ServerMovesInv ==
  ASSUME ExecutionInv, NEW c \in Claims, NEW to, to \notin ResultStates \cup {"cancelled"}
         \/ disp[c] \in {"waiting", "claimed"}, ServerMoves(c, to)
  PROVE  ExecutionInv'
<1>1. disp[c] \in DispatchStates /\ to \in DispatchStates
  BY TransitionFacts DEF ServerMoves, ExecutionInv, TypeOK
<1>2. to # "succeeded"
  BY <1>1, TransitionFacts
     DEF ServerMoves, CanTransition, Edges, ResultStates
<1>3. pc \in Accepted /\ c = cur => to \in Live
  BY <1>1, TransitionFacts DEF ServerMoves, ExecutionInv, StartIsFinal, Live
<1>4. ServerSteps
  BY <1>1, <1>2, <1>3 DEF ServerMoves, ServerSteps, ExecutionInv, TypeOK
<1> QED BY <1>4, MarkerFacts, HostUnchanged, RecoverInv DEF ServerMoves, ExecutionInv, TypeOK

\* Crashes, signals, the operator, lost answers and the server preserve it.
LEMMA EnvironmentInv == ASSUME ExecutionInv, Environment PROVE ExecutionInv'
<1>1. CASE Crash
  <2>1. Left
    BY <1>1 DEF Crash, Left
  <2> QED BY <1>1, <2>1, MarkerFacts, HostUnchanged, NoServerStep, QuitInv DEF Crash
<1>2. CASE Terminate
  BY <1>2, MarkerFacts, HostUnchanged, NoServerStep, RecoverInv
     DEF Terminate, ExecutionInv, TypeOK
<1>3. CASE Reconfigure
  BY <1>3, MarkerFacts, HostUnchanged, NoServerStep, RecoverInv
     DEF Reconfigure, Endpoints, ExecutionInv, TypeOK
<1>4. CASE ScriptMovesWorkspace
  BY <1>4, MarkerFacts, NoServerStep, RecoverInv
     DEF ScriptMovesWorkspace, ExecutionInv, TypeOK, HostTypes
<1>5. CASE OperatorRestoresWorkspace
  BY <1>5, MarkerFacts, NoServerStep, RecoverInv
     DEF OperatorRestoresWorkspace, ExecutionInv, TypeOK, HostTypes
<1>6. CASE AnswerLost
  <2>1. ServerSteps
    <3>1. CASE pc = "start" /\ Serve(cur, tok, "started")
      BY <3>1, ServeFacts DEF ExecutionInv, HoldsClaim, Occupied, Unlaunched, Accepted
    <3>2. CASE pc \in {"prepared", "unconfirmed"} /\ Serve(cur, tok, outcome)
      BY <3>2, ServeFacts DEF ExecutionInv, HoldsClaim, SuccessIsJustified, Occupied,
         Unlaunched,
         Accepted, Results, ResultStates
    <3>3. CASE /\ pc = "report" \/ (pc = "resume" /\ Deliverable /\ ~marker.acked)
               /\ Serve(marker.claim, marker.tok, marker.result)
      BY <3>3, ReportServed DEF ExecutionInv, HoldsReport, Deliverable, Accepted
    <3> QED BY <1>6, <3>1, <3>2, <3>3 DEF AnswerLost
  <2> QED BY <1>6, <2>1, MarkerFacts, HostUnchanged, RecoverInv
          DEF AnswerLost, ExecutionInv, TypeOK
<1>7. ASSUME NEW c \in Claims, ServerReclaims(c) PROVE ExecutionInv'
  BY <1>7, ServerMovesInv DEF ServerReclaims, ResultStates
<1>8. ASSUME NEW c \in Claims, ServerCancels(c) PROVE ExecutionInv'
  BY <1>8, ServerMovesInv DEF ServerCancels, ResultStates
<1>9. ASSUME NEW c \in Claims, ServerGivesUp(c) PROVE ExecutionInv'
  BY <1>9, ServerMovesInv DEF ServerGivesUp, ResultStates
<1> QED BY <1>1, <1>2, <1>3, <1>4, <1>5, <1>6, <1>7, <1>8, <1>9 DEF Environment

\* A restarted agent holds no claim.
LEMMA RestartInv == ASSUME ExecutionInv, Restart PROVE ExecutionInv'
BY MarkerFacts, NoServerStep, RecoverInv
   DEF Restart, ExecutionInv, TypeOK, HoldsStage, HostTypes

-----------------------------------------------------------------------------
(* The theorems.                                                           *)

\* Every step, and every stuttering step, preserves the invariant.
LEMMA NextInv == ASSUME ExecutionInv, [Next]_vars PROVE ExecutionInv'
<1>1. CASE UNCHANGED vars
  BY <1>1 DEF ExecutionInv, TypeOK, HoldsClaim, HoldsStage, HoldsReport, NotYetRun,
     StartIsFinal,
     SuccessIsJustified, AtMostOneExecution, Justified, Staged
<1>2. CASE Next
  BY <1>2, RestartInv, LoopInv, BeginInv, ExecuteInv, FinishInv, ResumeInv, HeartbeatInv,
     EnvironmentInv DEF Next, Agent
<1> QED BY <1>1, <1>2

\* ExecutionInv holds in every reachable state of the agent and its server.
THEOREM ExecutionInvariant == Spec => []ExecutionInv
<1>1. Init => ExecutionInv
  BY InitInv
<1>2. ExecutionInv /\ [Next]_vars => ExecutionInv'
  BY NextInv
<1> QED BY <1>1, <1>2, PTL DEF Spec

\* Every variable of the model keeps its type, whatever is crashed or lost.
THEOREM TypeCorrect == Spec => []TypeOK
<1>1. ExecutionInv => TypeOK
  BY DEF ExecutionInv
<1> QED BY <1>1, ExecutionInvariant, PTL

\* executeClaim launches the workload of a deployment at most once, for any
\* number of claims, faults and repeated hand-outs.
THEOREM ExecutesAtMostOnce == Spec => []AtMostOneExecution
<1>1. ExecutionInv => AtMostOneExecution
  BY DEF ExecutionInv
<1> QED BY <1>1, ExecutionInvariant, PTL

\* A success recorded at the server is backed by an execution that ended well
\* and by the published output of a staged job.
THEOREM SuccessIsTruthful == Spec => []TruthfulSuccess
<1>1. ExecutionInv => TruthfulSuccess
  BY DEF ExecutionInv, SuccessIsJustified, Justified, TruthfulSuccess
<1> QED BY <1>1, ExecutionInvariant, PTL

-----------------------------------------------------------------------------
(* ClaimLifecycle implements DeploymentOutcome: a launch is the abstract   *)
(* start of the work, the first final dispatch state is the recorded       *)
(* outcome, and every other step of agent, server and environment is       *)
(* invisible to the promise made for a deployment.                         *)

\* The server moves at most one deployment in a step, along the contract.
OneMove ==
  \/ UNCHANGED disp
  \/ \E c \in Claims, to \in DispatchStates :
       /\ disp' = [disp EXCEPT ![c] = to] /\ CanTransition(disp[c], to)
       /\ to = "succeeded" => executed[c] > 0

\* A served request is one move of the contract; a success needs an execution.
LEMMA ServeMoves ==
  ASSUME ExecutionInv, NEW c \in Claims, NEW t, NEW to \in Results \cup {"started"},
         to = "succeeded" => executed[c] > 0, Serve(c, t, to)
  PROVE  OneMove
<1>1. CASE Accepts(c, t, to)
  <2>1. CanTransition(disp[c], to) /\ to \in DispatchStates
    BY <1>1, MovesFacts, TransitionFacts DEF Accepts, ExecutionInv, TypeOK
  <2> QED BY <1>1, <2>1 DEF Serve, OneMove
<1>2. CASE ~Accepts(c, t, to)
  BY <1>2 DEF Serve, OneMove
<1> QED BY <1>1, <1>2

\* So is the report that recovery sends,
LEMMA ReportMoves ==
  ASSUME ExecutionInv, marker.kind \in {"terminal", "cleanup"},
         Serve(marker.claim, marker.tok, marker.result)
  PROVE  OneMove
BY ServeMoves DEF ExecutionInv, HoldsReport, SuccessIsJustified, Justified

\* the result executeClaim reports itself,
LEMMA OutcomeMoves ==
  ASSUME ExecutionInv, pc \in {"prepared", "unconfirmed"}, Serve(cur, tok, outcome)
  PROVE  OneMove
BY ServeMoves DEF ExecutionInv, HoldsClaim, SuccessIsJustified, Occupied, Unlaunched, Results,
   ResultStates

\* and the start it requests.
LEMMA StartMoves ==
  ASSUME ExecutionInv, pc = "start", Serve(cur, tok, "started")
  PROVE  OneMove
BY ServeMoves DEF ExecutionInv, HoldsClaim, Occupied, Unlaunched

\* Handing a deployment out is one move of the contract.
LEMMA HandOutMoves == ASSUME ExecutionInv, NEW c \in Claims, HandOut(c) PROVE OneMove
BY ClaimedFacts DEF HandOut, OneMove, DispatchStates

\* The server's own decisions are moves of the contract.
LEMMA ServerMovesOne ==
  ASSUME ExecutionInv, NEW c \in Claims,
         ServerReclaims(c) \/ ServerCancels(c) \/ ServerGivesUp(c)
  PROVE  OneMove /\ UNCHANGED executed
<1>1. PICK to \in {"waiting", "cancelled", "cancel_requested", "lost", "cancel_unconfirmed"} :
        ServerMoves(c, to)
  BY DEF ServerReclaims, ServerCancels, ServerGivesUp
<1> QED BY <1>1 DEF ServerMoves, OneMove, DispatchStates

\* Every step moves at most one deployment and launches at most one, and never
\* both.
LEMMA StepShape ==
  ASSUME ExecutionInv, [Next]_vars
  PROVE  Launch \/ (OneMove /\ UNCHANGED executed)
<1> USE DEF OneMove
<1>1. CASE UNCHANGED vars
  BY <1>1
<1>2. CASE Restart \/ Heartbeat
  BY <1>2 DEF Restart, Heartbeat
<1>3. CASE Loop
  BY <1>3, HandOutMoves
     DEF Loop, Connect, ResumeNothing, ResetStaging, PollIdle, LoopFails, PollClaim, PollLost
<1>4. CASE Begin
  BY <1>4, StartMoves, OutcomeMoves
     DEF Begin, PersistLegacy, PersistLegacyFails, RejectClaim, StartAcknowledged,
        StartConflict,
         StartAborts, PrepareContainer, PrepareFails, ReportUnprepared, ReportUnpreparedAborts
<1>5. CASE Execute
  BY <1>5
     DEF Execute, SetupFails, SetupHost, SetupContainer, SetupPartial, RecordStage,
        RecordStageFails, LaunchRefused,
         ExecutionEnds, EndsUnclean, ContainerUnremoved,
         SupervisorUnconfirmed, ScriptDirectoryRemains, Publish, PublishFails
<1>6. CASE Finish
  BY <1>6, OutcomeMoves
     DEF Finish, CloseKeeps, CloseContainer, CloseContainerFails, CloseRecords,
         CloseRecordsFails, Purge, PurgeFails, Settle, Hold, ReportUnconfirmed,
         ReportUnconfirmedAborts, SaveUnconfirmed, SaveOutcome, SaveOutcomeFails
<1>7. CASE Resume
  <2>1. pc \in {"report", "confirm", "swap", "ack", "retire"} => marker.kind \in {"terminal",
     "cleanup"}
    BY DEF ExecutionInv, HoldsReport
  <2> QED BY <1>7, <2>1, ReportMoves
     DEF Resume, ResumePurge, ResumeRootsBlocked, ReportTerminal, Deliverable,
         ConfirmCancellation, ConfirmAborts, ResumeCleanup, ResumeRuntimeBlocked, ReportCleanup,
         ResumeAborts, SwapCancellation, Acknowledge, Rewrite, ResumeAcknowledged, Retire
<1>8. CASE Environment
  <2>1. CASE AnswerLost
    <3>1. pc = "report" \/ (pc = "resume" /\ Deliverable) => marker.kind \in {"terminal",
       "cleanup"}
      BY DEF ExecutionInv, HoldsReport, Deliverable
    <3> QED BY <2>1, <3>1, StartMoves, OutcomeMoves, ReportMoves DEF AnswerLost
  <2>2. CASE \E c \in Claims : ServerReclaims(c) \/ ServerCancels(c) \/ ServerGivesUp(c)
    BY <2>2, ServerMovesOne
  <2> QED BY <1>8, <2>1, <2>2
          DEF Environment, Crash, Terminate, Reconfigure, ScriptMovesWorkspace,
              OperatorRestoresWorkspace
<1> QED BY <1>1, <1>2, <1>3, <1>4, <1>5, <1>6, <1>7, <1>8 DEF Next, Agent

Started == {c \in Claims : executed[c] > 0}
Recorded == [c \in Claims |-> IF disp[c] \in Final THEN disp[c] ELSE "none"]

\* A move is invisible to the abstract deployment or records its outcome.
LEMMA MoveImplements ==
  ASSUME ExecutionInv, OneMove, UNCHANGED executed
  PROVE  Deployment!Next \/ UNCHANGED <<Started, Recorded>>
<1>1. CASE UNCHANGED disp
  BY <1>1 DEF Started, Recorded
<1>2. ASSUME NEW c \in Claims, NEW to \in DispatchStates,
             disp' = [disp EXCEPT ![c] = to], CanTransition(disp[c], to),
             to = "succeeded" => executed[c] > 0
      PROVE  Deployment!Next \/ UNCHANGED <<Started, Recorded>>
  <2>1. disp[c] \notin Final /\ disp \in [Claims -> DispatchStates]
    BY <1>2, TransitionFacts DEF ExecutionInv, TypeOK
  <2>2. Recorded' = [Recorded EXCEPT ![c] = IF to \in Final THEN to ELSE "none"]
    BY <1>2, <2>1 DEF Recorded
  <2>3. CASE to \in Final
    <3>1. Deployment!Record(c, to)
      BY <1>2, <2>1, <2>2, <2>3 DEF Deployment!Record, Recorded
    <3> QED BY <2>3, <3>1 DEF Deployment!Next
  <2>4. CASE to \notin Final
    <3>1. Recorded' = Recorded
      BY <2>1, <2>2, <2>4 DEF Recorded
    <3> QED BY <3>1 DEF Started
  <2> QED BY <2>3, <2>4
<1> QED BY <1>1, <1>2 DEF OneMove

\* A launch is the start of its work.
LEMMA LaunchImplements ==
  ASSUME ExecutionInv, Launch
  PROVE  Deployment!Next
<1>1. cur \in Claims /\ executed[cur] = 0 /\ disp[cur] \in Live
  BY DEF Launch, ExecutionInv, HoldsClaim, NotYetRun, StartIsFinal, Occupied, Unlaunched,
     Accepted
<1>2. executed' = [executed EXCEPT ![cur] = 1] /\ UNCHANGED disp
  BY <1>1 DEF Launch
<1>3. disp[cur] \in Final => disp[cur] \in {"lost", "cancel_unconfirmed"}
  BY <1>1 DEF Live, Final, CanTransition, Edges, DispatchStates
<1>4. Started' = Started \cup {cur} /\ cur \notin Started
  <2>1. executed'[cur] = 1 /\ \A c \in Claims \ {cur} : executed'[c] = executed[c]
    BY <1>1, <1>2 DEF ExecutionInv, TypeOK
  <2> QED BY <1>1, <2>1 DEF Started
<1>5. Recorded' = Recorded /\ Recorded[cur] \in {"lost", "cancel_unconfirmed"} \cup {"none"}
  BY <1>1, <1>2, <1>3 DEF Recorded
<1>6. PICK c \in Claims : c = cur
  BY <1>1
<1>7. Deployment!StartWork(c)
  BY <1>4, <1>5, <1>6 DEF Deployment!StartWork, Started, Recorded
<1> QED BY <1>7 DEF Deployment!Next

\* A waiting deployment has no outcome yet.
LEMMA NothingRecordedAtFirst == "waiting" \notin Final
<1>1. CanTransition("waiting", "claimed") /\ "claimed" \in DispatchStates
  BY ClaimedFacts DEF DispatchStates
<1> QED BY <1>1 DEF Final

\* Agent, server and environment together keep the promise made for each
\* deployment: at most one start of its work and one recorded outcome.
THEOREM Implementation == Spec => ImplementsDeployment
<1>1. Init => Deployment!Init
  <2> SUFFICES ASSUME Init PROVE Deployment!Init
    OBVIOUS
  <2>1. Started = {}
    BY DEF Init, Started
  <2>2. Recorded = [c \in Claims |-> "none"]
    BY NothingRecordedAtFirst DEF Init, Recorded
  <2> QED BY <2>1, <2>2 DEF Deployment!Init, Started, Recorded
<1>2. ExecutionInv /\ [Next]_vars => Deployment!Next \/ UNCHANGED <<Started, Recorded>>
  BY StepShape, MoveImplements, LaunchImplements
<1> QED BY <1>1, <1>2, ExecutionInvariant, PTL
        DEF Spec, ImplementsDeployment, Deployment!Spec, Started, Recorded
=============================================================================
