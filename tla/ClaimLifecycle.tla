--------------------------- MODULE ClaimLifecycle ---------------------------
(***************************************************************************)
(* One agent process working through claimed deployments: the poll loop of *)
(* cmd/agent/main.go, executeClaim of claim_execution.go, the claim marker *)
(* that claim_storage.go keeps on disk, and the recovery that resumes from *)
(* it after a failure or a restart.  The server side is the dispatch       *)
(* contract of protocol/state.go.                                          *)
(*                                                                         *)
(* Every step ends where another actor can observe it or where a crash     *)
(* leaves different state behind: a write of the marker, a request, a      *)
(* change of the managed staging, processes or containers.                 *)
(***************************************************************************)
EXTENDS Dispatch, Naturals, FiniteSets

CONSTANTS
  Claims,          \* deployments the server may assign to this agent
  NoClaim,         \* no claim is being executed
  Runtimes,        \* container runtime endpoints an operator may configure
  NoRuntime,       \* container execution is not configured
  Kinds,           \* the kinds of payload that occur, a subset of KindSet
  ReplayAnswers,   \* what the server may say to a repeated request: state.go
                   \* refuses a second result, but not with which answer
  MayGiveUp,       \* whether the server declares claims lost or unconfirmed
  MaxTokens,       \* bound: how often one deployment is handed out
  MaxFaults        \* bound: crashes, failed writes, lost answers, signals ...

KindSet == [mode : {"host", "container"}, staged : BOOLEAN]

ASSUME ClaimsAssumption  == NoClaim \notin Claims
ASSUME RuntimeAssumption == NoRuntime \notin Runtimes
ASSUME KindsAssumption   == Kinds \subseteq KindSet
ASSUME ReplayAssumption  == ReplayAnswers \subseteq {"ok", "conflict"}
ASSUME BoundsAssumption  == MaxTokens \in Nat /\ MaxFaults \in Nat /\ MayGiveUp \in BOOLEAN

VARIABLES
  pc,          \* where the agent's main goroutine is
  cur, tok,    \* the claim executeClaim was called with, and its token
  kind,        \* the payload of each deployment
  stage,       \* jobStaging: "none", on the "host" or in a "container" volume
  roots,       \* stage.recoveryRoots: where the identities were last recorded
  errs,        \* what the joined err of executeClaim wraps
  outcome,     \* the result executeClaim decided to report
  hb,          \* heartbeat goroutine: "off", "on", saw "cancel", or "failed"
  fresh,       \* runPaired has not reset staging yet (stagingReady is false)
  term,        \* the process received SIGTERM: ctx is cancelled
  marker,      \* the claim marker file
  staging,     \* job data in managed host staging, also when "moved" out of it
  procs,       \* claims with supervised (staged) host processes not yet reaped
  containers,  \* <<claim, runtime>> with owned containers or volumes
  scripts,     \* claims whose private script directory could not be removed
  runtime,     \* the configured container runtime
  disp,        \* the server's dispatch state of each deployment
  epoch,       \* which token of a deployment is the live one
  published,   \* claims whose staging output the server holds
  executed,    \* history: how often a deployment's workload was launched
  ran,         \* history: how its execution ended
  faults       \* faults injected so far

job     == <<stage, roots, errs, outcome, hb>>
session == <<cur, tok, fresh, term>>
host    == <<staging, procs, containers, scripts>>
server  == <<disp, epoch, published>>
history == <<executed, ran>>
fixed   == <<kind, runtime>>
vars    == <<pc, job, session, host, server, history, fixed, marker, faults>>

Results == ResultStates \cup {"cancelled"}

NoMarker ==
  [kind |-> "none", claim |-> NoClaim, tok |-> 0, result |-> "none",
   acked |-> FALSE, runtime |-> NoRuntime, roots |-> "none"]

Staged(c)      == kind[c].staged
InContainer(c) == kind[c].mode = "container"

Init ==
  /\ pc = "down" /\ cur = NoClaim /\ tok = 0 /\ fresh = TRUE /\ term = FALSE
  /\ stage = "none" /\ roots = "none" /\ errs = {} /\ outcome = "none" /\ hb = "off"
  /\ kind \in [Claims -> Kinds]
  /\ runtime \in Runtimes \cup {NoRuntime}
  /\ marker = NoMarker
  /\ staging = "empty" /\ procs = {} /\ containers = {} /\ scripts = {}
  /\ disp = [c \in Claims |-> "waiting"]
  /\ epoch = [c \in Claims |-> 0]
  /\ published = {}
  /\ executed = [c \in Claims |-> 0]
  /\ ran = [c \in Claims |-> "no"]
  /\ faults = 0

-----------------------------------------------------------------------------
(* Faults and file writes.                                                 *)

Fault    == faults < MaxFaults /\ faults' = faults + 1
NoFault  == UNCHANGED faults
Aborted  == (term /\ NoFault) \/ Fault   \* ctx is done, a deadline, a bad status

\* The markers executeClaim writes for the claim it holds.
Legacy == [NoMarker EXCEPT !.kind = "legacy", !.claim = cur, !.tok = tok]

CleanupReport(acked) ==
  [kind |-> "cleanup", claim |-> cur, tok |-> tok, result |-> "cleanup_unconfirmed",
   acked |-> acked, runtime |-> runtime, roots |-> "none"]

TerminalReport(result, held) ==
  [kind |-> "terminal", claim |-> cur, tok |-> tok, result |-> result,
   acked |-> FALSE, runtime |-> NoRuntime, roots |-> held]

Write(m) == marker' = m /\ NoFault
\* writePrivateFile may fail before its rename or after it.
WriteFails(m) == Fault /\ marker' \in {marker, m}
TryWrite(m) == Write(m) \/ WriteFails(m)

Clear      == marker' = NoMarker /\ NoFault
ClearFails == Fault /\ marker' \in {marker, NoMarker}

\* What Ready finds by its label and removes, and what one attempt removes.
Owned      == {x \in containers : x[2] = runtime}
Removed(c) == containers \ {<<c, runtime>>}

\* The supervisor reaped every descendant and said so.
Reaped(c)  == procs \ {c}

-----------------------------------------------------------------------------
(* The server's part of a request.  A repeated request is one whose effect *)
(* is already recorded under the live token.                               *)

\* Mutant: a late answer replaces the server's own verdict.
Moves_RevivesLost(c, to) ==
  IF disp[c] = "lost" \/ to \notin ResultStates THEN to ELSE Complete(disp[c], to)

Moves(c, to) == IF to \in ResultStates THEN Complete(disp[c], to)
                                       ELSE Transition(disp[c], to)

\* cleanup_unconfirmed is valid in agent/3 requests only.
WellFormed(to) == to = "cleanup_unconfirmed" => runtime # NoRuntime

Accepts(c, t, to) == WellFormed(to) /\ epoch[c] = t /\ Moves(c, to) = to

Answers(c, t, to) ==
  IF ~WellFormed(to) THEN {"invalid"}
  ELSE IF Accepts(c, t, to) THEN {"ok"}
  ELSE IF epoch[c] = t /\ disp[c] = to THEN ReplayAnswers
  ELSE {"conflict"}

Serve(c, t, to) ==
  /\ disp' = IF Accepts(c, t, to) THEN [disp EXCEPT ![c] = to] ELSE disp
  /\ UNCHANGED <<epoch, published>>

CancelRequested(c, t) == epoch[c] = t /\ disp[c] = "cancel_requested"
HeartbeatValid(c, t)  == epoch[c] = t /\ disp[c] \in {"started", "cancel_requested"}

-----------------------------------------------------------------------------
(* Returning from executeClaim or from a recovery attempt.  run() builds a *)
(* new client after an error; a conflict inside executeClaim only skips to *)
(* the next round of the poll loop; SIGTERM ends the process either way.   *)

Leave(next) ==
  /\ pc' = IF term THEN "down" ELSE next
  /\ cur' = NoClaim /\ tok' = 0 /\ term' = FALSE
  /\ fresh' = (fresh \/ pc' # "resume")
  /\ stage' = "none" /\ roots' = "none" /\ errs' = {} /\ outcome' = "none"
  /\ hb' = "off"

ReturnConflict == Leave(IF cur = NoClaim THEN "init" ELSE "resume")

\* run() exits on ErrHostProcessCleanup so that the service is restarted.
ReturnCleanupError == Leave(IF "hostproc" \in errs THEN "down" ELSE "init")

Goto(next) == pc' = next

-----------------------------------------------------------------------------
(* run and runPaired.                                                      *)

\* The unit's control group and its private /tmp do not outlive the service.
Restart ==
  /\ pc = "down" /\ Goto("init") /\ procs' = {} /\ scripts' = {}
  /\ UNCHANGED <<job, session, staging, containers, server, history, fixed, marker,
                 faults>>

\* NewPaired; EnableContainers runs the first reconciliation.
Connect ==
  /\ pc = "init" /\ ~term /\ Goto("resume")
  /\ containers' = containers \ Owned
  /\ fresh' = TRUE
  /\ UNCHANGED <<job, cur, tok, term, staging, procs, scripts, server, history,
                 fixed, marker, faults>>

\* Mutant: a saved report does not keep the agent from polling.
ResumeNothing_PollsAnyway ==
  /\ pc = "resume" /\ cur = NoClaim
  /\ Goto(IF fresh THEN "reset" ELSE "poll")
  /\ UNCHANGED <<job, session, host, server, history, fixed, marker, faults>>

ResumeNothing ==
  /\ pc = "resume" /\ cur = NoClaim /\ marker.kind \in {"none", "legacy"}
  /\ Goto(IF fresh THEN "reset" ELSE "poll")
  /\ UNCHANGED <<job, session, host, server, history, fixed, marker, faults>>

\* ResetStaging empties the staging directory, not data moved out of it.
ResetStaging ==
  /\ pc = "reset" /\ Goto("poll")
  /\ fresh' = FALSE
  /\ staging' = IF staging = "inside" THEN "empty" ELSE staging
  /\ UNCHANGED <<job, cur, tok, term, procs, containers, scripts, server, history,
                 fixed, marker, faults>>

PollIdle ==
  /\ pc = "poll" /\ ~term /\ Goto("resume")
  /\ containers' = containers \ Owned
  /\ UNCHANGED <<job, session, staging, procs, scripts, server, history, fixed,
                 marker, faults>>

\* The server hands out a waiting deployment under a new token.
HandOut(c) ==
  /\ disp[c] = "waiting" /\ epoch[c] < MaxTokens
  /\ disp' = [disp EXCEPT ![c] = Transition(@, "claimed")]
  /\ epoch' = [epoch EXCEPT ![c] = @ + 1]
  /\ UNCHANGED published

PollClaim(c) ==
  /\ pc = "poll" /\ ~term /\ Goto("claim")
  /\ HandOut(c)
  /\ cur' = c /\ tok' = epoch'[c]
  /\ containers' = containers \ Owned
  /\ UNCHANGED <<job, fresh, term, staging, procs, scripts, history, fixed, marker, faults>>

\* The claim was recorded but the agent never saw the response.
PollLost(c) ==
  /\ pc = "poll" /\ ~term /\ HandOut(c) /\ Fault
  /\ UNCHANGED <<pc, job, session, host, history, fixed, marker>>

\* Reset, readiness or the poll itself failed, or the process is stopping.
LoopFails ==
  /\ pc \in {"init", "resume", "reset", "poll"} /\ cur = NoClaim
  /\ Aborted /\ Leave("init")
  /\ UNCHANGED <<host, server, history, fixed, marker>>

-----------------------------------------------------------------------------
(* executeClaim up to the acknowledged start.                              *)

PersistLegacy ==
  /\ pc = "claim" /\ Write(Legacy) /\ Goto("start")
  /\ UNCHANGED <<job, session, host, server, history, fixed>>

PersistLegacyFails ==
  /\ pc = "claim" /\ WriteFails(Legacy) /\ Leave("init")
  /\ UNCHANGED <<host, server, history, fixed>>

\* An undecodable payload or one this agent cannot execute, or not ready.
RejectClaim ==
  /\ pc = "start" /\ (Clear \/ ClearFails) /\ Leave("init")
  /\ UNCHANGED <<host, server, history, fixed>>

\* Mutant: execution begins without waiting for the server's word.
StartAcknowledged_Unchecked ==
  /\ pc = "start" /\ (InContainer(cur) => runtime # NoRuntime)
  /\ Serve(cur, tok, "started")
  /\ IF InContainer(cur) THEN Goto("prepare") /\ UNCHANGED hb
     ELSE Goto(IF Staged(cur) THEN "setup" ELSE "launch") /\ hb' = "on"
  /\ UNCHANGED <<stage, roots, errs, outcome, session, host, history, fixed, marker, faults>>

StartAcknowledged ==
  /\ pc = "start" /\ (InContainer(cur) => runtime # NoRuntime)
  /\ "ok" \in Answers(cur, tok, "started") /\ Serve(cur, tok, "started")
  /\ IF InContainer(cur) THEN Goto("prepare") /\ UNCHANGED hb
     ELSE Goto(IF Staged(cur) THEN "setup" ELSE "launch") /\ hb' = "on"
  /\ UNCHANGED <<stage, roots, errs, outcome, session, host, history, fixed, marker, faults>>

StartConflict ==
  /\ pc = "start" /\ "conflict" \in Answers(cur, tok, "started")
  /\ (Clear \/ ClearFails) /\ ReturnConflict
  /\ UNCHANGED <<host, server, history, fixed>>

StartAborts ==
  /\ pc = "start" /\ ((term /\ Clear) \/ ClearFails) /\ Leave("init")
  /\ UNCHANGED <<host, server, history, fixed>>

\* Mutant: the container runs under the legacy marker.
PrepareContainer_NotSaved ==
  /\ pc = "prepare" /\ Goto(IF Staged(cur) THEN "setup" ELSE "launch") /\ hb' = "on"
  /\ UNCHANGED <<stage, roots, errs, outcome, session, host, server, history, fixed,
                 marker, faults>>

\* prepareContainerClaim: no container may exist before its report is saved.
PrepareContainer ==
  /\ pc = "prepare" /\ Write(CleanupReport(FALSE))
  /\ Goto(IF Staged(cur) THEN "setup" ELSE "launch") /\ hb' = "on"
  /\ UNCHANGED <<stage, roots, errs, outcome, session, host, server, history, fixed>>

\* The report could not be saved; retire what was written and say so.
PrepareFails ==
  /\ pc = "prepare" /\ Fault /\ Goto("prepared")
  /\ \/ marker' = NoMarker /\ outcome' = "failed"
     \/ marker' \in {marker, CleanupReport(FALSE), NoMarker}
        /\ outcome' = "cleanup_unconfirmed"
  /\ UNCHANGED <<stage, roots, errs, hb, session, host, server, history, fixed>>

ReportUnprepared ==
  /\ pc = "prepared" /\ Serve(cur, tok, outcome) /\ NoFault
  /\ \/ "ok" \in Answers(cur, tok, outcome) /\ Leave("init")
     \/ "conflict" \in Answers(cur, tok, outcome) /\ ReturnConflict
  /\ UNCHANGED <<host, history, fixed, marker>>

ReportUnpreparedAborts ==
  /\ pc = "prepared" /\ Fault /\ Leave("init")
  /\ UNCHANGED <<host, server, history, fixed, marker>>

-----------------------------------------------------------------------------
(* Execution, with the heartbeat goroutine running beside it.              *)

ExecutionDone == hb # "on" \/ term     \* executionCtx is cancelled

Heartbeat ==
  /\ hb = "on"
  /\ \/ CancelRequested(cur, tok) /\ hb' = "cancel" /\ NoFault
     \/ ~HeartbeatValid(cur, tok) /\ hb' = "failed" /\ NoFault
     \/ Fault /\ hb' = "failed"
  /\ UNCHANGED <<pc, stage, roots, errs, outcome, session, host, server, history,
                 fixed, marker>>

\* newJobStaging returned no stage, or the environment was rejected.
SetupFails ==
  /\ pc = "setup" /\ Goto("settle") /\ errs' = {"plain"}
  /\ UNCHANGED <<stage, roots, outcome, hb, session, host, server, history, fixed,
                 marker, faults>>

SetupHost ==
  /\ pc = "setup" /\ ~ExecutionDone /\ ~InContainer(cur) /\ Goto("record")
  /\ staging' = "inside" /\ stage' = "host"
  /\ UNCHANGED <<roots, errs, outcome, hb, session, procs, containers, scripts, server,
                 history, fixed, marker, faults>>

\* The input is unpacked into a volume that a keeper container holds.
SetupContainer ==
  /\ pc = "setup" /\ ~ExecutionDone /\ InContainer(cur) /\ Goto("launch")
  /\ staging' = "inside" /\ stage' = "container"
  /\ containers' = containers \cup {<<cur, runtime>>}
  /\ UNCHANGED <<roots, errs, outcome, hb, session, procs, scripts, server, history,
                 fixed, marker, faults>>

\* The stage exists but could not be configured; NewStage closes what it made.
SetupPartial ==
  /\ pc = "setup" /\ Goto("close") /\ staging' = "inside"
  /\ \/ stage' = "host" /\ errs' = {"plain"} /\ UNCHANGED containers /\ NoFault
     \/ InContainer(cur) /\ stage' = "container" /\ errs' = {"plain"}
        /\ UNCHANGED containers /\ NoFault
     \/ InContainer(cur) /\ stage' = "container" /\ errs' = {"plain", "cleanup"}
        /\ containers' = containers \cup {<<cur, runtime>>} /\ Fault
  /\ UNCHANGED <<roots, outcome, hb, session, procs, scripts, server, history, fixed,
                 marker>>

\* A failed outcome and the identities to purge are saved before the script
\* can run or move anything.
RecordStage ==
  /\ pc = "record" /\ roots' = staging /\ Write(TerminalReport("failed", staging))
  /\ Goto("launch")
  /\ UNCHANGED <<stage, errs, outcome, hb, session, host, server, history, fixed>>

RecordStageFails ==
  /\ pc = "record" /\ roots' = staging /\ WriteFails(TerminalReport("failed", staging))
  /\ Goto("close") /\ errs' = {"plain"}
  /\ UNCHANGED <<stage, outcome, hb, session, host, server, history, fixed>>

AfterFailure == IF stage = "none" THEN "settle" ELSE "close"

Launch ==
  /\ pc = "launch" /\ ~ExecutionDone /\ Goto("running")
  /\ executed' = [executed EXCEPT ![cur] = @ + 1]
  /\ IF InContainer(cur)
     THEN containers' = containers \cup {<<cur, runtime>>} /\ UNCHANGED procs
     ELSE /\ procs' = IF Staged(cur) THEN procs \cup {cur} ELSE procs
          /\ UNCHANGED containers
  /\ UNCHANGED <<job, session, staging, scripts, server, ran, fixed, marker, faults>>

\* Mutant: the error that stopped the launch is lost.
LaunchRefused_Forgotten ==
  /\ pc = "launch" /\ Goto(AfterFailure)
  /\ UNCHANGED <<job, session, host, server, history, fixed, marker, faults>>

LaunchRefused ==
  /\ pc = "launch" /\ Goto(AfterFailure) /\ errs' = {"plain"}
  /\ UNCHANGED <<stage, roots, outcome, hb, session, host, server, history, fixed,
                 marker, faults>>

\* A staged script may rename its workspace, and a descendant whose end is
\* not confirmed may do so after the identities were recorded.
ScriptMovesWorkspace ==
  /\ procs # {} /\ staging = "inside" /\ staging' = "moved"
  /\ UNCHANGED <<pc, job, session, procs, containers, scripts, server, history, fixed,
                 marker, faults>>

\* The steps returned and every process or container is confirmed gone.
ExecutionEnds(ok) ==
  /\ pc = "running"
  /\ errs' = IF ok THEN {} ELSE {"plain"}
  /\ ran' = [ran EXCEPT ![cur] = IF ok THEN "ok" ELSE "failed"]
  /\ Goto(IF ok /\ Staged(cur) THEN "publish" ELSE AfterFailure)
  /\ procs' = Reaped(cur)
  /\ containers' = IF stage = "container" THEN containers ELSE Removed(cur)
  /\ UNCHANGED <<stage, roots, outcome, hb, session, staging, scripts, server, executed,
                 fixed, marker, faults>>

\* Something the attempt created could not be confirmed removed.
EndsUnclean(wraps) ==
  /\ pc = "running" /\ Fault /\ Goto(AfterFailure)
  /\ errs' = {"plain", "cleanup"} \cup wraps
  /\ ran' = [ran EXCEPT ![cur] = "failed"]
  /\ UNCHANGED <<stage, roots, outcome, hb, session, staging, server, executed, fixed,
                 marker>>

ContainerUnremoved ==
  /\ EndsUnclean({}) /\ InContainer(cur)
  /\ UNCHANGED <<procs, containers, scripts>>

SupervisorUnconfirmed ==
  /\ EndsUnclean({"hostproc"}) /\ Staged(cur) /\ ~InContainer(cur)
  /\ UNCHANGED <<procs, containers, scripts>>

\* Every attempt on the host has a private script directory; a deployment
\* with container steps may also have host steps, unless it is staged.
ScriptDirectoryRemains ==
  /\ EndsUnclean({"hostproc"}) /\ ~(Staged(cur) /\ InContainer(cur))
  /\ scripts' = scripts \cup {cur} /\ procs' \in {procs, Reaped(cur)}
  /\ containers' = Removed(cur)

\* A moved workspace is refused; the upload needs the live claim.
Publish ==
  /\ pc = "publish" /\ ~ExecutionDone /\ staging = "inside" /\ HeartbeatValid(cur, tok)
  /\ published' = published \cup {cur} /\ Goto("close")
  /\ UNCHANGED <<job, session, host, disp, epoch, history, fixed, marker, faults>>

\* Mutant: a failed upload does not fail the deployment.
PublishFails_Swallowed ==
  /\ pc = "publish" /\ Goto("close")
  /\ UNCHANGED <<job, session, host, server, history, fixed, marker, faults>>

\* Also when the upload was stored and only its answer is missing.
PublishFails ==
  /\ pc = "publish" /\ errs' = {"plain"} /\ Goto("close")
  /\ \/ UNCHANGED <<published, faults>>
     \/ staging = "inside" /\ HeartbeatValid(cur, tok) /\ Fault
        /\ published' = published \cup {cur}
  /\ UNCHANGED <<stage, roots, outcome, hb, session, host, disp, epoch, history, fixed,
                 marker>>

-----------------------------------------------------------------------------
(* stage.close and what executeClaim makes of its errors.                  *)

\* Unconfirmed processes may still use the data: record it, do not purge.
CloseKeeps ==
  /\ pc = "close" /\ "hostproc" \in errs /\ Goto("settle")
  /\ \/ roots' = staging /\ NoFault
     \/ roots' = "invalid" /\ Fault
  /\ UNCHANGED <<stage, errs, outcome, hb, session, host, server, history, fixed, marker>>

CloseContainer ==
  /\ pc = "close" /\ "hostproc" \notin errs /\ stage = "container" /\ Goto("settle")
  /\ containers' = Removed(cur) /\ staging' = "empty"
  /\ UNCHANGED <<job, session, procs, scripts, server, history, fixed, marker, faults>>

\* Mutant: a volume that could not be removed is only logged.
CloseContainerFails_Forgotten ==
  /\ pc = "close" /\ "hostproc" \notin errs /\ stage = "container" /\ Goto("settle")
  /\ Fault
  /\ containers' \in {containers, Removed(cur)}
  /\ staging' \in {staging, "empty"}
  /\ UNCHANGED <<job, session, procs, scripts, server, history, fixed, marker>>

CloseContainerFails ==
  /\ pc = "close" /\ "hostproc" \notin errs /\ stage = "container" /\ Goto("settle")
  /\ Fault /\ errs' = errs \cup {"cleanup"}
  /\ containers' \in {containers, Removed(cur)}
  /\ staging' \in {staging, "empty"}
  /\ UNCHANGED <<stage, roots, outcome, hb, session, procs, scripts, server, history,
                 fixed, marker>>

CloseRecords ==
  /\ pc = "close" /\ "hostproc" \notin errs /\ stage = "host" /\ Goto("purge")
  /\ roots' = staging /\ Write(TerminalReport("failed", staging))
  /\ UNCHANGED <<stage, errs, outcome, hb, session, host, server, history, fixed>>

CloseRecordsFails ==
  /\ pc = "close" /\ "hostproc" \notin errs /\ stage = "host" /\ Goto("settle")
  /\ errs' = errs \cup {"cleanup"}
  /\ \/ roots' = staging /\ WriteFails(TerminalReport("failed", staging))
     \/ roots' = "invalid" /\ Fault /\ UNCHANGED marker
  /\ UNCHANGED <<stage, outcome, hb, session, host, server, history, fixed>>

Purge ==
  /\ pc = "purge" /\ Goto("settle") /\ staging' = "empty"
  /\ UNCHANGED <<job, session, procs, containers, scripts, server, history, fixed,
                 marker, faults>>

PurgeFails ==
  /\ pc = "purge" /\ Goto("settle") /\ Fault
  /\ staging' \in {staging, "empty"} /\ errs' = errs \cup {"cleanup"}
  /\ UNCHANGED <<stage, roots, outcome, hb, session, procs, containers, scripts, server,
                 history, fixed, marker>>

\* The heartbeat goroutine is joined, the last logs are flushed, and the
\* outcome is chosen: cleanup first, then cancellation, then the error.
Settle(flushed) ==
  LET failed == errs # {} \/ ~flushed
      decided == IF "cleanup" \in errs THEN "cleanup_unconfirmed"
                 ELSE IF hb = "cancel" \/ term THEN "cancelled"
                 ELSE IF failed THEN "failed" ELSE "succeeded"
  IN
  /\ pc = "settle" /\ outcome' = decided /\ hb' = "off"
  /\ Goto(IF decided # "cleanup_unconfirmed" THEN "outcome"
          ELSE IF stage = "host" THEN "hold" ELSE "unconfirmed")
  /\ UNCHANGED <<stage, roots, errs, session, host, server, history, fixed, marker, faults>>

\* Host staging that is not purged yet keeps its failed report on disk.
Hold ==
  /\ pc = "hold"
  /\ TryWrite(TerminalReport("failed", roots))
  /\ ReturnCleanupError
  /\ UNCHANGED <<host, server, history, fixed>>

ReportUnconfirmed ==
  /\ pc = "unconfirmed" /\ Serve(cur, tok, outcome)
  /\ \/ "ok" \in Answers(cur, tok, outcome) /\ Goto("unconfirmedAck")
        /\ UNCHANGED <<job, session>>
     \/ "ok" \notin Answers(cur, tok, outcome) /\ ReturnCleanupError
  /\ UNCHANGED <<host, history, fixed, marker, faults>>

ReportUnconfirmedAborts ==
  /\ pc = "unconfirmed" /\ Fault /\ ReturnCleanupError
  /\ UNCHANGED <<host, server, history, fixed, marker>>

SaveUnconfirmed ==
  /\ pc = "unconfirmedAck"
  /\ TryWrite(CleanupReport(TRUE))
  /\ ReturnCleanupError
  /\ UNCHANGED <<host, server, history, fixed>>

SaveOutcome ==
  /\ pc = "outcome" /\ Write(TerminalReport(outcome, "none")) /\ Goto("resume")
  /\ UNCHANGED <<job, session, host, server, history, fixed>>

SaveOutcomeFails ==
  /\ pc = "outcome" /\ WriteFails(TerminalReport(outcome, "none"))
  /\ \/ Leave("init")
     \/ errs # {} /\ Leave("resume")     \* the joined error was a conflict
  /\ UNCHANGED <<host, server, history, fixed>>

-----------------------------------------------------------------------------
(* resumeCleanupResult: deliver what the marker holds, then retire it.     *)

RootsReplayable ==
  marker.roots # "invalid" /\ (staging = "empty" \/ marker.roots = staging)

\* Mutant: the directory is emptied by its path, wherever its data went.
ResumePurge_ByPath ==
  /\ pc = "resume" /\ marker.kind = "terminal" /\ marker.roots # "none"
  /\ staging' = IF staging = "inside" THEN "empty" ELSE staging
  /\ Write([marker EXCEPT !.roots = "none"])
  /\ UNCHANGED <<pc, job, session, procs, containers, scripts, server, history, fixed>>

ResumePurge ==
  /\ pc = "resume" /\ marker.kind = "terminal" /\ marker.roots # "none"
  /\ RootsReplayable
  /\ staging' \in {"empty"} \cup (IF faults < MaxFaults THEN {staging} ELSE {})
  /\ LET m == [marker EXCEPT !.roots = "none"] IN
     \/ staging' = "empty" /\ Write(m) /\ UNCHANGED <<pc, job, session>>
     \/ staging' = "empty" /\ WriteFails(m) /\ Leave("init")
     \/ staging' = staging /\ Fault /\ Leave("init") /\ UNCHANGED marker
  /\ UNCHANGED <<procs, containers, scripts, server, history, fixed>>

\* A missing or replaced identity is never skipped.
ResumeRootsBlocked ==
  /\ pc = "resume" /\ marker.kind = "terminal" /\ marker.roots # "none"
  /\ ~RootsReplayable /\ Leave("init")
  /\ UNCHANGED <<host, server, history, fixed, marker, faults>>

Deliverable == marker.kind = "terminal" /\ marker.roots = "none"

\* Mutant: a refused report is retired like an accepted one.
ReportTerminal_ConflictRetires ==
  /\ pc = "resume" /\ Deliverable /\ ~marker.acked /\ Goto("ack")
  /\ Serve(marker.claim, marker.tok, marker.result)
  /\ UNCHANGED <<job, session, host, history, fixed, marker, faults>>

ReportTerminal ==
  LET answers == Answers(marker.claim, marker.tok, marker.result) IN
  /\ pc = "resume" /\ Deliverable /\ ~marker.acked
  /\ Serve(marker.claim, marker.tok, marker.result)
  /\ \/ "ok" \in answers /\ Goto("ack") /\ UNCHANGED <<job, session>>
     \/ "conflict" \in answers
        /\ IF marker.result = "cancelled" THEN ReturnConflict
           ELSE Goto("confirm") /\ UNCHANGED <<job, session>>
  /\ UNCHANGED <<host, history, fixed, marker, faults>>

\* Mutants: every refusal, or none, is taken for a cancellation.
ConfirmCancellation_Assumed ==
  /\ pc = "confirm" /\ Goto("swap")
  /\ UNCHANGED <<job, session, host, server, history, fixed, marker, faults>>

ConfirmCancellation_Never ==
  /\ pc = "confirm" /\ ReturnConflict
  /\ UNCHANGED <<host, server, history, fixed, marker, faults>>

\* A refused result is replaced only if the server asks for cancellation.
ConfirmCancellation ==
  /\ pc = "confirm"
  /\ IF CancelRequested(marker.claim, marker.tok)
     THEN Goto("swap") /\ UNCHANGED <<job, session>>
     ELSE ReturnConflict
  /\ UNCHANGED <<host, server, history, fixed, marker, faults>>

\* Mutant: any configured runtime is reconciled in place of the recorded one.
ResumeCleanup_AnyRuntime ==
  /\ pc = "resume" /\ marker.kind = "cleanup" /\ runtime # NoRuntime
  /\ containers' = containers \ Owned
  /\ Goto(IF marker.acked THEN "retire" ELSE "report")
  /\ UNCHANGED <<job, session, staging, procs, scripts, server, history, fixed, marker,
                 faults>>

ResumeCleanup ==
  /\ pc = "resume" /\ marker.kind = "cleanup" /\ marker.runtime = runtime
  /\ containers' = containers \ Owned
  /\ Goto(IF marker.acked THEN "retire" ELSE "report")
  /\ UNCHANGED <<job, session, staging, procs, scripts, server, history, fixed, marker,
                 faults>>

ResumeRuntimeBlocked ==
  /\ pc = "resume" /\ marker.kind = "cleanup" /\ marker.runtime # runtime
  /\ Leave("init")
  /\ UNCHANGED <<host, server, history, fixed, marker, faults>>

ReportCleanup ==
  LET answers == Answers(marker.claim, marker.tok, marker.result) IN
  /\ pc = "report" /\ Serve(marker.claim, marker.tok, marker.result)
  /\ \/ "ok" \in answers /\ Goto("ack") /\ UNCHANGED <<job, session>>
     \/ "conflict" \in answers /\ ReturnConflict
  /\ UNCHANGED <<host, history, fixed, marker, faults>>

\* A saved cancellation is delivered under a context SIGTERM does not cancel.
ResumeAborts ==
  /\ pc \in {"resume", "report"} /\ marker.kind \in {"terminal", "cleanup"}
  /\ (term /\ outcome # "cancelled" /\ NoFault) \/ Fault
  /\ Leave("init")
  /\ UNCHANGED <<host, server, history, fixed, marker>>

\* The heartbeat got no answer; the refusal it should have explained remains.
ConfirmAborts ==
  /\ pc = "confirm" /\ Aborted /\ ReturnConflict
  /\ UNCHANGED <<host, server, history, fixed, marker>>

\* The two rewrites of a saved report: a confirmed cancellation replaces the
\* result, and an acknowledged report is marked so that it is not sent again.
Rewrite(at, m, next) ==
  /\ pc = at
  /\ \/ Write(m) /\ Goto(next) /\ UNCHANGED <<job, session>>
     \/ WriteFails(m) /\ Leave("init")
  /\ UNCHANGED <<host, server, history, fixed>>

\* Mutant: the cancellation is delivered but not saved.
SwapCancellation_NotSaved == Rewrite("swap", marker, "resume")

SwapCancellation == Rewrite("swap", [marker EXCEPT !.result = "cancelled"], "resume")
Acknowledge      == Rewrite("ack", [marker EXCEPT !.acked = TRUE], "retire")

ResumeAcknowledged ==
  /\ pc = "resume" /\ Deliverable /\ marker.acked /\ Goto("retire")
  /\ UNCHANGED <<job, session, host, server, history, fixed, marker, faults>>

\* Mutant: a delivered report stays where it is.
Retire_Kept == pc = "retire" /\ Leave("resume")
  /\ UNCHANGED <<host, server, history, fixed, marker, faults>>

Retire ==
  /\ pc = "retire"
  /\ \/ Clear /\ Leave("resume")
     \/ ClearFails /\ Leave("init")
  /\ UNCHANGED <<host, server, history, fixed>>

-----------------------------------------------------------------------------
(* The environment: process and machine, operator, network, server.        *)

\* The process dies without running a deferred call.
Crash ==
  /\ pc # "down" /\ Fault /\ pc' = "down"
  /\ cur' = NoClaim /\ tok' = 0 /\ term' = FALSE /\ fresh' = TRUE
  /\ stage' = "none" /\ roots' = "none" /\ errs' = {} /\ outcome' = "none" /\ hb' = "off"
  /\ UNCHANGED <<host, server, history, fixed, marker>>

Terminate ==
  /\ pc # "down" /\ ~term /\ Fault /\ term' = TRUE
  /\ UNCHANGED <<pc, job, cur, tok, fresh, host, server, history, fixed, marker>>

Reconfigure ==
  /\ pc = "down" /\ Fault
  /\ runtime' \in (Runtimes \cup {NoRuntime}) \ {runtime}
  /\ UNCHANGED <<pc, job, session, host, server, history, kind, marker>>

OperatorRestoresWorkspace ==
  /\ pc = "down" /\ staging = "moved" /\ marker.roots = "inside" /\ staging' = "inside"
  /\ UNCHANGED <<pc, job, session, procs, containers, scripts, server, history, fixed,
                 marker, faults>>

\* A request was served but its response never arrived; sendStatus repeats it.
AnswerLost ==
  /\ Fault
  /\ \E c \in Claims, t \in 1..MaxTokens, to \in Results \cup {"started"} :
       /\ \/ pc = "start" /\ <<c, t, to>> = <<cur, tok, "started">>
          \/ pc \in {"prepared", "unconfirmed"} /\ <<c, t, to>> = <<cur, tok, outcome>>
          \/ /\ pc = "report" \/ (pc = "resume" /\ Deliverable /\ ~marker.acked)
             /\ <<c, t, to>> = <<marker.claim, marker.tok, marker.result>>
       /\ Accepts(c, t, to) /\ Serve(c, t, to)
  /\ UNCHANGED <<pc, job, session, host, history, fixed, marker>>

ServerMoves(c, to) ==
  /\ CanTransition(disp[c], to)
  /\ disp' = [disp EXCEPT ![c] = to]
  /\ UNCHANGED <<pc, job, session, host, epoch, published, history, fixed, marker, faults>>

ServerReclaims(c) == Reclaim(disp[c]) = "waiting" /\ ServerMoves(c, "waiting")

ServerCancels(c) ==
  \/ disp[c] \in {"waiting", "claimed"} /\ ServerMoves(c, "cancelled")
  \/ ServerMoves(c, "cancel_requested")

ServerGivesUp(c) ==
  MayGiveUp /\ (ServerMoves(c, "lost") \/ ServerMoves(c, "cancel_unconfirmed"))

-----------------------------------------------------------------------------
Loop ==
  \/ Connect \/ ResumeNothing \/ ResetStaging \/ PollIdle \/ LoopFails
  \/ \E c \in Claims : PollClaim(c) \/ PollLost(c)

Begin ==
  \/ PersistLegacy \/ PersistLegacyFails \/ RejectClaim
  \/ StartAcknowledged \/ StartConflict \/ StartAborts
  \/ PrepareContainer \/ PrepareFails \/ ReportUnprepared \/ ReportUnpreparedAborts

Execute ==
  \/ SetupFails \/ SetupHost \/ SetupContainer \/ SetupPartial
  \/ RecordStage \/ RecordStageFails
  \/ Launch \/ LaunchRefused
  \/ \E ok \in BOOLEAN : ExecutionEnds(ok)
  \/ ContainerUnremoved \/ SupervisorUnconfirmed \/ ScriptDirectoryRemains
  \/ Publish \/ PublishFails

Finish ==
  \/ CloseKeeps \/ CloseContainer \/ CloseContainerFails
  \/ CloseRecords \/ CloseRecordsFails \/ Purge \/ PurgeFails
  \/ \E flushed \in BOOLEAN : Settle(flushed)
  \/ Hold \/ ReportUnconfirmed \/ ReportUnconfirmedAborts \/ SaveUnconfirmed
  \/ SaveOutcome \/ SaveOutcomeFails

Resume ==
  \/ ResumePurge \/ ResumeRootsBlocked \/ ReportTerminal \/ ConfirmCancellation
  \/ ConfirmAborts \/ ResumeCleanup \/ ResumeRuntimeBlocked \/ ReportCleanup \/ ResumeAborts
  \/ SwapCancellation \/ Acknowledge \/ ResumeAcknowledged \/ Retire

Agent == Loop \/ Begin \/ Execute \/ Finish \/ Resume

Environment ==
  \/ Crash \/ Terminate \/ Reconfigure \/ ScriptMovesWorkspace
  \/ OperatorRestoresWorkspace \/ AnswerLost
  \/ \E c \in Claims : ServerReclaims(c) \/ ServerCancels(c) \/ ServerGivesUp(c)

Next == Restart \/ Agent \/ Heartbeat \/ Environment

Spec == Init /\ [][Next]_vars

\* The service manager restarts the agent, and the agent keeps going: every
\* step is bounded by a timeout, and faults are bounded by MaxFaults.
FairSpec == Spec /\ WF_vars(Restart) /\ WF_vars(Agent) /\ WF_vars(Heartbeat)

-----------------------------------------------------------------------------
(* Types.                                                                  *)

PCs == {"down", "init", "resume", "reset", "poll", "claim", "start", "prepare",
        "prepared", "setup", "record", "launch", "running", "publish", "close",
        "purge", "settle", "hold", "unconfirmed", "unconfirmedAck", "outcome",
        "confirm", "swap", "ack", "report", "retire"}

Endpoints == Runtimes \cup {NoRuntime}
Roots     == {"none", "inside", "moved", "invalid"}
Outcomes  == Results \cup {"none"}

Markers ==
  [kind : {"none", "legacy", "cleanup", "terminal"}, claim : Claims \cup {NoClaim},
   tok : Nat, result : Outcomes, acked : BOOLEAN, runtime : Endpoints, roots : Roots]

\* Every variable holds a value of its kind; a claim is known whenever the
\* agent is inside executeClaim.
TypeOK ==
  /\ pc \in PCs
  /\ cur \in Claims \cup {NoClaim} /\ tok \in Nat
  /\ kind \in [Claims -> KindSet] /\ runtime \in Endpoints
  /\ stage \in {"none", "host", "container"} /\ roots \in Roots
  /\ errs \subseteq {"plain", "cleanup", "hostproc"}
  /\ outcome \in Outcomes /\ hb \in {"off", "on", "cancel", "failed"}
  /\ fresh \in BOOLEAN /\ term \in BOOLEAN
  /\ marker \in Markers
  /\ staging \in {"empty", "inside", "moved"}
  /\ procs \subseteq Claims /\ scripts \subseteq Claims
  /\ containers \subseteq Claims \X Endpoints
  /\ disp \in [Claims -> DispatchStates] /\ epoch \in [Claims -> Nat]
  /\ published \subseteq Claims
  /\ executed \in [Claims -> Nat] /\ ran \in [Claims -> {"no", "ok", "failed"}]
  /\ faults \in Nat

-----------------------------------------------------------------------------
(* Safety.                                                                 *)

\* Started work is never executed again: not after a crash, a lost answer, a
\* repeated hand-out of the same deployment, or a report that was refused.
AtMostOneExecution == \A c \in Claims : executed[c] <= 1

\* When the agent asks for the next claim nothing of an earlier one is left: no
\* staged data, even moved out of its directory, no supervised process, no
\* container, no script directory.
CleanBeforePoll ==
  pc = "poll" => staging = "empty" /\ procs = {} /\ containers = {} /\ scripts = {}

\* Whatever a crash may leave running is already named on disk: a container by
\* a cleanup report for its runtime, supervised host work by a failed outcome
\* that still carries the identities to purge.
WorkIsRecorded ==
  /\ \A x \in containers :
       marker.kind = "cleanup" /\ marker.claim = x[1] /\ marker.runtime = x[2]
  /\ \A c \in procs :
       /\ marker.kind = "terminal" /\ marker.claim = c
       /\ marker.result = "failed" /\ marker.roots # "none"

\* The server holds a success only for a deployment whose every step ended
\* well and whose output, if it is staged, the server also holds.
TruthfulSuccess ==
  \A c \in Claims :
    disp[c] = "succeeded" => ran[c] = "ok" /\ (Staged(c) => c \in published)

\* A plain outcome of an executed deployment reaches the server only when its
\* supervised processes, containers and staged data are gone; otherwise the server is told
\* cleanup_unconfirmed or nothing.
OutcomeAfterCleanup ==
  [][\A c \in Claims :
       /\ executed[c] > 0 /\ disp'[c] # disp[c]
       /\ disp'[c] \in {"succeeded", "failed", "cancelled"}
       => c \notin procs' /\ staging' = "empty" /\ \A x \in containers' : x[1] # c]_vars

\* The recovery report of an executed deployment leaves the disk, removed or
\* overwritten by another claim's, only after the server recorded that outcome.
RetireOnlyDelivered ==
  [][marker.kind \in {"terminal", "cleanup"} /\ executed[marker.claim] > 0
       /\ (marker'.claim # marker.claim \/ marker'.kind \notin {"terminal", "cleanup"})
       => disp[marker.claim] = marker.result]_vars

\* Once an outcome is saved for delivery only a cancellation the server asked
\* for replaces it: a retry, a restart or a refusal never rewrites history.
SavedOutcomeStands ==
  [][marker.kind = "terminal" /\ marker.roots = "none"
       /\ marker'.kind = "terminal" /\ marker'.claim = marker.claim
       /\ marker'.result # marker.result
       => /\ marker'.result = "cancelled"
          /\ disp[marker.claim] \in {"cancel_requested", "cancelled", "cancel_unconfirmed",
                                     "lost"}]_vars

-----------------------------------------------------------------------------
(* The abstract deployment this agent and its server implement.            *)

Deployment == INSTANCE DeploymentOutcome WITH
  Outcomes <- Final,
  GivenUp  <- {"lost", "cancel_unconfirmed"},
  started  <- {c \in Claims : executed[c] > 0},
  outcome  <- [c \in Claims |-> IF disp[c] \in Final THEN disp[c] ELSE "none"]

\* Every step of agent, server and environment is a step of the promise made
\* for each deployment, or invisible to it.
ImplementsDeployment == Deployment!Spec

-----------------------------------------------------------------------------
(* The inductive invariant behind AtMostOneExecution, TruthfulSuccess and  *)
(* ImplementsDeployment: what the agent knows at each point of             *)
(* executeClaim about the deployment it holds.                             *)

Accepted   == {"prepare", "setup", "record", "launch"}
Unlaunched == Accepted \cup {"claim", "start", "prepared"}
Occupied   == Unlaunched \cup {"running", "publish", "close", "purge", "settle", "hold",
                             "unconfirmed", "unconfirmedAck", "outcome"}
Live       == {"started", "cancel_requested", "lost", "cancel_unconfirmed"}

\* The facts a reported success rests on.
Justified(c) == executed[c] > 0 /\ ran[c] = "ok" /\ (Staged(c) => c \in published)

HoldsClaim == pc \in Occupied => cur \in Claims
HoldsStage ==
  /\ pc \in {"down", "init", "reset", "poll"} => cur = NoClaim
  /\ cur = NoClaim \/ pc \in {"claim", "start", "prepare", "prepared", "setup"}
       => stage = "none"
  /\ pc \in {"record", "publish", "close"} => stage # "none"
  /\ pc \in {"launch", "running"} /\ Staged(cur) => stage # "none"
  /\ pc \in {"record", "launch", "running", "publish", "close"} /\ stage # "none"
       => staging # "empty"
HoldsReport ==
  /\ marker.kind \in {"terminal", "cleanup"}
       => marker.claim \in Claims /\ marker.result \in Results
  /\ pc = "outcome" => outcome # "none"
  /\ pc \in {"report", "confirm", "swap", "ack", "retire"}
       => marker.kind \in {"terminal", "cleanup"}
NotYetRun ==
  /\ pc \in Unlaunched => executed[cur] = 0
  /\ pc = "running" => executed[cur] > 0
  /\ pc \in Unlaunched \cup {"running"} => ran[cur] = "no"
  /\ \A c \in Claims : executed[c] = 0 => ran[c] = "no"
StartIsFinal ==
  /\ pc \in Accepted => disp[cur] \in Live
  /\ \A c \in Claims : executed[c] > 0 => disp[c] \notin {"waiting", "claimed"}
SuccessIsJustified ==
  /\ pc = "publish" => executed[cur] > 0 /\ ran[cur] = "ok"
  /\ pc \in {"close", "purge", "settle"} /\ errs = {} => Justified(cur)
  /\ pc = "outcome" /\ outcome = "succeeded" => Justified(cur)
  /\ pc \in {"prepared", "unconfirmed"} => outcome \in {"failed", "cleanup_unconfirmed"}
  /\ marker.result = "succeeded" => marker.claim \in Claims /\ Justified(marker.claim)
  /\ \A c \in Claims : disp[c] = "succeeded" => Justified(c)

ExecutionInv ==
  /\ TypeOK /\ HoldsClaim /\ HoldsStage /\ HoldsReport
  /\ NotYetRun /\ StartIsFinal /\ SuccessIsJustified /\ AtMostOneExecution

-----------------------------------------------------------------------------
(* The inductive invariant behind CleanBeforePoll and WorkIsRecorded: what  *)
(* may be left on the host at each point, and what the marker says of it.  *)

Recovering == {"confirm", "swap", "ack", "report", "retire"}

\* Containers belong to the claim that is executed, under its cleanup report.
ContainersAreHeld ==
  /\ \A x \in containers :
       marker.kind = "cleanup" /\ marker.claim = x[1] /\ marker.runtime = x[2]
  /\ pc \in Occupied => containers \subseteq {<<cur, runtime>>}
  /\ containers # {} =>
       pc \in {"down", "init", "resume", "launch", "running", "publish", "close", "settle",
               "unconfirmed", "unconfirmedAck"}
  /\ pc = "settle" /\ "cleanup" \notin errs => containers = {}
  /\ pc \in Occupied /\ stage = "host" => containers = {}
  /\ pc \in {"record", "launch", "running", "publish"} /\ stage = "host" => ~InContainer(cur)
  /\ pc \in Occupied /\ stage = "container" => InContainer(cur)
  /\ pc = "launch" /\ stage = "none" => containers = {}
  /\ pc \in {"setup", "launch", "running"} /\ InContainer(cur) =>
       marker.kind = "cleanup" /\ marker.claim = cur /\ marker.runtime = runtime

\* Supervised processes belong to a stage whose identities are recorded; when
\* their end is unconfirmed, the agent is on its way to be restarted.
ProcessesAreHeld ==
  /\ \A c \in procs :
       /\ marker.kind = "terminal" /\ marker.claim = c
       /\ marker.result = "failed" /\ marker.roots # "none"
  /\ procs # {} =>
       /\ pc \in {"down", "running", "close", "settle", "hold"}
       /\ pc # "down" => procs = {cur} /\ stage = "host"
       /\ pc \in {"close", "settle", "hold"} => "hostproc" \in errs
  /\ scripts # {} /\ pc # "down" =>
       pc \in {"close", "settle", "hold", "unconfirmed", "unconfirmedAck"} /\ "hostproc" \in errs
  /\ pc \in {"launch", "running"} /\ stage = "host" =>
       /\ marker.kind = "terminal" /\ marker.claim = cur
       /\ marker.result = "failed" /\ marker.roots # "none"
  /\ "hostproc" \in errs => "cleanup" \in errs
  /\ pc \in {"purge", "settle", "hold"} /\ stage = "host" => roots # "none"
  /\ pc \in {"record", "hold"} => stage = "host"
  /\ pc \in {"unconfirmed", "unconfirmedAck"} => stage # "host"

\* Staged data is this claim's, or recorded, or removed by the reset that a new
\* client begins with.
StagingIsHeld ==
  /\ staging = "moved" =>
       /\ marker.kind = "terminal" /\ marker.roots # "none"
       /\ pc \in Occupied => stage = "host"
  /\ pc \in Recovering /\ marker.kind = "terminal" => marker.roots = "none"
  /\ pc \in {"reset", "poll"} => marker.kind \in {"none", "legacy"}
  /\ pc \in Occupied \cup {"poll"} => ~fresh
  /\ pc \in {"poll", "outcome"} \cup (Unlaunched \ {"record", "launch"}) => staging = "empty"
  /\ pc \in Recovering \cup {"resume"} /\ ~fresh => staging = "empty"
  /\ pc \in {"launch", "running"} /\ stage = "none" => staging = "empty"
  /\ pc = "settle" /\ "cleanup" \notin errs => staging = "empty"

RemainsInv == ContainersAreHeld /\ ProcessesAreHeld /\ StagingIsHeld

-----------------------------------------------------------------------------
(* The inductive invariant behind OutcomeAfterCleanup, RetireOnlyDelivered  *)
(* and SavedOutcomeStands: whose report the marker holds, and how far it    *)
(* has been delivered.                                                      *)

Reports == {"terminal", "cleanup"}

\* A claim in execution has no report but its own, and one that is ready to be
\* delivered leaves nothing on the host.
ReportsAreOwn ==
  /\ pc \in Occupied /\ marker.kind \in Reports => marker.claim = cur
  /\ pc \in Occupied /\ marker.kind = "terminal" => marker.roots # "none"
  /\ pc \in {"claim", "start", "prepare"} => marker.kind \notin Reports
  /\ pc \in {"prepared", "setup", "record"} => marker.kind # "terminal"
  /\ pc \in {"confirm", "swap"} => marker.kind = "terminal"
  /\ pc = "report" => marker.kind = "cleanup"
  /\ marker.kind = "cleanup" => marker.result = "cleanup_unconfirmed"
  /\ Deliverable => staging = "empty"

\* A report counts as delivered only when the server holds its result.
ReportsAreDelivered ==
  /\ marker.kind \in Reports /\ (marker.acked \/ pc \in {"ack", "retire"}) =>
       disp[marker.claim] = marker.result
  /\ pc = "unconfirmed" => outcome = "cleanup_unconfirmed"
  /\ pc = "unconfirmedAck" => disp[cur] = "cleanup_unconfirmed"
  /\ pc = "swap" => disp[marker.claim] \in {"cancel_requested", "cancelled",
                                           "cancel_unconfirmed", "lost"}

DeliveryInv == ReportsAreOwn /\ ReportsAreDelivered

-----------------------------------------------------------------------------
(* Liveness.                                                               *)

\* What stops recovery for good until an operator acts: a runtime other than
\* the one recorded, an identity that cannot be replayed, or a server that has
\* settled the deployment otherwise and refuses the saved report.
Held ==
  \/ marker.kind = "cleanup" /\ marker.runtime # runtime
  \/ marker.kind = "terminal" /\ marker.roots # "none" /\ ~RootsReplayable
  \/ /\ marker.kind \in {"terminal", "cleanup"} /\ ~marker.acked
     /\ disp[marker.claim] \in Final \ {marker.result}

\* The server took a report before a crash, a lost answer or a failed write kept
\* that from the marker, and refuses to take it twice (Complete, state.go).
RefusedAgain ==
  /\ marker.kind \in {"terminal", "cleanup"} /\ ~marker.acked
  /\ disp[marker.claim] = marker.result
  /\ (ReportTerminal \/ ReportCleanup) /\ pc' # "ack"

\* An agent whose service is kept running polls again and again, unless it is
\* held or the server keeps refusing a report it has: no failure leaves it
\* spinning over a claim it could finish, or silent about one it could report.
EventuallyPolls == []<>(pc = "poll") \/ <>[]Held \/ []<><<RefusedAgain>>_vars

\* A saved outcome reaches the server, or recovery is held.
OutcomeDelivered ==
  \A c \in Claims :
    (marker.kind \in {"terminal", "cleanup"} /\ marker.claim = c /\ executed[c] > 0)
      ~> (disp[c] \in Final \/ Held)

\* A cancellation requested for work in a stage or a container is answered.
CancellationAnswered ==
  \A c \in Claims :
    (disp[c] = "cancel_requested" /\ executed[c] > 0 /\ (Staged(c) \/ InContainer(c)))
      ~> (disp[c] \in Final \/ Held)
=============================================================================
