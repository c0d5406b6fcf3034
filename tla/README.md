# A verification project for durpdeploy-agent

TLA+ models of the deployment agent: what it does with a claimed deployment,
what it keeps on disk while it does it, how it recovers, how it is paired with a
control plane and how it follows the server's certificate. TLC checks the models
on small instances; TLAPS proves the safety properties, and three refinements, for
all values of the constants, but for two restrictions that section 5 names. Liveness
is checked by TLC.

Paths below are relative to the repository root.

## 1. The system and its parts

| Part | State it keeps | Operations | Model |
| --- | --- | --- | --- |
| Dispatch contract, `protocol/state.go` | the state of a deployment at the server | `CanTransition`, `Transition`, `Complete`, `Reclaim` | `Dispatch` |
| Poll loop, `cmd/agent/main.go` | client, `stagingReady` | `run`, `runConfiguredClient`, `runPaired` | `ClaimLifecycle` |
| Claim execution, `cmd/agent/claim_execution.go` | the claim, joined error, heartbeat goroutine, staging | `executeClaim` | `ClaimLifecycle` |
| Claim marker and recovery, `claim_storage.go`, `terminal_recovery.go`, `staging_recovery.go` | `claim.json` | `persistClaim`, `persistTerminalResult`, `persistHostStagingCleanup`, `resumeCleanupResult`, `clearClaim` | `ClaimLifecycle` |
| Managed staging, `cmd/agent/staging*.go`, `internal/staging/` | job data and handles on it | create, record identities, restore, publish, purge | `ClaimLifecycle` (presence, place and identity), `StagingExchange` (contents) |
| Containers, `executor/container_*.go` | containers and volumes with the agent's label, `stages`, `cleanupErr` | `Ready`, `runAttempt`, `NewStage`, `NewArtifactStage`, `Export`, `Close` | `ContainerRuntime`; what is left where in `ClaimLifecycle` |
| Host execution, `executor/executor.go`, `host_supervisor*.go` | processes, two pipes, private script directory | `runAttempt`, `confirm`, `superviseHost` | `HostSupervisor`; what is left in `ClaimLifecycle` |
| Steps and retries, `executor/execution.go`, `job_execution.go` | attempt counter | `ExecuteSteps`, `executeAttempts` | `StepOutput`, `ContainerRuntime`; one execution in `ClaimLifecycle` |
| Redacting writer, `executor/redacting_writer.go` | line buffer, final error | `Write`, `flush`, `write` | `StepOutput` |
| HTTP client, `internal/agentclient/` | pins, protocol version | requests, staging transfers, retry, back-off | requests in `ClaimLifecycle`, transfers in `StagingExchange`, pins in `PinRotation` |
| Log sender, `cmd/agent/log_sender.go` | pending events, next sequence number | `Write`, `Flush` | `StepOutput` |
| Pairing, `bootstrap/`, `protocol/pairing.go`, `cmd/agent/bootstrap.go` | session, listener, expiry goroutine | `Start`, `serverInit`, `Expire`, `Shutdown`, `runBootstrap` | `Bootstrap` |
| State file and identity, `state/`, `transport/identity.go`, `load.go` | `state.json`, key, certificate | `Save`, `Load`, `LoadOrCreate` | `Bootstrap`, `PinRotation` |
| Pin rotation, `internal/agentclient/pins.go`, `transport/verify.go` | one or two pins | `stagePins`, `promotePin`, `PromotePendingPin` | `PinRotation` |
| Redaction, ZIP packages, payload envelope, wire validation, configuration, CI | none beyond a call | pure functions | not modelled (section 8) |

How they interact. One process holds the state lease and executes one claim at a
time. Between polls it reads the claim marker and first finishes what the marker
says is owed. While a claim executes, a heartbeat goroutine reports to the
server and cancels the execution context; both goroutines share the HTTP client
and thereby its pins. The marker is the only thing a later process knows of an
earlier one, apart from what is still lying around: staged data, containers,
processes. The server is reached by requests whose answers may be lost, and is
bound by the dispatch contract. A paired agent never listens; an unpaired one
only does.

What is hard here: a crash between any two of {marker write, request, side
effect}; a write that fails *after* its rename; a request served whose answer is
lost; a cancellation, reclaim or "lost" verdict that passes the agent's report on
the way; data that a script moved; a runtime that was reconfigured between two
processes; two control planes with one code; an answer acted on after another
goroutine changed what it was about; output copied by two goroutines; a container
that the engine starts after its client was killed; a tmpfs that lives only as long
as somebody mounts it; a process tree that forks while it is being killed; an
archive whose entries come in any order. `PROJECT.json` lists each at its line under
`hazards`, with the properties that cover it.

What makes each part correct:

* claim lifecycle - a deployment runs at most once; success is truthful; nothing
  of an earlier claim is left when the next is asked for; what may be left by a
  crash is named on disk first; a report is kept until the server has it and is
  not rewritten; the agent gets back to polling;
* pairing - a confirmed server is the one on disk, and is never refused; the
  listener ends as paired only when that server knows; it does end;
* step output - the server gets the whole output once and in order, and no script
  runs again after its log was lost;
* container runtime - an attempt that returns without `ErrContainerCleanup` left
  nothing that runs or will run; after that error no script starts before a `Ready`
  that found nothing; a registered stage holds its whole input; the executor
  recovers;
* host supervisor - an attempt that returns without `ErrHostProcessCleanup` left no
  process; every attempt ends; no tree outlives its agent;
* staging - what validates can be restored in full; what a step left is published in
  full, and refused only for what the policy forbids;
* pin rotation - the pin in use is never dropped; a rotation replaces the older
  pin by the newer; an announcement is eventually pinned.

## 2. Modules

| Module | What it is |
| --- | --- |
| `Dispatch` | the transition relation and the functions of `protocol/state.go`, as operators |
| `ClaimLifecycle` | agent process, disk, staging, containers, server and environment around one claim at a time; EXTENDS `Dispatch` |
| `DeploymentOutcome` | abstract specification: work starts at most once, one outcome is recorded for good, success only of work that started |
| `ClaimLifecycleProofs` | the inductive invariant of an execution, its corollaries, and that `ClaimLifecycle` implements `DeploymentOutcome` |
| `ClaimCleanupProofs` | the inductive invariants of what is left on the host and of saved reports, and their corollaries; EXTENDS `ClaimLifecycleProofs` |
| `DocumentedContract` | a statement of the protocol document that the code does not keep |
| `CleanupContract` | abstract specification of both executors: a nil error means that nothing is left running |
| `ContainerRuntime`, `ContainerRuntimeProofs` | `ContainerExecutor` and the engine it commands; implements `CleanupContract`, which is proved, as is what becomes of a stage |
| `HostSupervisor`, `HostSupervisorProofs` | host attempt, supervisor process and process tree; implements `CleanupContract`; its invariant and the refinement proved |
| `StagingExchange`, `StagingExchangeProofs` | download, validation, restoring, packing and upload of a claim's files, and the invariant that its two properties follow from |
| `Bootstrap`, `BootstrapProofs` | pairing, and its invariants |
| `PinRotation`, `PinRotationProofs` | pins of the server certificate, and their invariant |
| `StepOutput`, `StepOutputProofs` | steps, attempts, redacting writer and log sender, and their invariants |
| `MCClaimLifecycle`, `MCBootstrap`, `MCPinRotation`, `MCStepOutput`, `MCStagingExchange` | values of constants that a `.cfg` cannot express |

### ClaimLifecycle and the code

`pc` is a position of the main goroutine. Steps are as large as the code's
observable effects allow: a step ends where a file is written, a request served,
or a process, container or staged directory changes.

| `pc` | Code | Actions |
| --- | --- | --- |
| `down` | no process | `Restart`, `Reconfigure`, `OperatorRestoresWorkspace` |
| `init` | `NewPaired`, `EnableContainers` | `Connect` |
| `resume`, `report`, `confirm`, `swap`, `ack`, `retire` | `resumeCleanupResult`, `reportCompletedClaim` | `ResumePurge`, `ReportTerminal`, `ConfirmCancellation`, `SwapCancellation`, `ResumeCleanup`, `ReportCleanup`, `Acknowledge`, `Retire`, ... |
| `reset`, `poll` | `runPaired` | `ResetStaging`, `PollIdle`, `PollClaim`, `PollLost`, `LoopFails` |
| `claim`, `start`, `prepare`, `prepared` | `executeClaim` up to the acknowledged start, `prepareContainerClaim` | `PersistLegacy`, `RejectClaim`, `StartAcknowledged`, `StartConflict`, `PrepareContainer`, `PrepareFails`, ... |
| `setup`, `record`, `launch`, `running`, `publish` | staging, `persistHostStagingCleanup`, `ExecuteSteps`, `publish` | `SetupHost`, `SetupContainer`, `RecordStage`, `Launch`, `ExecutionEnds`, `ContainerUnremoved`, `SupervisorUnconfirmed`, `Publish`, ... |
| `close`, `purge` | `jobStaging.close` | `CloseContainer`, `CloseRecords`, `Purge`, `CloseKeeps`, ... and their failures |
| `settle` | the joined heartbeat goroutine, the last flush, the choice of the outcome | `Settle` |
| `hold`, `unconfirmed`, `unconfirmedAck`, `outcome` | the tail of `executeClaim` | `Hold`, `ReportUnconfirmed`, `SaveUnconfirmed`, `SaveOutcome`, ... |

The marker file has four kinds: none; *legacy* (a claim is known, nothing is
owed), *cleanup* (containers in a named runtime are owed a cleanup, and the
server the report `cleanup_unconfirmed`), *terminal* (a result to deliver; if
`roots` is not `none`, staged data has to be purged first). `executeClaim`
resumes from its own marker at the end, so the same actions serve recovery and
the ordinary path.

Abstractions, each by what the properties can tell apart:

* All host processes of a claim are one member of `procs`, all containers and
  volumes of a claim in one runtime one member of `containers`, the staged data
  of the one active claim the single value `staging`. A purge of several
  recorded roots is one step that may fail, with the marker unchanged.
* A deployment's `kind` is host or container, staged or not. A payload with both
  host and container steps counts as container; its host steps appear where they
  can leave something of their own (`ScriptDirectoryRemains`). `procs` has the
  supervised processes, which exist in staged host jobs only; of a background
  process that an unstaged script leaves behind the code promises nothing, and
  the model says nothing.
* The client's bounded retry is `AnswerLost` followed by the same request again.
  Answers other than success and conflict are the `...Aborts` actions.
* `DecodePayload`, capability and readiness checks are one choice, `RejectClaim`.
* The claim token is the number of the hand-out (`epoch`), so a stale token is
  one that is not the live number.

The server's side (`HandOut`, `Serve`, `ServerMoves` ...) is outside the
repository; it is modelled from the contract in `protocol/` that it shares
with the agent: it makes every move `CanTransition` allows and refuses others.
What it answers to a *repeated* request is the constant `ReplayAnswers`: success, or
a conflict. For a result `protocol/state.go` settles it - `Complete` "applies a terminal
result exactly once" and returns `ErrDuplicateResult` for a second - but not how the
server tells the agent; for a repeated start or cancellation nothing settles it. Both
passing runs therefore let the server choose between the two answers each time.

### Bootstrap and the code

`pc` is the main goroutine (`run`, `runBootstrap`), `status` and `trust` the
`PairingSession`, `expiry` the expiry goroutine, `open` and `acked` the channels
`done` and `paired`. A request is read (`Arrive`: the clock is read before the
session's mutex is taken), decided under the mutex together with `Save`
(`Replay`, `Refuse`, `RefuseLate`, `Commit`, `SaveFails`) and answered, and each
of the three may interleave with everything else. `Commit` is one step because
the mutex is held over `Save`; a crash inside it is a crash before it, or after
it with a lost answer. The hook `AfterPairCommit` is used by tests only.
`Drained` waits for handlers still running: the deferred shutdown and the
reconnect delay give them a second each, and a handler does one bounded write.

### PinRotation and the code

`mem` and `disk` are the pins of the client and of `state.json`. A request is
sent over a pooled connection or a new one (whose certificate is compared with
`mem`), answered with the pins of that moment, and only then acted on under the
client's mutex: once to promote (every request), once to stage (the heartbeat).
Two goroutines send: the one of `executeClaim` (logs share it through the log
sender's mutex) and the heartbeat. The server switches only when the pin it
announced is staged in memory and on disk, which is the protocol's promise to
wait for the agent; whether old connections survive a switch is `KeepsOld`.

### StepOutput and the code

The inside of the one step that `ExecutionEnds` is in `ClaimLifecycle`. `pc` is the
main goroutine in `ExecuteSteps`, `executeAttempts` and `runAttempt`: `check` before
an attempt, `announce` its first line, `run` the process and `Wait`, `flush` the rest
of the buffer and the lines about a failure, `verdict` and `retry` in
`executeAttempts`, `finish` the last flush of `executeClaim`. `Streams` are the
goroutines os/exec copies output with: one for a container, whose command has the
same writer for both streams, two for a host process, whose `MultiWriter`s are
two values. Each alternates between reading a piece into the buffer (`Read`),
taking its text (`Take`), logging its lines (`Deliver`) and `Reset`; no lock makes
these one step. `Deliver` is one step because `logSender.Write` holds its mutex over
an upload. An upload fails by a fault, or always once the context is done, and may
have been stored (`DeliverFails`); the batch is then kept or not as in the code. The
server takes no batch of more than `MaxEvents` events (`Refused`), though: one that has
outgrown the limit is never stored.

Output is a sequence of pieces that end a line or do not; scrubbing does not
matter here. That a batch reaches its byte limit is a choice in every state with
a pending event; the 100 events of a full batch are `MaxEvents`. Two goroutines in
one `bytes.Buffer` operation are a data race: of its outcomes the model has the
interleavings of whole operations and the panic when a `Reset` falls inside a
`Write`. The order of the last lines differs between host and container
(`Epilogues`). An attempt whose container could not be removed still writes the rest of
its output and the line about it (`unclean`); then the steps end.

What is stored of a stream is read off the log by places: a place is a number and a
position in the line of that number (`PiecesOf`, `Before`). `LinesAreOrdered` compares
places with the order of printing, `OutputIsComplete` the set of stored pieces with the
set of printed ones.

### CleanupContract and the two executors

`ClaimLifecycle` decides what to report, and whether to poll, by what
`ErrContainerCleanup` and `ErrHostProcessCleanup` say. `CleanupContract` is what
these words promise: an executor is clean, busy with a script or dirty; scripts
start only when it is clean, and clean means that none is there. `ContainerRuntime`
and `HostSupervisor` implement it, each with its own notion of a script being there:
a running container of an attempt, a process that has not exited.

### ContainerRuntime and the code

`pc` is the position of the one goroutine that uses the executor: `ready`,
`reconcile` and `verify` in `Ready`; `create`, `receive`, `import`, `hold` and
`handover` in `newStage`; `attempt`, `running`, `remove` and `verdict` in `runAttempt`
and the retry loop around it; `export`; `close`, `closeImporter`, `closeKeeper` and
`closeVolume` in `Close`. Every method holds the executor's mutex, and claims execute
serially, so there is no second position; what runs beside it is the engine.

A command is a client process. When it fails or its deadline kills it, the engine
may have done all, a part or none of it, or may do it later (`RunFails`, `pending`,
`late`): "a killed client does not prove a killed container". `remove` is an `rm`
whose outcome does not matter (`Ask`), followed by a list that decides (`Confirmed`,
`Unconfirmed`). `Ready` calls it with IDs where the others pass names, and the list
filters by name, so there it shows nothing and confirms nothing (`ReadyRemoved`); what
decides in `Ready` is its last list of owned containers (`ReadyVerified`). A tmpfs volume has contents only while a running container mounts
it (`Mounted`). `rm` of a container whose start is still under way makes that start
fail; the creation of a container whose name the engine has not heard of yet cannot
be stopped, and happens in the stopped state: starting is a second request, and the
client that would send it is dead. Podman's and Docker's clients are both of this
kind. Checks that only read - socket, `info`, PID limit, image - are one refusal.

### HostSupervisor and the code

`agent` is `runAttempt` of a staged host job, `sup` the position of the supervisor
process in `superviseHost`, `waitHostChildren` and `killHostChildren`, and `proc` and
`parent` the process tree as the kernel has it. A script's processes fork, exit and
collect each other as they like; an orphan goes to the supervisor, because it is a
subreaper, or to init. `Lists` takes the list of `/proc`; `Visit` reads and kills one
process of it, and anything may happen between two visits. The report pipe is at its
end when neither supervisor nor agent hold its writing end (`ack`); the control pipe
when the agent has closed it or is dead (`cancelled`). A PID is free again once its
process has been waited for. The deadline of the supervisor, a failed read and a
signal nobody can catch are one action, `Fails`; `WaitDelay` is the agent's SIGKILL.
`ServiceKills` is the unit's `KillMode=control-group`.

### StagingExchange and the code

`pc` follows one claim: `download`, `validate` (`UnpackWithPolicy` with no directory),
`restore` (the same code into the workspace), `run`, `pack`, `verify` (the same code on
the output), `upload`. A container's claim skips `restore` and `pack`: its archive goes
to, and comes from, a tar in a container, which may write anything. An entry has a
path (a sequence of names), a kind and a size; `seen` and `declared` are the maps of
the code, with implied parents in the first only. The properties compare this
entry-by-entry reading with one that has no order (`Admissible`, `Denoted`); sums of sizes
are counted byte by byte (`Payload`). A header
takes one unit and the end two, so that a tree at the limit of entries and payload
can be at, or over, the limit of the archive; headers that need extensions for long
names are not modelled.

## 3. Runs

States are distinct states found.

| Run | Question and bounds | States |
| --- | --- | --- |
| `one_claim` | Fair. One deployment, handed out twice (`MaxTokens = 2`), every kind of payload, two runtimes and none, three faults, a server that gives up on claims and answers each repeated request with success or with a conflict. Safety, the abstract specification, and liveness. | 154,354 |
| `two_claims` | Two deployments share the marker and the staging directory; only the kinds that leave something behind; two faults; a server that may refuse repeated requests; symmetric in the claims. Interference between a claim and the debts of an earlier one, as the invariants `RemainsInv` and `DeliveryInv`. | 226,223 |
| `pairing` | Fair. Two control planes with one code, two faults. Safety and liveness. | 15,244 |
| `rotation` | Fair. Three rotations (`MaxCert = 3`), two faults, connections closed at a switch. | 4,313 |
| `container_output` | Two steps of up to two attempts, two pieces of output in all, batches of two events, two faults. | 212,021 |
| `container_runtime` | Fair. Three names of attempts and two of volumes, each usable again once the engine has forgotten it, so that executions are not bounded; two faults. | 64,062 |
| `host_supervisor` | Fair. Three PIDs, usable again, so that neither forks nor attempts are bounded. | 63,376 |
| `staging_exchange` | Foreign archives of up to three entries over four nested names, an invalid one and `.`; two sizes of files; limits of three entries, two bytes of payload and six of archive; two faults. | 515,429 |
| `host_only_cleanup`, `pairing_expiry`, `rotation_stale`, `host_lines` | expected violations, section 6 | |

Why the bounds are enough. A *fault* is a crash, a failed write, a lost answer, a
signal, an unconfirmed cleanup or a reconfiguration; recovery reads one marker
and has no memory beyond it, so what matters is a fault, another during the
recovery from it, and a third that changes the ground under it (a reconfigured
runtime). Two hand-outs give a stale token and a live one. Two deployments give
an owner of a debt and one that could overwrite it. Two runtimes give the
recorded and a wrong one. Three certificates give a rotation that starts before
the previous one is forgotten. Batches of two events overflow with every second
line, and two pieces of output make one line, two lines, or an unterminated one.
Two volumes are a stage and a package; three attempts are one whose container comes
late, one that meets it, and one after the recovery. Three processes are an
interpreter, a child, and a grandchild that is adopted while the child dies; `HostInv`
is proved for any number. Four nested names give a file and a directory of one name,
implied parents at two levels and a name beside them; the limits are such that each
can be the first that is exceeded.
The bounds bound nothing in the proofs, which hold for every value of them.

What the properties say:

* `AtMostOneExecution` - no deployment's work is launched twice.
* `CleanBeforePoll` - the next claim is asked for only with nothing left of an
  earlier one: no data (also not data moved away), process, container, script.
* `WorkIsRecorded` - whatever a crash now would leave is named on disk, with what
  is needed to find it.
* `TruthfulSuccess` - success at the server means every step ended well and the
  output is stored.
* `OutcomeAfterCleanup` - a plain outcome arrives only when everything is gone.
* `RetireOnlyDelivered` - a report leaves the disk only when the server has that
  very outcome.
* `SavedOutcomeStands` - a saved outcome changes only to a cancellation the server
  asked for.
* `ImplementsDeployment` - the abstract promise holds of every behaviour.
* `EventuallyPolls` - the agent polls again and again, except when it stays `Held` or
  the server keeps refusing a report it already has (`RefusedAgain`, below).
* `OutcomeDelivered`, `CancellationAnswered` - a saved outcome, or the answer to a
  cancellation, reaches the server, except while `Held`.
* `RemainsInv`, `DeliveryInv` - at every position of the agent: what may be left on
  the host and what the marker says of it; whose report the marker holds and how far
  the server has it.
* `ConfirmedIsDurable`, `CompletionIsConfirmed`, `ConfirmedNeverRefused`,
  `CompletionReached`, `AnswerInv` - pairing.
* `LogIsSequence`, `NothingAcceptedIsLost` - the log at the server has no gap, one
  line for a number, and every numbered line after a successful last flush.
* `LinesAreOrdered`, `OutputIsComplete` - a stream's output is stored in order; all
  of it, once, when the execution ends without an error (containers).
* `NoRepeatAfterLogFailure` - no process starts after an upload has failed.
* `StagesKeepInput` - a registered stage has its whole input while its helpers live,
  and the one that could write a package is gone before a script mounts it.
* `ExportDescends` - what is exported is the data of the tmpfs that was imported into.
* `ImplementsCleanup` - each of the two executors keeps `CleanupContract`.
* `RuntimeRecovers` - after any failure the executor becomes clean again.
* `HostInv` - no process escapes the supervisor, and ECHILD, a report and a clean
  agent all mean that the tree is gone.
* `AttemptEnds` - every staged host attempt ends, whatever its processes do.
* `TreeDiesWithAgent` - without its agent a tree that stops growing dies, or its
  supervisor has failed (and the service manager kills the rest).
* `InputIsRestored`, `OutputIsPublished` - see StagingExchange. The one exception to
  the former is a regular file named `.`: `fs.ValidPath` accepts it, so the archive
  validates, and restoring it on the host fails.
* `Connectable`, `PromotionRemovesOldPin`, `AnnouncementIsStaged`, `PinsInv` - pins.

`Held` names what stops an agent until an operator acts, as the code intends: the
runtime recorded is not the one configured; a recorded identity cannot be
replayed; or the server has settled the deployment otherwise and refuses the
saved report for good. The last has no documented way out except removing the
marker by hand; the model keeps it as an exception so that the liveness
properties say precisely when the agent is *not* stuck.

`RefusedAgain` is the one other way out of `EventuallyPolls`, and not one the code
intends: the server has recorded the report, the marker does not say so, and the
repetition is refused (section 6). It is a step, not a state, so that the property still
fails for an agent that merely sits on such a report: only a server that refuses again
and again excuses it. `OutcomeDelivered` and `CancellationAnswered` need no such
exception, because the server has the outcome then.

Every property of a passing run has a mutant in `PROJECT.json`, a plausible
mistake in one mapped definition, under which that run finds it violated. The
mutated forms are the operators marked `Mutant` in the modules.

## 4. Fairness

* `ClaimLifecycle`: weak fairness of `Restart` (the unit has `Restart=`), of the
  agent's steps as a whole (every call has a deadline) and of the heartbeat (a
  ticker). Nothing is assumed of the server, of operators or of faults, except
  that faults are finitely many. In particular a cancellation need not come, and
  which of several possible steps is taken is not subject to fairness.
* `Bootstrap`: the agent's steps, the timer, the clock, and a control plane that
  goes on asking until it is answered - which is what the completion
  acknowledgement of the protocol asks of it.
* `PinRotation`: the goroutines of a claim keep sending and are answered. The
  server need not rotate.

* `ContainerRuntime`: weak fairness of the agent's steps as a whole; every command has a
  deadline. Nothing is assumed of the engine but that its faults are finitely many,
  and nothing of scripts: an attempt that does not end is interrupted.
* `HostSupervisor`: the supervisor and the agent go on, a process that was sent SIGKILL
  dies, an attempt has a timeout (`Cancel`), and what waits for a killed supervisor
  gets its end (`WaitDelay`). As in the code, `AttemptEnds` rests largely on the last:
  a supervisor that is held by what it supervises is killed by it. Nothing is assumed of scripts or of the service manager.

`Restart` clears processes and private scripts because the unit of `systemd/`
kills its control group and has a private `/tmp`; it does not clear containers,
which belong to the runtime's daemon, or staged data.

## 5. Proofs

`ClaimLifecycleProofs` proves `Spec => []ExecutionInv`. `AtMostOneExecution` is not
inductive: it needs that the claim held before the launch was never launched
(`NotYetRun`), and that needs that a deployment once launched is never handed out
again, i.e. is neither waiting nor claimed at the server (`StartIsFinal`), which in
turn rests on the start having been acknowledged under the live token and on the
contract having no edge back from a started state (`Reclaim` refuses).
`TruthfulSuccess` needs `SuccessIsJustified`: wherever a success can still be in
the making - an empty error at `close`, `purge` or `settle`, the outcome chosen, the
saved marker, the server - the execution ended well and the output is stored;
`HoldsStage` and `HoldsReport` say what exists at each position, so that the
case "no stage, hence nothing to publish" is that of an unstaged payload. The
proof goes action by action; lemmas give what the helpers guarantee (`Leave`,
`Serve`, the writes of the marker).
`TypeCorrect`, `ExecutesAtMostOnce` and `SuccessIsTruthful` are its corollaries.

`ClaimCleanupProofs` proves `Spec => []RemainsInv` and `Spec => []DeliveryInv`, both
inductive together with `ExecutionInv`. `CleanBeforePoll` is one line of the former and
rests on all of it: the loop reaches `poll` through a recovery that found no report
(`ResumeNothing`) and a reset of the staging directory by a new client, so it must be
known that a container implies a cleanup report for the configured runtime
(`ContainersAreHeld`), that a process implies a terminal report with identities, or that
the agent is about to be restarted by its service (`ProcessesAreHeld`), and that data
moved out of the directory implies such a report as well (`StagingIsHeld`).
`WorkIsRecorded` is a part of the same invariant. The three action properties need
`DeliveryInv`: a claim in execution finds no report but its own on disk, a report that
may be sent has nothing left behind it, and an acknowledged one is at the server
(`ReportsAreOwn`, `ReportsAreDelivered`); `ReportsAreFaithful` states it by itself. The steps that write the marker, or change what
the server holds, are few (`MarkerWriters`, `DispatchMovers`); each is then one case.

The last part of `ClaimLifecycleProofs` proves `Spec => ImplementsDeployment`. The mapping takes
`started` to the deployments with a launch and `outcome` to the server's final
state. With `ExecutionInv`, `Launch` is `StartWork` (its claim is live or given up
by the server alone), a served report or a server's verdict is `Record`, and every
other step stutters; final states have no way out of them.

`BootstrapProofs` proves `Spec => []BootstrapInv`: while a listener exists a promise
made to a server is the session's own (`status = "paired"`, `trust` on disk), an
unpaired session has promised nothing, handlers do not outlive the listener that
started them, and a listener is only started with no state file. The durability of
a confirmation follows for any number of control planes. `AnswerInv` adds what has been
said so far: a completion acknowledgement comes from a confirmed server only, and a
promise was made to a server that has the code of the listener that made it. With it,
a listener that ends as paired has a confirmed server (`CompletionIsMutual`), and no
confirmed one is refused (`ConfirmedIsServed`): its repeated request has the code and the
pin of the session, whatever the clock says.

`PinRotationProofs` proves `Spec => []PinsInv` for servers whose connections end with
their certificate, `ASSUME ~KeepsOld`; for others the properties are false, as the run
`rotation_stale` shows. `Connectable` is not inductive: a late answer may bring back
pins that were dropped (`Retired`), and the invariant has to say that no request which
can still be answered promotes the old one of them. It counts on there being one
goroutine beside the heartbeat (`RequestersAssumption`), which is the code: a claim is
executed, and its logs are sent, by one goroutine at a time.

`StepOutputProofs` proves `Spec => []OutputInv`. The numbers of stored and pending
events together are 1 to `next - 1`, one event each, and the stored ones are an
initial segment (`SenderInv`): every upload sends all that is pending, so a failed
one that was stored all the same leaves no gap. `LogIsSequence` follows with a
bijection that counts the stored events; `NothingAcceptedIsLost` needs that the
last flush leaves nothing and that nothing is logged afterwards (`QuietInv`);
`NoRepeatAfterLogFailure` that an upload that failed has left its writer in error,
which no attempt gets past (`ErrorInv`). Two goroutines in one writer break none
of this, and these theorems are about any number of them. `BatchesFit` is about one: a
batch is full only if its upload failed, which put the writer in error, and with one
goroutine nobody else is then about to log (`BatchInv`, inductive with `OutputInv`);
`TypesAreKept` follows.

`LinesAreOrdered` and `OutputIsComplete` are false of two goroutines (`host_lines`) and
proved for one, `Streams = {s}`, as a container's command has. Neither is inductive:
between being read and being stored, output is in the writer's buffer, then among the
lines a goroutine logs, then in a batch. `TextInv` says that the log and the batch hold a
prefix of what was printed, each piece in one place and in order, and that the rest is
one text, in one of the first two places, whose place depends on who has taken it
(`Awaits`) - until an error, after which it may be lost and nothing more is logged.
`BufferInv` says that this text is a single line, finished only once it is taken, so that
it becomes one event, and that nothing is left of one attempt for the next; `SuccessInv`
that a deployment succeeds only when no text is waiting and the batch is empty. Each step
either leaves the texts alone, moves one on, or ends in an error. A deployment has at
least one step and a step one attempt (`BoundsAssumption`).

`HostSupervisorProofs` proves `Spec => []HostInv` and, from it, that the host executor
implements `CleanupContract`. That no child is left when `wait4` says ECHILD is not
enough: a grandchild might be there, and be adopted later. `NoneEscapes` says of every
set of live processes that one of them has its parent outside the set, the
supervisor or a live process: with the set of all live processes, somebody is a child
of the supervisor, so no child means no process (`NoChildNoTree`). A fork, an exit with
adoption, a reaping and a kill each preserve it, for any number of processes and
any order of the scan.

`ContainerRuntimeProofs` proves the same refinement for containers, from `CleanupInv`: a
script that runs, or whose start the engine may still carry out for a dead client, is
the one being waited for, or the executor is dirty. A pending start has its container,
hence a list shows it; a pending creation has none, but starts nothing. Most steps
concern helpers, volumes or the caller, and are covered by what they do to the names
of scripts (`Calm`, `Steady`).

The second half of the module proves `Spec => []StageInv`, from which `StagesKeepInput`
and `ExportDescends` follow. That a registered stage keeps its data is about who mounts
what: a helper that exists, or may still be created, mounts its own volume
(`HelpersMountTheirs`), so a keeper that runs holds its tmpfs whatever else is started or
removed (`HeldStays`). It also has to be known that a registered stage is the claim's and
will be closed before its helpers go (`RegisteredIsClaimed`), that nothing can start a
keeper again after it died, since a volume mounted anew would look registered and be empty
(`RegisteredIsHeld`), and how much of this already holds while `newStage` is under way
(`BuildingIsHeld`).

`StagingExchangeProofs` proves `Spec => []ExchangeInv`, of which `InputIsRestored` and
`OutputIsPublished` are two conjuncts; the other three say where the claim is (`FlowInv`),
what was read of an archive (`ReadInv`) and what was packed of a tree (`PackInv`). The
properties compare decisions the code makes entry by entry, from what it remembers, with
what a whole archive means in no order (`Coherent`, `Denoted`). `Joins(es, e)` is where
both meet: it is what `validateEntry` decides from its maps (`AdmitsJoining`), it keeps what
was read coherent (`JoinedAreCoherent`), and every entry of a coherent archive joins those
before it (`CoherentJoin`). Hence a refusal means that the archive is not coherent, and
reading it again, into a directory, decides the same and restores what it denotes
(`RestoredMore`). Only for a file named `.` does `restoreEntry` find no room (`JoiningFits`),
which is the exception the property names. For the packer, the nodes packed are a part of
the tree, which has no more nodes and bytes than the tree (`PartIsLess`), so a refusal means
that the policy does not allow the tree; a tree packed in full gives a coherent archive
that denotes it (`PackedInFull`), which the agent's own validation then cannot refuse.
Sums of sizes are cardinalities (`Payload`: one element for each byte), so that what is
needed of them follows from the library's theorems on finite sets instead of an induction.
The theorems hold for archives of any length, any finite set of paths that is closed under
parents, and any limits.

Assumptions: only the named assumptions on the constants (the null values are not
members, kinds and answers are of their sets, bounds and limits are naturals, paths are
finitely many and come with their parents, at most one goroutine sends requests beside
the heartbeat), in `PinRotationProofs` `~KeepsOld`, and in the theorems of `StepOutputProofs`
that say so a single copying goroutine.

Checked by TLC only: liveness (`EventuallyPolls`, `OutcomeDelivered`,
`CancellationAnswered`, `CompletionReached`, `AnnouncementIsStaged`, `RuntimeRecovers`,
`AttemptEnds`, `TreeDiesWithAgent`), which rests on fairness and so on ENABLED, beyond the
installed provers; and what the four runs of section 6 find. Every invariant, action
property and refinement of the other runs is a theorem.

## 6. Findings

1. `host_only_cleanup` - an agent without containers reports `cleanup_unconfirmed`
   when its script directory cannot be removed; its client speaks agent/2, in
   which that state is not valid, so the server has to refuse the report.
2. `pairing_expiry` - if a request is the first to notice that the offer has
   expired, the expiry goroutine finds nothing left to expire and does not shut
   the listener down: the agent goes on listening with a code it refuses.
3. `rotation_stale` - a heartbeat answer read before a promotion and staged after it
   makes the retired certificate pending again, and an answer over an old
   connection can then promote it, dropping the pin in use. It needs a server
   that changes its certificate without closing connections.
4. `host_lines` - both streams of a host process are copied into one redacting
   writer by two goroutines without a lock: while one waits for an upload, the
   other's text is taken, logged and reset under it. The run stores a line behind a
   later one of its own stream; lines may also be stored twice, be lost, or the
   buffer panic. With the same constants TLC violates `BatchFits`, too: the upload of a
   full batch fails while the other goroutine waits for the sender's lock, which then
   adds event 101, and the server refuses that batch, the last flush included.
   Containers are not affected (`BatchesFit`).

Without a run of their own:

* A report the server has, but whose marker does not say so, can keep the agent from
  polling for good. Recovery sends the report again (`claim_storage.go:155` and `:190`) and
  `docs/agent-protocol.md:151-153` relies on that, but `Complete` refuses a repeated result
  with `ErrDuplicateResult`, and line 334 says of `cleanup_unconfirmed` that it "cannot be
  replayed". A server that tells the agent so with a conflict is asked again at every
  round: `reportCompletedClaim` takes only a confirmed cancellation for an answer,
  `client.Result` none, and the marker stays although everything is cleaned up and
  reported. One fault is enough: a crash, or a failed write, between the delivery and the
  acknowledged marker; a lost answer; or a state directory that fails both the write (after
  its rename) and the clear in `prepareContainerClaim`, which then delivers the report
  without marking it so.
  `EventuallyPolls` names this as `RefusedAgain`; without that disjunct TLC violates it in
  `one_claim`, by the last of these. Whether it happens depends on the server, which is
  not in this repository: one that answers a repeated report of the same state with
  success is not affected.
* The table of edges in `docs/agent-protocol.md` omits four that `CanTransition` allows (waiting to cancelled,
  claimed to cancelled, started and cancel_requested to cleanup_unconfirmed) and calls
  all others invalid. `Dispatch` follows the code.

## 7. Plan

Done: the dispatch contract, the claim lifecycle, pairing, pin rotation, step output,
the container runtime and the host supervisor under one contract, each with the proofs
of section 5, and the exchange of staged files with its proof.

What would come next:

1. `StepOutput` composed with `ContainerRuntime`: an attempt in the one is an attempt in
   the other, so that a log failure, a cancellation and an unconfirmed removal meet
   in one model.
2. `StagingRecovery`: the list of recorded roots purged one at a time, with progress
   written in between; it refines `ResumePurge`.
3. Pure algorithms: redaction over a chunked stream, `Retry-After` and back-off, the
   quota arithmetic of the ZIP reader.
4. Proofs of what these add; of the present modules only liveness is left (section 5).

## 8. Not modelled

* Cryptography and formats (payload envelope, sealed reports, X.509), validation of
  single messages, ZIP packages, redaction, configuration and resource policy:
  functions of their input, without interleaving or memory.
* An unstaged host attempt: it has no supervisor, its process group is killed after a
  delay and nothing confirms that it is gone; the code promises nothing there that
  could be checked.
* The exit status of an interpreter, and with it the case that a descendant gets the
  PID of a reaped interpreter during a stop.
* PAX and other extension headers of archives, which long names need, and the mode and
  owner of an entry.
* The state lease is a kernel lock; every model has the single process it ensures. CI
  and image scripts are not part of the running program.
* Times are not quantified: a deadline is an event that may come.

## 9. Running the checks

    tlc -workers 2 -config OneClaim.cfg MCClaimLifecycle
    tlapm ClaimLifecycleProofs.tla

`PROJECT.json` lists the module and configuration of each run. Deadlock is checked
in every run.
