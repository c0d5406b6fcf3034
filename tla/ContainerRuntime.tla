-------------------------- MODULE ContainerRuntime --------------------------
(***************************************************************************)
(* ContainerExecutor (executor/container_*.go), the engine it commands,    *)
(* and the order in which a claim uses it: Ready before a claim, NewStage, *)
(* NewArtifactStage, attempts, Export, Close.  Every method holds the      *)
(* executor's mutex and one goroutine calls them, so there is one pc; what *)
(* runs beside it is the engine.  A command is a client process: when it   *)
(* fails or is killed, the engine may have done all of what it asked, a    *)
(* part, nothing, or do it later.  A tmpfs volume has contents only while  *)
(* some running container mounts it.                                       *)
(***************************************************************************)
EXTENDS Naturals, Sequences, FiniteSets

CONSTANTS
  Attempts,    \* names of attempts
  Volumes,     \* names of staging volumes
  NoName,
  MaxFaults    \* bound

ASSUME NoNameAssumption == NoName \notin Attempts \cup Volumes
ASSUME FaultsAssumption == MaxFaults \in Nat

VARIABLES
  pc,
  cleanupErr,  \* ContainerExecutor.cleanupErr is set
  stages,      \* ContainerExecutor.stages
  asked,       \* remove: the container whose removal was commanded, not yet confirmed
  ids,         \* Ready: owned containers still to remove
  closing,     \* volumes whose stage is still to be closed
  closeErr,    \* Close: its joined error is not nil
  claim,       \* the claim's two volumes, or NoName
  attempt,     \* the name of its current attempt
  failed,      \* the claim's, or the attempt's, error is not nil
  container, mounts, volume, data,     \* of the engine
  pending,     \* what the engine may still do for a client that is gone
  late,        \* volumes it may still create for one
  exported,    \* history: what Export handed to the caller
  checked,     \* history: Ready has succeeded in this process
  lost,        \* history: volumes a helper of which has died
  faults       \* how much went wrong, bounded

executor == <<pc, cleanupErr, stages, asked, ids, closing, closeErr, claim, attempt,
              failed, checked>>
engine   == <<container, mounts, volume, data, pending, late, lost>>
vars     == <<executor, engine, exported, faults>>

Keeper(v)   == <<"keeper", v>>
Importer(v) == <<"importer", v>>
Script(a)   == <<"script", a>>
Helpers     == {"keeper", "importer"} \X Volumes
Containers  == Helpers \cup ({"script"} \X Attempts)

NoClaim == [stage |-> NoName, package |-> NoName]
Fault   == faults < MaxFaults /\ faults' = faults + 1
NoFault == UNCHANGED faults

Init ==
  /\ pc = "ready" /\ cleanupErr = FALSE /\ stages = [v \in Volumes |-> "none"]
  /\ asked = NoName /\ ids = {} /\ closing = <<>> /\ closeErr = FALSE
  /\ claim = NoClaim /\ attempt = NoName /\ failed = FALSE /\ checked = FALSE
  /\ container = [c \in Containers |-> "absent"] /\ mounts = [c \in Containers |-> {}]
  /\ volume = [v \in Volumes |-> "absent"] /\ data = [v \in Volumes |-> "none"]
  /\ pending = [c \in Containers |-> "no"] /\ late = {}
  /\ exported = "nothing" /\ lost = {} /\ faults = 0

-----------------------------------------------------------------------------
(* The engine.                                                             *)

Owned    == {c \in Containers : container[c] # "absent"}
InUse(v) == \E c \in Owned : v \in mounts[c]

\* The contents d, without those of volumes no running container mounts now.
Mounted(d) ==
  [v \in Volumes |->
     IF \E c \in Containers : container'[c] = "running" /\ v \in mounts'[c]
     THEN d[v] ELSE "none"]

Becomes(c, st) == container' = [container EXCEPT ![c] = st]

\* Mutant: a name used before.
FreshVolume_Any(v) == v \notin late

\* Names carry a nonce: nothing in the engine knows a new one.
FreshVolume(v) ==
  volume[v] = "absent" /\ v \notin late /\ \A c \in Containers : v \notin mounts[c]
FreshAttempt(a) == container[Script(a)] = "absent" /\ pending[Script(a)] = "no"

\* run: created with its mounts and started, answered.
Run(c, vs) ==
  /\ Becomes(c, "running") /\ mounts' = [mounts EXCEPT ![c] = vs] /\ data' = Mounted(data)
  /\ UNCHANGED <<volume, pending, late, lost, faults>>

\* run failed or its client was killed: before the engine had the request, with
\* the container created or not and the rest still to come, or after the start.
RunFails(c, vs) ==
  /\ Fault
  /\ \/ UNCHANGED <<container, mounts, pending>>
     \/ /\ UNCHANGED container /\ pending' = [pending EXCEPT ![c] = "create"]
        /\ mounts' = [mounts EXCEPT ![c] = vs]
     \/ /\ Becomes(c, "stopped") /\ mounts' = [mounts EXCEPT ![c] = vs]
        /\ \E p \in {"no", "start"} : pending' = [pending EXCEPT ![c] = p]
     \/ Becomes(c, "running") /\ mounts' = [mounts EXCEPT ![c] = vs] /\ UNCHANGED pending
  /\ data' = Mounted(data) /\ UNCHANGED <<volume, late, lost>>

EngineCreates(c) ==
  /\ pending[c] = "create" /\ Becomes(c, "stopped") /\ pending' = [pending EXCEPT ![c] = "no"]
  /\ UNCHANGED <<executor, mounts, volume, data, late, exported, lost, faults>>

EngineStarts(c) ==
  /\ pending[c] = "start" /\ Becomes(c, "running") /\ pending' = [pending EXCEPT ![c] = "no"]
  /\ UNCHANGED <<executor, mounts, volume, data, late, exported, lost, faults>>

EngineForgets(c) ==
  /\ pending[c] # "no" /\ pending' = [pending EXCEPT ![c] = "no"]
  /\ mounts' = [mounts EXCEPT ![c] = IF container[c] = "absent" THEN {} ELSE @]
  /\ UNCHANGED <<executor, container, volume, data, late, exported, lost, faults>>

EngineCreatesVolume(v) ==
  /\ v \in late /\ late' = late \ {v}
  /\ \/ volume' = [volume EXCEPT ![v] = "present"]
     \/ UNCHANGED volume
  /\ UNCHANGED <<executor, container, mounts, data, pending, exported, lost, faults>>

\* A script ends.
ScriptEnds(a) ==
  /\ container[Script(a)] = "running" /\ Becomes(Script(a), "stopped") /\ UNCHANGED mounts
  /\ data' = Mounted(data)
  /\ UNCHANGED <<executor, volume, pending, late, exported, lost, faults>>

\* A keeper or importer is killed, for example for want of memory.
HelperDies(c) ==
  /\ c \in Helpers /\ container[c] = "running" /\ Fault
  /\ Becomes(c, "stopped") /\ UNCHANGED mounts /\ data' = Mounted(data)
  /\ lost' = lost \cup mounts[c]
  /\ UNCHANGED <<executor, volume, pending, late, exported>>

Engine ==
  \/ \E c \in Containers : EngineCreates(c) \/ EngineStarts(c) \/ EngineForgets(c) \/ HelperDies(c)
  \/ \E v \in Volumes : EngineCreatesVolume(v)
  \/ \E a \in Attempts : ScriptEnds(a)

-----------------------------------------------------------------------------
(* remove: an rm whose outcome does not matter, then a list that decides.  *)

\* rm stops the container, and a start of it still under way fails.  When the
\* command fails it may have done so or not.
Ask(c) ==
  /\ asked = NoName /\ asked' = c
  /\ \/ /\ Becomes(c, "absent") /\ NoFault
        /\ pending' = [pending EXCEPT ![c] = IF @ = "start" THEN "no" ELSE @]
        /\ mounts' = [mounts EXCEPT ![c] = IF pending'[c] = "create" THEN @ ELSE {}]
        /\ data' = Mounted(data)
     \/ container[c] # "absent" /\ Fault /\ UNCHANGED <<container, mounts, data, pending>>
  /\ UNCHANGED <<volume, late, lost, exported>>

\* Mutant: the answer of rm is believed.
Confirmed_Believed(c) ==
  /\ asked = c /\ asked' = NoName
  /\ UNCHANGED <<engine, exported, faults>>

Confirmed(c) ==
  /\ asked = c /\ container[c] = "absent" /\ asked' = NoName
  /\ UNCHANGED <<engine, exported, faults>>

Unconfirmed(c) ==
  /\ asked = c /\ asked' = NoName
  /\ \/ container[c] # "absent" /\ NoFault
     \/ container[c] = "absent" /\ Fault
  /\ UNCHANGED <<engine, exported>>

-----------------------------------------------------------------------------
(* Ready.                                                                  *)

Goes(next) ==
  /\ pc' = next
  /\ UNCHANGED <<cleanupErr, stages, asked, ids, closing, closeErr, claim, attempt, failed, checked>>

\* The socket, info, its validation or the first list fails: nothing was touched.
ReadyUnavailable ==
  /\ pc = "ready" /\ Fault
  /\ UNCHANGED <<executor, engine, exported>>

ReadyLists ==
  /\ pc = "ready" /\ ids' = Owned /\ pc' = "reconcile"
  /\ UNCHANGED <<cleanupErr, stages, asked, closing, closeErr, claim, attempt, failed, checked>>
  /\ UNCHANGED <<engine, exported, faults>>

ReadyAsks(c) ==
  /\ pc = "reconcile" /\ c \in ids /\ Ask(c)
  /\ UNCHANGED <<pc, cleanupErr, stages, ids, closing, closeErr, claim, attempt, failed, checked>>

\* remove is given an ID here, and its list filters by name: it is always empty,
\* and whether anything remains is left to the last list of Ready.
ReadyRemoved(c) ==
  /\ pc = "reconcile" /\ asked = c /\ asked' = NoName /\ ids' = ids \ {c}
  /\ UNCHANGED <<pc, cleanupErr, stages, closing, closeErr, claim, attempt, failed, checked>>
  /\ UNCHANGED <<engine, exported, faults>>

ReadyFails ==
  /\ cleanupErr' = TRUE /\ pc' = "ready" /\ ids' = {}
  /\ UNCHANGED <<stages, closing, closeErr, claim, attempt, failed, checked>>

\* That list itself failed, or the deadline of Ready has passed.
ReadyUnremoved(c) ==
  /\ pc = "reconcile" /\ asked = c /\ asked' = NoName /\ Fault /\ ReadyFails
  /\ UNCHANGED <<engine, exported>>

\* cleanStagingVolumes; a volume some container still mounts cannot be removed.
ReadyCleansVolumes ==
  /\ pc = "reconcile" /\ ids = {} /\ \A v \in Volumes : volume[v] = "present" => ~InUse(v)
  /\ volume' = [v \in Volumes |-> "absent"] /\ stages' = [v \in Volumes |-> "none"]
  /\ pc' = "verify"
  /\ UNCHANGED <<cleanupErr, asked, ids, closing, closeErr, claim, attempt, failed, checked>>
  /\ UNCHANGED <<container, mounts, data, pending, late, lost, exported, faults>>

ReadyVolumesFail ==
  /\ pc = "reconcile" /\ ids = {} /\ ReadyFails /\ UNCHANGED asked
  /\ \/ (\E v \in Volumes : volume[v] = "present" /\ InUse(v)) /\ NoFault
     \/ Fault
  /\ \E gone \in SUBSET {v \in Volumes : ~InUse(v)} :
       volume' = [v \in Volumes |-> IF v \in gone THEN "absent" ELSE volume[v]]
  /\ UNCHANGED <<container, mounts, data, pending, late, lost, exported>>

\* Mutant: the earlier error stays.
ReadyVerified_Sticky ==
  /\ pc = "verify" /\ Owned = {}
  /\ checked' = TRUE /\ pc' = "claim"
  /\ UNCHANGED <<cleanupErr, stages, asked, ids, closing, closeErr, claim, attempt, failed>>
  /\ UNCHANGED <<engine, exported, faults>>

ReadyVerified ==
  /\ pc = "verify" /\ Owned = {}
  /\ cleanupErr' = FALSE /\ checked' = TRUE /\ pc' = "claim"
  /\ UNCHANGED <<stages, asked, ids, closing, closeErr, claim, attempt, failed>>
  /\ UNCHANGED <<engine, exported, faults>>

ReadyLeftover ==
  /\ pc = "verify" /\ ReadyFails /\ UNCHANGED <<asked, engine, exported>>
  /\ \/ Owned # {} /\ NoFault
     \/ Fault

-----------------------------------------------------------------------------
(* A claim and its stages: newStage.                                       *)

\* Poll has nothing, or the claim ends before it needs a container; Ready is
\* called again before the next, and between Poll and Start.
Idle ==
  /\ pc = "claim" /\ Goes("ready")
  /\ UNCHANGED <<engine, exported, faults>>

ClaimUnstaged ==
  /\ pc = "claim" /\ Goes("attempt")
  /\ UNCHANGED <<engine, exported, faults>>

\* The nonce makes the name of a stage new.
NewStage(v) ==
  /\ pc = "claim" /\ FreshVolume(v) /\ claim' = [claim EXCEPT !.stage = v]
  /\ lost' = lost \ {v} /\ pc' = "create"
  /\ UNCHANGED <<cleanupErr, stages, asked, ids, closing, closeErr, attempt, failed, checked>>
  /\ UNCHANGED <<container, mounts, volume, data, pending, late, exported, faults>>

NewArtifactStage(v) ==
  /\ pc = "staged" /\ FreshVolume(v) /\ claim' = [claim EXCEPT !.package = v]
  /\ lost' = lost \ {v} /\ pc' = "create"
  /\ UNCHANGED <<cleanupErr, stages, asked, ids, closing, closeErr, attempt, failed, checked>>
  /\ UNCHANGED <<container, mounts, volume, data, pending, late, exported, faults>>

NoArtifact ==
  /\ pc = "staged" /\ Goes("attempt")
  /\ UNCHANGED <<engine, exported, faults>>

\* What newStage is making, and the container that imports into it.
Packaging == claim.package # NoName
Building  == IF Packaging THEN claim.package ELSE claim.stage
Receiver  == IF Packaging THEN Importer(Building) ELSE Keeper(Building)

\* The stages executeClaim closes, whatever became of them.
Closing(v) == IF v = NoName THEN <<>> ELSE <<v>>
Claimed    == Closing(claim.stage) \o Closing(claim.package)

\* newStage closes what it has made when it fails; its caller closes it again.
BuildFails ==
  /\ failed' = TRUE /\ pc' = "close" /\ closing' = <<Building>> \o Claimed
  /\ UNCHANGED <<cleanupErr, stages, ids, closeErr, claim, attempt, checked>>

CreateVolume ==
  /\ pc = "create" /\ Goes("receive")
  /\ volume' = [volume EXCEPT ![Building] = "present"]
  /\ UNCHANGED <<container, mounts, data, pending, late, lost, exported, faults>>

CreateVolumeFails ==
  /\ pc = "create" /\ BuildFails /\ UNCHANGED asked /\ Fault
  /\ \/ UNCHANGED <<volume, late>>
     \/ volume' = [volume EXCEPT ![Building] = "present"] /\ UNCHANGED late
     \/ late' = late \cup {Building} /\ UNCHANGED volume
  /\ UNCHANGED <<container, mounts, data, pending, lost, exported>>

StartReceiver ==
  /\ pc = "receive" /\ Goes("import") /\ Run(Receiver, {Building}) /\ UNCHANGED exported

StartReceiverFails ==
  /\ pc = "receive" /\ BuildFails /\ UNCHANGED <<asked, exported>>
  /\ RunFails(Receiver, {Building})

\* A stage is registered with its data; a package is first handed over.
Import ==
  /\ pc = "import" /\ container[Receiver] = "running"
  /\ data' = [data EXCEPT ![Building] = "whole"]
  /\ pc' = IF Packaging THEN "hold" ELSE "staged"
  /\ stages' = IF Packaging THEN stages ELSE [stages EXCEPT ![Building] = "writable"]
  /\ UNCHANGED <<cleanupErr, asked, ids, closing, closeErr, claim, attempt, failed, checked>>
  /\ UNCHANGED <<container, mounts, volume, pending, late, lost, exported, faults>>

ImportFails ==
  /\ pc = "import" /\ BuildFails /\ UNCHANGED asked
  /\ \/ container[Receiver] # "running" /\ NoFault /\ UNCHANGED data
     \/ /\ container[Receiver] = "running" /\ Fault
        /\ data' \in {data, [data EXCEPT ![Building] = "part"]}
  /\ UNCHANGED <<container, mounts, volume, pending, late, lost, exported>>

\* Mutant: the importer is removed first.
StartKeeper_Last ==
  /\ pc = "hold" /\ Goes("handover") /\ UNCHANGED exported
  /\ container' = [container EXCEPT ![Keeper(Building)] = "running",
                                    ![Importer(Building)] = "absent"]
  /\ mounts' = [mounts EXCEPT ![Keeper(Building)] = {Building}]
  /\ data' = [data EXCEPT ![Building] = "none"]
  /\ UNCHANGED <<volume, pending, late, lost, faults>>

\* The read-only keeper takes the tmpfs over before the importer leaves it.
StartKeeper ==
  /\ pc = "hold" /\ Goes("handover") /\ Run(Keeper(Building), {Building}) /\ UNCHANGED exported

StartKeeperFails ==
  /\ pc = "hold" /\ BuildFails /\ UNCHANGED <<asked, exported>>
  /\ RunFails(Keeper(Building), {Building})

AskImporter ==
  /\ pc = "handover" /\ Ask(Importer(Building))
  /\ UNCHANGED <<pc, cleanupErr, stages, ids, closing, closeErr, claim, attempt, failed, checked>>

HandedOver ==
  /\ pc = "handover" /\ Confirmed(Importer(Building)) /\ pc' = "attempt"
  /\ stages' = [stages EXCEPT ![Building] = "readOnly"]
  /\ UNCHANGED <<cleanupErr, ids, closing, closeErr, claim, attempt, failed, checked>>

HandoverFails ==
  /\ pc = "handover" /\ Unconfirmed(Importer(Building)) /\ BuildFails

-----------------------------------------------------------------------------
(* runAttempt, and executeAttempts and ExecuteSteps around it.             *)

Closes == pc' = "close" /\ closing' = Claimed

Usable ==
  /\ ~cleanupErr
  /\ claim.stage # NoName => stages[claim.stage] = "writable"
  /\ claim.package # NoName => stages[claim.package] # "none"

\* An earlier cleanup is unconfirmed, a stage is not registered, or the engine
\* does not answer or has no image.
AttemptRefused ==
  /\ pc = "attempt" /\ pc' = "verdict" /\ failed' = TRUE
  /\ \/ ~Usable /\ NoFault
     \/ Usable /\ Fault
  /\ UNCHANGED <<cleanupErr, stages, asked, ids, closing, closeErr, claim, attempt, checked>>
  /\ UNCHANGED <<engine, exported>>

JobVolumes == {claim.stage, claim.package} \ {NoName}

Launch(a) ==
  /\ pc = "attempt" /\ Usable /\ FreshAttempt(a)
  /\ Run(Script(a), JobVolumes) /\ attempt' = a /\ pc' = "running"
  /\ UNCHANGED <<cleanupErr, stages, asked, ids, closing, closeErr, claim, failed, checked, exported>>

LaunchFails(a) ==
  /\ pc = "attempt" /\ Usable /\ FreshAttempt(a)
  /\ RunFails(Script(a), JobVolumes) /\ attempt' = a /\ pc' = "remove" /\ failed' = TRUE
  /\ UNCHANGED <<cleanupErr, stages, asked, ids, closing, closeErr, claim, checked, exported>>

\* The client returns the exit code of the script.
Exited ==
  /\ pc = "running" /\ container[Script(attempt)] # "running"
  /\ pc' = "remove" /\ failed' \in BOOLEAN
  /\ UNCHANGED <<cleanupErr, stages, asked, ids, closing, closeErr, claim, attempt, checked>>
  /\ UNCHANGED <<engine, exported, faults>>

\* The client is killed, by a timeout, a cancellation or a failed log, or loses
\* its connection; the container does not notice.
Interrupted ==
  /\ pc = "running" /\ pc' = "remove" /\ failed' = TRUE
  /\ UNCHANGED <<cleanupErr, stages, asked, ids, closing, closeErr, claim, attempt, checked>>
  /\ UNCHANGED <<engine, exported, faults>>

AskAttempt ==
  /\ pc = "remove" /\ Ask(Script(attempt))
  /\ UNCHANGED <<pc, cleanupErr, stages, ids, closing, closeErr, claim, attempt, failed, checked>>

AttemptRemoved ==
  /\ pc = "remove" /\ Confirmed(Script(attempt)) /\ pc' = "verdict" /\ attempt' = NoName
  /\ UNCHANGED <<cleanupErr, stages, ids, closing, closeErr, claim, failed, checked>>

AttemptUnremoved ==
  /\ pc = "remove" /\ Unconfirmed(Script(attempt)) /\ pc' = "verdict"
  /\ cleanupErr' = TRUE /\ failed' = TRUE /\ attempt' = NoName
  /\ UNCHANGED <<stages, ids, closing, closeErr, claim, checked>>

\* The next attempt after a failure that retryError allows to repeat, or the next
\* step after a success.
NextAttempt ==
  /\ pc = "verdict" /\ ~cleanupErr /\ pc' = "attempt" /\ failed' = FALSE
  /\ UNCHANGED <<cleanupErr, stages, asked, ids, closing, closeErr, claim, attempt, checked>>
  /\ UNCHANGED <<engine, exported, faults>>

StepsFail ==
  /\ pc = "verdict" /\ failed /\ Closes
  /\ UNCHANGED <<cleanupErr, stages, asked, ids, closeErr, claim, attempt, failed, checked>>
  /\ UNCHANGED <<engine, exported, faults>>

StepsSucceed ==
  /\ pc = "verdict" /\ ~failed
  /\ IF claim.stage = NoName THEN Closes ELSE pc' = "export" /\ UNCHANGED closing
  /\ UNCHANGED <<cleanupErr, stages, asked, ids, closeErr, claim, attempt, failed, checked>>
  /\ UNCHANGED <<engine, exported, faults>>

-----------------------------------------------------------------------------
(* Export and Close.                                                       *)

\* Mutant: a new helper reads the volume.
Exported_ByNewHelper ==
  /\ pc = "export" /\ stages[claim.stage] # "none" /\ Closes
  /\ exported' = data[claim.stage]
  /\ UNCHANGED <<cleanupErr, stages, asked, ids, closeErr, claim, attempt, failed, checked>>
  /\ UNCHANGED <<engine, faults>>

\* The keeper reads the volume.
Exported ==
  /\ pc = "export" /\ stages[claim.stage] # "none" /\ Closes
  /\ container[Keeper(claim.stage)] = "running" /\ exported' = data[claim.stage]
  /\ UNCHANGED <<cleanupErr, stages, asked, ids, closeErr, claim, attempt, failed, checked>>
  /\ UNCHANGED <<engine, faults>>

ExportFails ==
  /\ pc = "export" /\ Closes /\ failed' = TRUE
  /\ IF stages[claim.stage] # "none" /\ container[Keeper(claim.stage)] = "running"
       THEN Fault ELSE NoFault
  /\ UNCHANGED <<cleanupErr, stages, asked, ids, closeErr, claim, attempt, checked>>
  /\ UNCHANGED <<engine, exported>>

\* Close forgets the stage before anything else.
Close ==
  /\ pc = "close" /\ closing # <<>>
  /\ stages' = [stages EXCEPT ![Head(closing)] = "none"]
  /\ pc' = IF Head(closing) = claim.package THEN "closeImporter" ELSE "closeKeeper"
  /\ UNCHANGED <<cleanupErr, asked, ids, closing, closeErr, claim, attempt, failed, checked>>
  /\ UNCHANGED <<engine, exported, faults>>

ClosesHelper == IF pc = "closeImporter" THEN Importer(Head(closing)) ELSE Keeper(Head(closing))

CloseAsks ==
  /\ pc \in {"closeImporter", "closeKeeper"} /\ Ask(ClosesHelper)
  /\ UNCHANGED <<pc, cleanupErr, stages, ids, closing, closeErr, claim, attempt, failed, checked>>

\* A helper that is not removed does not keep Close from trying the rest.
CloseConfirms ==
  /\ pc \in {"closeImporter", "closeKeeper"}
  /\ \/ Confirmed(ClosesHelper) /\ UNCHANGED closeErr
     \/ Unconfirmed(ClosesHelper) /\ closeErr' = TRUE
  /\ pc' = IF pc = "closeImporter" THEN "closeKeeper" ELSE "closeVolume"
  /\ UNCHANGED <<cleanupErr, stages, ids, closing, claim, attempt, failed, checked>>

CloseEnds(err) ==
  /\ cleanupErr' = (cleanupErr \/ err) /\ failed' = (failed \/ err)
  /\ closing' = Tail(closing) /\ pc' = "close" /\ closeErr' = FALSE
  /\ UNCHANGED <<stages, asked, ids, claim, attempt, checked>>

CloseVolume ==
  /\ pc = "closeVolume" /\ CloseEnds(closeErr)
  /\ volume[Head(closing)] = "present" => ~InUse(Head(closing))
  /\ volume' = [volume EXCEPT ![Head(closing)] = "absent"]
  /\ UNCHANGED <<container, mounts, data, pending, late, lost, exported, faults>>

CloseVolumeFails ==
  /\ pc = "closeVolume" /\ CloseEnds(TRUE)
  /\ \/ volume[Head(closing)] = "present" /\ InUse(Head(closing)) /\ UNCHANGED <<volume, faults>>
     \/ /\ ~InUse(Head(closing)) /\ Fault
        /\ volume' \in {volume, [volume EXCEPT ![Head(closing)] = "absent"]}
  /\ UNCHANGED <<container, mounts, data, pending, late, lost, exported>>

\* executeClaim reports the outcome, and polls after another Ready.
ClaimEnds ==
  /\ pc = "close" /\ closing = <<>> /\ pc' = "ready"
  /\ claim' = NoClaim /\ failed' = FALSE /\ exported' = "nothing"
  /\ UNCHANGED <<cleanupErr, stages, asked, ids, closing, closeErr, attempt, checked>>
  /\ UNCHANGED <<engine, faults>>

-----------------------------------------------------------------------------
\* The agent dies and is started again; what it left to the engine goes on.
Crash ==
  /\ Fault /\ pc' = "ready" /\ cleanupErr' = FALSE /\ stages' = [v \in Volumes |-> "none"]
  /\ asked' = NoName /\ ids' = {} /\ closing' = <<>> /\ closeErr' = FALSE /\ claim' = NoClaim
  /\ attempt' = NoName /\ failed' = FALSE /\ checked' = FALSE /\ exported' = "nothing"
  /\ UNCHANGED engine

Reconciles ==
  \/ ReadyUnavailable \/ ReadyLists \/ ReadyCleansVolumes \/ ReadyVolumesFail
  \/ ReadyVerified \/ ReadyLeftover
  \/ \E c \in Containers : ReadyAsks(c) \/ ReadyRemoved(c) \/ ReadyUnremoved(c)

Stages ==
  \/ Idle \/ ClaimUnstaged \/ NoArtifact \/ CreateVolume \/ CreateVolumeFails
  \/ StartReceiver \/ StartReceiverFails \/ Import \/ ImportFails
  \/ StartKeeper \/ StartKeeperFails \/ AskImporter \/ HandedOver \/ HandoverFails
  \/ \E v \in Volumes : NewStage(v) \/ NewArtifactStage(v)

Executes ==
  \/ AttemptRefused \/ Exited \/ Interrupted \/ AskAttempt \/ AttemptRemoved
  \/ AttemptUnremoved \/ NextAttempt \/ StepsFail \/ StepsSucceed
  \/ \E a \in Attempts : Launch(a) \/ LaunchFails(a)

Cleans ==
  \/ Exported \/ ExportFails \/ Close \/ CloseAsks \/ CloseConfirms
  \/ CloseVolume \/ CloseVolumeFails \/ ClaimEnds

Agent == Reconciles \/ Stages \/ Executes \/ Cleans

Next == Agent \/ Engine \/ Crash

Spec     == Init /\ [][Next]_vars
FairSpec == Spec /\ WF_vars(Agent)

-----------------------------------------------------------------------------
(* Properties.                                                             *)

\* Every variable has a value the code or the engine can give it, and the claim's
\* stages are two volumes.
TypeOK ==
  /\ pc \in {"ready", "reconcile", "verify", "claim", "create", "receive", "import", "hold",
             "handover", "staged", "attempt", "running", "remove", "verdict", "export",
             "close", "closeImporter", "closeKeeper", "closeVolume"}
  /\ cleanupErr \in BOOLEAN /\ closeErr \in BOOLEAN /\ failed \in BOOLEAN /\ checked \in BOOLEAN
  /\ stages \in [Volumes -> {"none", "writable", "readOnly"}]
  /\ asked \in Containers \cup {NoName} /\ ids \in SUBSET Containers
  /\ closing \in Seq(Volumes) /\ attempt \in Attempts \cup {NoName}
  /\ claim \in [stage : Volumes \cup {NoName}, package : Volumes \cup {NoName}]
  /\ claim.stage = claim.package => claim = NoClaim
  /\ container \in [Containers -> {"absent", "stopped", "running"}]
  /\ mounts \in [Containers -> SUBSET Volumes]
  /\ volume \in [Volumes -> {"absent", "present"}]
  /\ data \in [Volumes -> {"none", "part", "whole"}]
  /\ pending \in [Containers -> {"no", "create", "start"}]
  /\ late \in SUBSET Volumes /\ lost \in SUBSET Volumes
  /\ exported \in {"nothing", "none", "part", "whole"} /\ faults \in 0..MaxFaults

\* A registered stage has its whole input as long as its helpers live, and what
\* could write a package is gone before a script can mount it (newStage: "Keep
\* tmpfs mounted throughout the handover").
StagesKeepInput ==
  \A v \in Volumes : stages[v] # "none" =>
    /\ v \in lost \/ (data[v] = "whole" /\ container[Keeper(v)] = "running")
    /\ stages[v] = "readOnly" =>
         container[Importer(v)] = "absent" /\ pending[Importer(v)] = "no"

\* What Export hands to the upload descends from the imported input, never from a
\* tmpfs that was lost and mounted anew.
ExportDescends == exported \in {"nothing", "whole"}

State ==
  IF pc \in {"running", "remove"} THEN "busy"
  ELSE IF checked /\ ~cleanupErr THEN "clean" ELSE "dirty"

Contract == INSTANCE CleanupContract WITH
  Work <- Attempts, alive <- {a \in Attempts : container[Script(a)] = "running"}, state <- State

\* The inductive invariant behind ImplementsCleanup: a start that may still come
\* has its container, which a list shows; and what runs or may still start is the
\* attempt being waited for, or nobody relies on its absence.
Active(a) == container[Script(a)] = "running" \/ pending[Script(a)] = "start"

CleanupInv ==
  /\ container \in [Containers -> {"absent", "stopped", "running"}]
  /\ pending \in [Containers -> {"no", "create", "start"}]
  /\ cleanupErr \in BOOLEAN /\ checked \in BOOLEAN
  /\ pc \notin {"ready", "reconcile", "verify"} => checked
  /\ pc \in {"running", "remove"} => ~cleanupErr
  /\ \A a \in Attempts :
       /\ pending[Script(a)] = "start" => container[Script(a)] = "stopped"
       /\ Active(a) => State = "dirty" \/ (State = "busy" /\ a = attempt)

\* The executor keeps the promise of CleanupContract: no script runs or will run
\* after a nil error, and after ErrContainerCleanup or a restart none starts
\* before a Ready that found nothing.
ImplementsCleanup == Contract!Spec

\* The inductive invariant behind StagesKeepInput and ExportDescends: what mounts a
\* volume, which volumes the claim has registered, and how far the one it is
\* making has come.
Untouched(c) == container[c] = "absent" /\ pending[c] = "no"
Making       == {"create", "receive", "import", "hold", "handover"}

HelpersMountTheirs ==
  /\ mounts \in [Containers -> SUBSET Volumes] /\ data \in [Volumes -> {"none", "part", "whole"}]
  /\ container \in [Containers -> {"absent", "stopped", "running"}]
  /\ pending \in [Containers -> {"no", "create", "start"}]
  /\ \A v \in Volumes :
       /\ ~Untouched(Keeper(v)) => mounts[Keeper(v)] = {v}
       /\ ~Untouched(Importer(v)) => mounts[Importer(v)] = {v}

RegisteredIsClaimed ==
  /\ stages \in [Volumes -> {"none", "writable", "readOnly"}]
  /\ claim \in [stage : Volumes \cup {NoName}, package : Volumes \cup {NoName}]
  /\ closing \in Seq(Volumes)
  /\ \A v \in Volumes :
       /\ stages[v] = "writable" => v = claim.stage
       /\ stages[v] = "readOnly" => v = claim.package
  /\ pc \in {"ready", "reconcile", "verify", "claim"} =>
       claim = NoClaim /\ \A v \in Volumes : stages[v] = "none"
  /\ claim.stage = claim.package => claim = NoClaim
  /\ pc = "staged" =>
       claim.stage # NoName /\ claim.package = NoName /\ stages[claim.stage] = "writable"
  /\ pc = "export" => claim.stage # NoName
  /\ pc \in {"close", "closeImporter", "closeKeeper", "closeVolume"} =>
       \A v \in Volumes : stages[v] # "none" => \E i \in 1 .. Len(closing) : closing[i] = v
  /\ pc \in {"closeImporter", "closeKeeper", "closeVolume"} =>
       closing # <<>> /\ stages[Head(closing)] = "none"

\* A registered stage is held by its keeper, which nothing will start again.
RegisteredIsHeld ==
  \A v \in Volumes : stages[v] # "none" =>
    /\ container[Keeper(v)] # "absent" /\ pending[Keeper(v)] = "no"
    /\ v \in lost \/ (data[v] = "whole" /\ container[Keeper(v)] = "running")
    /\ stages[v] = "writable" /\ container[Keeper(v)] = "running" => data[v] = "whole"
    /\ stages[v] = "readOnly" => Untouched(Importer(v))

BuildingIsHeld ==
  /\ pc \in Making => claim.stage # NoName /\ stages[Building] = "none"
  /\ pc \in {"hold", "handover"} => Packaging
  /\ pc \in {"create", "receive"} => Untouched(Keeper(Building)) /\ Untouched(Importer(Building))
  /\ pc = "import" =>
       /\ Packaging => Untouched(Keeper(Building))
       /\ pending[Receiver] = "no"
       /\ Building \in lost \/ container[Receiver] = "running"
  /\ pc = "hold" =>
       /\ pending[Importer(Building)] = "no" /\ Untouched(Keeper(Building))
       /\ \/ Building \in lost
          \/ data[Building] = "whole" /\ container[Importer(Building)] = "running"
  /\ pc = "handover" =>
       /\ pending[Importer(Building)] = "no" /\ pending[Keeper(Building)] = "no"
       /\ container[Keeper(Building)] # "absent"
       /\ \/ Building \in lost
          \/ data[Building] = "whole" /\ container[Keeper(Building)] = "running"

StageInv ==
  HelpersMountTheirs /\ RegisteredIsClaimed /\ RegisteredIsHeld /\ BuildingIsHeld
    /\ ExportDescends

\* However an attempt, a stage or the agent failed: it becomes clean again, as
\* long as the engine does not fail for ever.
RuntimeRecovers == (State = "dirty") ~> (State = "clean")
=============================================================================
