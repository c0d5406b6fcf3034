------------------------ MODULE ContainerRuntimeProofs ------------------------
(***************************************************************************)
(* The container executor keeps the promise of CleanupContract, and its    *)
(* stages keep what was imported into them, for any number of attempts and *)
(* volumes and whatever the engine still does for clients that are gone.   *)
(***************************************************************************)
EXTENDS ContainerRuntime, TLAPS

Alive == {a \in Attempts : container[Script(a)] = "running"}
Promise == CleanupInv' /\ [Contract!Next]_(Contract!vars)

\* The container of an attempt is nobody else's.
LEMMA ScriptNames ==
  /\ \A a \in Attempts : Script(a) \in Containers
  /\ \A a, b : Script(a) = Script(b) => a = b
  /\ \A a, v : Script(a) # Keeper(v) /\ Script(a) # Importer(v)
  /\ \A a : Script(a) \notin Helpers
BY DEF Script, Keeper, Importer, Helpers, Containers

-----------------------------------------------------------------------------
(* What a step may do to the scripts.                                      *)

Typed ==
  /\ container \in [Containers -> {"absent", "stopped", "running"}]
  /\ pending \in [Containers -> {"no", "create", "start"}]

\* Nothing becomes active.
Calm ==
  /\ Typed'
  /\ \A a \in Attempts :
       /\ (pending[Script(a)] = "start" => container[Script(a)] = "stopped")'
       /\ Active(a)' => Active(a)

\* What the executor knows of its scripts stays the same.
Steady ==
  /\ cleanupErr' = cleanupErr /\ checked' = checked
  /\ (pc \in {"running", "remove"}) = (pc' \in {"running", "remove"})
  /\ pc \in {"running", "remove"} => attempt' = attempt
  /\ pc' \notin {"ready", "reconcile", "verify"} => pc \notin {"ready", "reconcile", "verify"}

\* A list that does not show a container says that it will not start either.
LEMMA CleanIsQuiet ==
  ASSUME CleanupInv, State = "clean"
  PROVE  \A a \in Attempts : ~Active(a)
BY DEF CleanupInv

LEMMA CalmSteady ==
  ASSUME CleanupInv, Calm, Steady
  PROVE  Promise
<1>1. State' = State /\ State \in {"clean", "busy", "dirty"}
  BY DEF Steady, State
<1>2. CleanupInv'
  BY <1>1 DEF CleanupInv, Calm, Typed, Steady, State
<1>3. CASE State = "clean"
  <2>1. Alive = {} /\ Alive' = {}
    BY <1>3, CleanIsQuiet DEF Calm, Active, Alive
  <2> QED BY <1>1, <1>2, <2>1 DEF Promise, Contract!vars, Alive
<1>4. CASE State # "clean"
  <2>1. Alive' \in SUBSET Attempts
    BY DEF Alive
  <2> QED BY <1>1, <1>2, <1>4, <2>1 DEF Promise, Contract!Next, Contract!Change, Alive
<1> QED BY <1>3, <1>4

\* The executor begins to doubt, or not, and the engine does nothing.
LEMMA Doubts ==
  ASSUME CleanupInv, UNCHANGED <<container, pending>>, cleanupErr' \in BOOLEAN,
         checked' \in BOOLEAN, pc' \notin {"running", "remove"},
         pc' \notin {"ready", "reconcile", "verify"} => checked',
         State' = "dirty" \/ (State' = State /\ State # "busy")
  PROVE  Promise
<1>1. State \in {"clean", "busy", "dirty"}
  BY DEF State
<1>2. \A a \in Attempts : Active(a)' <=> Active(a)
  BY DEF Active
<1>3. CleanupInv'
  BY <1>2 DEF CleanupInv
<1>4. Alive' = Alive
  BY DEF Alive
<1> QED BY <1>1, <1>3, <1>4 DEF Promise, Contract!Next, Contract!Doubt, Contract!vars, Alive

\* docker run of a keeper or importer, answered or not, concerns no script.
LEMMA HelperRuns ==
  ASSUME CleanupInv, NEW c, \A a \in Attempts : c # Script(a), NEW vs,
         Run(c, vs) \/ RunFails(c, vs)
  PROVE  Calm
<1>1. Typed'
  BY DEF Typed, CleanupInv, Run, RunFails, Becomes
<1>2. ASSUME NEW a \in Attempts
      PROVE  container'[Script(a)] = container[Script(a)] /\ pending'[Script(a)] = pending[Script(a)]
  BY ScriptNames DEF CleanupInv, Run, RunFails, Becomes
<1> QED BY <1>1, <1>2 DEF Calm, CleanupInv, Active

\* docker rm, whatever comes of it, leaves no start behind where it removed.
LEMMA AskIsCalm ==
  ASSUME CleanupInv, NEW c, Ask(c)
  PROVE  Calm
<1>1. Typed'
  BY DEF Typed, CleanupInv, Ask, Becomes
<1>2. ASSUME NEW a \in Attempts
      PROVE  \/ /\ container'[Script(a)] = container[Script(a)]
                /\ pending'[Script(a)] = pending[Script(a)]
             \/ container'[Script(a)] = "absent" /\ pending'[Script(a)] # "start"
  BY ScriptNames DEF CleanupInv, Ask, Becomes
<1> QED BY <1>1, <1>2 DEF Calm, CleanupInv, Active

LEMMA StillIsCalm ==
  ASSUME CleanupInv, UNCHANGED <<container, pending>>
  PROVE  Calm
BY DEF CleanupInv, Calm, Typed, Active

-----------------------------------------------------------------------------
(* The steps.                                                              *)

\* What the engine does on its own makes no script active that was not.
LEMMA EngineKeeps ==
  ASSUME CleanupInv, Engine
  PROVE  Promise
<1>1. UNCHANGED executor
  BY DEF Engine, EngineCreates, EngineStarts, EngineForgets, HelperDies, EngineCreatesVolume,
         ScriptEnds
<1>2. Steady
  BY <1>1 DEF executor, Steady
<1>3. ASSUME NEW c \in Containers, EngineCreates(c) \/ EngineStarts(c) \/ EngineForgets(c)
                                     \/ HelperDies(c)
      PROVE  Calm
  <2>1. Typed'
    BY <1>3 DEF CleanupInv, Typed, EngineCreates, EngineStarts, EngineForgets, HelperDies,
                Becomes
  <2>2. ASSUME NEW a \in Attempts
        PROVE  /\ (pending[Script(a)] = "start" => container[Script(a)] = "stopped")'
               /\ Active(a)' => Active(a)
    <3>1. CASE c = Script(a)
      BY <1>3, <3>1, ScriptNames DEF CleanupInv, EngineCreates, EngineStarts, EngineForgets,
         HelperDies, Becomes, Active
    <3>2. CASE c # Script(a)
      BY <1>3, <3>2, ScriptNames DEF CleanupInv, EngineCreates, EngineStarts, EngineForgets,
         HelperDies, Becomes, Active
    <3> QED BY <3>1, <3>2
  <2> QED BY <2>1, <2>2 DEF Calm
<1>4. ASSUME NEW v \in Volumes, EngineCreatesVolume(v) PROVE Calm
  BY <1>4, StillIsCalm DEF EngineCreatesVolume
<1>5. ASSUME NEW b \in Attempts, ScriptEnds(b) PROVE Calm
  BY <1>5, ScriptNames DEF ScriptEnds, Becomes, Calm, CleanupInv, Typed, Active
<1> QED BY <1>2, <1>3, <1>4, <1>5, CalmSteady DEF Engine

\* Ready: a container it may have missed makes it fail, and only a list that shows
\* nothing makes the executor usable again.
LEMMA ReconcilesKeep ==
  ASSUME CleanupInv, Reconciles
  PROVE  Promise
<1>1. CASE ReadyUnavailable \/ ReadyLists \/ ReadyCleansVolumes
  <2>1. Steady /\ UNCHANGED <<container, pending>>
    BY <1>1 DEF ReadyUnavailable, ReadyLists, ReadyCleansVolumes, Steady, executor, engine
  <2> QED BY <2>1, StillIsCalm, CalmSteady
<1>2. ASSUME NEW c \in Containers, ReadyAsks(c) \/ ReadyRemoved(c) PROVE Promise
  <2>1. Steady
    BY <1>2 DEF ReadyAsks, ReadyRemoved, Steady
  <2>2. Calm
    BY <1>2, AskIsCalm, StillIsCalm DEF ReadyAsks, ReadyRemoved, engine
  <2> QED BY <2>1, <2>2, CalmSteady
<1>3. CASE (\E c \in Containers : ReadyUnremoved(c)) \/ ReadyVolumesFail \/ ReadyLeftover
  <2>1. ReadyFails /\ UNCHANGED <<container, pending>>
    BY <1>3 DEF ReadyUnremoved, ReadyVolumesFail, ReadyLeftover, engine
  <2>2. State' = "dirty"
    BY <2>1 DEF ReadyFails, State
  <2> QED BY <2>1, <2>2, Doubts DEF ReadyFails, CleanupInv
<1>4. CASE ReadyVerified
  <2>1. /\ pc = "verify" /\ pc' = "claim" /\ ~cleanupErr' /\ checked'
        /\ UNCHANGED <<container, pending>> /\ cleanupErr' \in BOOLEAN /\ checked' \in BOOLEAN
    BY <1>4 DEF ReadyVerified, engine
  <2>2. State' = "clean" /\ State \in {"clean", "dirty"}
    BY <2>1 DEF State
  <2>3. \A a \in Attempts : ~Active(a)
    BY <1>4, ScriptNames DEF ReadyVerified, Owned, CleanupInv, Active
  <2>4. Alive = {} /\ Alive' = Alive
    BY <2>1, <2>3 DEF Alive, Active
  <2>5. CleanupInv'
    BY <2>1, <2>2, <2>3 DEF CleanupInv, Active
  <2> QED
    BY <2>2, <2>4, <2>5 DEF Promise, Contract!Next, Contract!Confirm, Contract!vars, Alive
<1> QED BY <1>1, <1>2, <1>3, <1>4 DEF Reconciles

\* newStage and its failures: helpers come and go, the scripts are as they were.
LEMMA StagesKeep ==
  ASSUME CleanupInv, Stages
  PROVE  Promise
<1>1. Steady
  BY DEF Stages, Idle, ClaimUnstaged, NoArtifact, CreateVolume, CreateVolumeFails,
         StartReceiver, StartReceiverFails, Import, ImportFails, StartKeeper,
         StartKeeperFails, AskImporter, HandedOver, HandoverFails, NewStage,
         NewArtifactStage, Goes, BuildFails, Steady
<1>2. CASE \/ Idle \/ ClaimUnstaged \/ NoArtifact \/ CreateVolume \/ CreateVolumeFails
           \/ Import \/ ImportFails \/ HandedOver \/ HandoverFails
           \/ \E v \in Volumes : NewStage(v) \/ NewArtifactStage(v)
  <2>1. UNCHANGED <<container, pending>>
    BY <1>2 DEF Idle, ClaimUnstaged, NoArtifact, CreateVolume, CreateVolumeFails, Import,
                ImportFails, HandedOver, HandoverFails, NewStage, NewArtifactStage,
                Confirmed, Unconfirmed, engine
  <2> QED BY <1>1, <2>1, StillIsCalm, CalmSteady
<1>3. CASE StartReceiver \/ StartReceiverFails \/ StartKeeper \/ StartKeeperFails
  <2>1. \A a \in Attempts : Receiver # Script(a) /\ Keeper(Building) # Script(a)
    BY ScriptNames DEF Receiver
  <2>2. Calm
    BY <1>3, <2>1, HelperRuns
       DEF StartReceiver, StartReceiverFails, StartKeeper, StartKeeperFails
  <2> QED BY <1>1, <2>2, CalmSteady
<1>4. CASE AskImporter
  BY <1>1, <1>4, AskIsCalm, CalmSteady DEF AskImporter
<1> QED BY <1>2, <1>3, <1>4 DEF Stages

\* Closing a stage: a helper or a volume that remains makes the executor doubt.
LEMMA CleansKeep ==
  ASSUME CleanupInv, Cleans
  PROVE  Promise
<1>1. CASE Exported \/ ExportFails \/ Close \/ CloseConfirms \/ ClaimEnds
  <2>1. UNCHANGED <<container, pending>>
    BY <1>1 DEF Exported, ExportFails, Close, CloseConfirms, ClaimEnds, Confirmed,
                Unconfirmed, engine
  <2>2. Steady
    BY <1>1 DEF Exported, ExportFails, Close, CloseConfirms, ClaimEnds, Closes, Steady
  <2> QED BY <2>1, <2>2, StillIsCalm, CalmSteady
<1>2. CASE CloseAsks
  <2>1. Steady
    BY <1>2 DEF CloseAsks, Steady
  <2> QED BY <1>2, <2>1, AskIsCalm, CalmSteady DEF CloseAsks
<1>3. CASE CloseVolume \/ CloseVolumeFails
  <2>1. /\ pc = "closeVolume" /\ pc' = "close" /\ checked' = checked
        /\ UNCHANGED <<container, pending>>
        /\ cleanupErr' = TRUE \/ cleanupErr' = (cleanupErr \/ closeErr)
    BY <1>3 DEF CloseVolume, CloseVolumeFails, CloseEnds
  <2>2. cleanupErr' \in BOOLEAN /\ (cleanupErr => cleanupErr')
    BY <2>1, Zenon DEF CleanupInv
  <2>3. State' = "dirty" \/ (State' = State /\ State # "busy")
    BY <2>1, <2>2 DEF State
  <2>4. checked' \in BOOLEAN /\ checked'
    BY <2>1 DEF CleanupInv
  <2> QED BY <2>1, <2>2, <2>3, <2>4, Doubts
<1> QED BY <1>1, <1>2, <1>3 DEF Cleans

\* runAttempt: only its own container may run, and it is "clean" again only when a
\* list no longer shows that one.
LEMMA ExecutesKeep ==
  ASSUME CleanupInv, Executes
  PROVE  Promise
<1>1. CASE AttemptRefused \/ Exited \/ Interrupted \/ NextAttempt \/ StepsFail \/ StepsSucceed
  <2>1. Steady /\ UNCHANGED <<container, pending>>
    BY <1>1 DEF AttemptRefused, Exited, Interrupted, NextAttempt, StepsFail, StepsSucceed,
                Closes, Steady, engine
  <2> QED BY <2>1, StillIsCalm, CalmSteady
<1>2. CASE AskAttempt
  <2>1. Steady
    BY <1>2 DEF AskAttempt, Steady
  <2> QED BY <1>2, <2>1, AskIsCalm, CalmSteady DEF AskAttempt
<1>3. CASE AttemptRemoved
  <2>1. /\ pc = "remove" /\ pc' = "verdict" /\ container[Script(attempt)] = "absent"
        /\ UNCHANGED <<container, pending, cleanupErr, checked>>
    BY <1>3 DEF AttemptRemoved, Confirmed, engine
  <2>2. State = "busy" /\ State' = "clean"
    BY <2>1 DEF State, CleanupInv
  <2>3. \A a \in Attempts : ~Active(a)
    BY <2>1, <2>2 DEF CleanupInv, Active
  <2>4. Alive = {} /\ Alive' = Alive
    BY <2>1, <2>3 DEF Alive, Active
  <2>5. CleanupInv'
    BY <2>1, <2>3 DEF CleanupInv, Active
  <2> QED BY <2>2, <2>4, <2>5 DEF Promise, Contract!Next, Contract!Confirm, Alive
<1>4. CASE AttemptUnremoved
  <2>1. /\ pc = "remove" /\ pc' = "verdict" /\ cleanupErr' = TRUE /\ checked' = checked
        /\ UNCHANGED <<container, pending>>
    BY <1>4 DEF AttemptUnremoved, Unconfirmed, engine
  <2>2. State' = "dirty" /\ checked' \in BOOLEAN /\ checked'
    BY <2>1 DEF State, CleanupInv
  <2> QED BY <2>1, <2>2, Doubts
<1>5. ASSUME NEW a \in Attempts, Launch(a) \/ LaunchFails(a) PROVE Promise
  <2>1. /\ pc = "attempt" /\ ~cleanupErr /\ UNCHANGED <<cleanupErr, checked>>
        /\ pc' \in {"running", "remove"} /\ attempt' = a
        /\ container[Script(a)] = "absent" /\ pending[Script(a)] = "no"
        /\ Run(Script(a), JobVolumes) \/ RunFails(Script(a), JobVolumes)
    BY <1>5 DEF Launch, LaunchFails, Usable, FreshAttempt
  <2>2. State = "clean" /\ State' = "busy"
    BY <2>1 DEF State, CleanupInv
  <2>3. Typed'
    BY <2>1 DEF Typed, CleanupInv, Run, RunFails, Becomes
  <2>4. \A b \in Attempts : b # a => container'[Script(b)] = container[Script(b)]
                                     /\ pending'[Script(b)] = pending[Script(b)]
    BY <2>1, ScriptNames DEF CleanupInv, Run, RunFails, Becomes
  <2>5. pending'[Script(a)] = "start" => container'[Script(a)] = "stopped"
    BY <2>1, ScriptNames DEF CleanupInv, Run, RunFails, Becomes
  <2>6. \A b \in Attempts : b # a => ~Active(b)'
    BY <2>2, <2>4, CleanIsQuiet DEF Active
  <2>7. CleanupInv'
    BY <2>1, <2>2, <2>3, <2>4, <2>5, <2>6 DEF CleanupInv, Typed
  <2>8. Alive' \in SUBSET Attempts
    BY DEF Alive
  <2> QED BY <2>2, <2>7, <2>8 DEF Promise, Contract!Next, Contract!Begin, Alive
<1> QED BY <1>1, <1>2, <1>3, <1>4, <1>5 DEF Executes

\* A restart forgets what was confirmed.
LEMMA CrashKeeps ==
  ASSUME CleanupInv, Crash
  PROVE  Promise
<1>1. /\ pc' = "ready" /\ cleanupErr' = FALSE /\ checked' = FALSE
      /\ UNCHANGED <<container, pending>>
  BY DEF Crash, engine
<1>2. State' = "dirty"
  BY <1>1 DEF State
<1> QED BY <1>1, <1>2, Doubts

-----------------------------------------------------------------------------
(* The theorems.                                                           *)

LEMMA InitKeeps == Init => CleanupInv /\ Contract!Init
<1> SUFFICES ASSUME Init PROVE CleanupInv /\ Contract!Init
  OBVIOUS
<1>1. pc = "ready" /\ cleanupErr = FALSE /\ checked = FALSE
  BY DEF Init
<1>2. Typed
  BY DEF Init, Typed
<1>3. \A a \in Attempts : container[Script(a)] = "absent" /\ pending[Script(a)] = "no"
  BY ScriptNames DEF Init
<1>4. State = "dirty"
  BY <1>1 DEF State
<1>5. CleanupInv
  BY <1>1, <1>2, <1>3 DEF CleanupInv, Typed, Active
<1> QED BY <1>3, <1>4, <1>5 DEF Contract!Init

LEMMA NextKeeps == CleanupInv /\ [Next]_vars => Promise
<1> SUFFICES ASSUME CleanupInv, [Next]_vars PROVE Promise
  OBVIOUS
<1>1. CASE UNCHANGED vars
  <2>1. Steady /\ UNCHANGED <<container, pending>>
    BY <1>1 DEF vars, executor, engine, Steady
  <2> QED BY <2>1, StillIsCalm, CalmSteady
<1> QED
  BY <1>1, EngineKeeps, ReconcilesKeep, StagesKeep, ExecutesKeep, CleansKeep, CrashKeeps
     DEF Next, Agent

\* A container that runs, or may still be started for a client that is gone, is the
\* one runAttempt waits for, or the executor refuses to start another.
THEOREM CleanupInvariant == Spec => []CleanupInv
<1>1. CleanupInv /\ [Next]_vars => CleanupInv'
  BY NextKeeps DEF Promise
<1> QED BY InitKeeps, <1>1, PTL DEF Spec

\* runAttempt, Close and Ready keep the promise of CleanupContract: no script runs
\* after a nil error, and after a doubt none starts before a Ready that found none.
THEOREM Implementation == Spec => ImplementsCleanup
<1>1. CleanupInv /\ [Next]_vars => [Contract!Next]_(Contract!vars)
  BY NextKeeps DEF Promise
<1> QED BY InitKeeps, <1>1, CleanupInvariant, PTL DEF Spec, ImplementsCleanup, Contract!Spec

-----------------------------------------------------------------------------
(* The stages.                                                             *)

\* No two containers share a name.
LEMMA HelperNames ==
  /\ \A v \in Volumes : Keeper(v) \in Containers /\ Importer(v) \in Containers
  /\ \A a \in Attempts : Script(a) \in Containers
  /\ \A v, w : Keeper(v) # Importer(w)
  /\ \A v, w : (Keeper(v) = Keeper(w) => v = w) /\ (Importer(v) = Importer(w) => v = w)
  /\ \A v, a : Keeper(v) # Script(a) /\ Importer(v) # Script(a)
BY DEF Keeper, Importer, Script, Helpers, Containers

\* executeClaim closes every stage of the claim.
LEMMA ClaimedListed ==
  ASSUME RegisteredIsClaimed
  PROVE  /\ Claimed \in Seq(Volumes)
         /\ \A v \in Volumes : v \in {claim.stage, claim.package} => \E i \in 1 .. Len(Claimed) : Claimed[i] = v
BY NoNameAssumption DEF Claimed, Closing, RegisteredIsClaimed

\* What is added in front hides nothing of a sequence.
LEMMA PushListed ==
  ASSUME NEW s \in Seq(Volumes), NEW u \in Volumes
  PROVE  /\ <<u>> \o s \in Seq(Volumes)
         /\ \A v : (\E i \in 1 .. Len(s) : s[i] = v) => \E i \in 1 .. Len(<<u>> \o s) : (<<u>> \o s)[i] = v
<1>1. /\ <<u>> \o s \in Seq(Volumes) /\ Len(<<u>> \o s) = Len(s) + 1
      /\ \A i \in 1 .. Len(s) : (<<u>> \o s)[i + 1] = s[i]
  OBVIOUS
<1>2. \A i \in 1 .. Len(s) : i + 1 \in 1 .. Len(<<u>> \o s)
  BY <1>1
<1> QED BY <1>1, <1>2

\* Without its head a sequence still has everything else.
LEMMA TailListed ==
  ASSUME NEW s \in Seq(Volumes), s # <<>>
  PROVE  /\ Tail(s) \in Seq(Volumes) /\ Head(s) \in Volumes
         /\ \A v : v # Head(s) /\ (\E i \in 1 .. Len(s) : s[i] = v) => \E i \in 1 .. Len(Tail(s)) : Tail(s)[i] = v
<1>1. /\ Len(Tail(s)) = Len(s) - 1 /\ Head(s) = s[1]
      /\ \A i \in 1 .. Len(Tail(s)) : Tail(s)[i] = s[i + 1]
  OBVIOUS
<1>2. ASSUME NEW v, v # Head(s), NEW i \in 1 .. Len(s), s[i] = v
      PROVE  \E j \in 1 .. Len(Tail(s)) : Tail(s)[j] = v
  <2>1. i - 1 \in 1 .. Len(Tail(s)) /\ (i - 1) + 1 = i
    BY <1>1, <1>2
  <2> QED BY <1>1, <1>2, <2>1
<1>3. Tail(s) \in Seq(Volumes) /\ Head(s) \in Volumes
  OBVIOUS
<1> QED BY <1>2, <1>3

\* A volume that a running container mounts keeps its contents.
LEMMA MountedKeeps ==
  ASSUME NEW d, NEW c \in Containers, NEW v \in Volumes, container'[c] = "running", v \in mounts'[c]
  PROVE  Mounted(d)[v] = d[v]
BY DEF Mounted

\* Its contents are ones a volume can have.
LEMMA MountedTyped ==
  ASSUME NEW d \in [Volumes -> {"none", "part", "whole"}]
  PROVE  Mounted(d) \in [Volumes -> {"none", "part", "whole"}]
BY DEF Mounted

\* A registered volume is one of the claim's two.
LEMMA RegisteredIsOurs ==
  ASSUME StageInv, NEW v \in Volumes, stages[v] # "none"
  PROVE  v \in {claim.stage, claim.package}
<1>1. stages[v] \in {"none", "writable", "readOnly"}
  BY DEF StageInv, RegisteredIsClaimed
<1>2. /\ stages[v] = "writable" => v = claim.stage
      /\ stages[v] = "readOnly" => v = claim.package
  BY DEF StageInv, RegisteredIsClaimed
<1> QED BY <1>1, <1>2

\* What is being made is a volume of the claim that is not registered.
LEMMA Built ==
  ASSUME StageInv, pc \in Making
  PROVE  /\ Building \in Volumes /\ Building \in {claim.stage, claim.package}
         /\ \A v \in Volumes : stages[v] # "none" => v # Building
BY DEF StageInv, RegisteredIsClaimed, BuildingIsHeld, Building, Packaging

\* When newStage fails, everything registered is closed.
LEMMA BuildFailsKeeps ==
  ASSUME StageInv, pc \in Making, BuildFails
  PROVE  RegisteredIsClaimed'
<1>1. /\ closing' = <<Building>> \o Claimed /\ pc' = "close"
      /\ UNCHANGED <<stages, claim>>
  BY DEF BuildFails
<1>2. Claimed \in Seq(Volumes) /\ Building \in Volumes
  BY ClaimedListed, Built DEF StageInv
<1>3. closing' \in Seq(Volumes)
  BY <1>1, <1>2
<1>4. ASSUME NEW v \in Volumes, stages[v] # "none"
      PROVE  \E i \in 1 .. Len(closing') : closing'[i] = v
  <2>1. v \in {claim.stage, claim.package}
    BY <1>4, RegisteredIsOurs
  <2>2. \E i \in 1 .. Len(Claimed) : Claimed[i] = v
    BY <2>1, ClaimedListed DEF StageInv
  <2> QED BY <1>1, <1>2, <2>2, PushListed
<1> QED BY <1>1, <1>3, <1>4 DEF RegisteredIsClaimed, StageInv

\* So it is when the steps or Export are over.
LEMMA ClosesKeeps ==
  ASSUME StageInv, Closes, UNCHANGED <<stages, claim>>
  PROVE  RegisteredIsClaimed'
<1>1. closing' = Claimed /\ pc' = "close"
  BY DEF Closes
<1>2. Claimed \in Seq(Volumes)
  BY ClaimedListed DEF StageInv
<1>3. ASSUME NEW v \in Volumes, stages[v] # "none"
      PROVE  \E i \in 1 .. Len(closing') : closing'[i] = v
  <2>1. v \in {claim.stage, claim.package}
    BY <1>3, RegisteredIsOurs
  <2> QED BY <1>1, <2>1, ClaimedListed DEF StageInv
<1> QED BY <1>1, <1>2, <1>3 DEF RegisteredIsClaimed, StageInv

\* Close goes on with the stages that are left.
LEMMA CloseEndsKeeps ==
  ASSUME StageInv, pc = "closeVolume", NEW err, CloseEnds(err)
  PROVE  RegisteredIsClaimed'
<1>1. /\ closing' = Tail(closing) /\ pc' = "close" /\ UNCHANGED <<stages, claim>>
  BY DEF CloseEnds
<1>2. closing \in Seq(Volumes) /\ closing # <<>> /\ stages[Head(closing)] = "none"
  BY DEF StageInv, RegisteredIsClaimed
<1>3. ASSUME NEW v \in Volumes, stages[v] # "none"
      PROVE  \E i \in 1 .. Len(closing') : closing'[i] = v
  <2>1. (\E i \in 1 .. Len(closing) : closing[i] = v) /\ v # Head(closing)
    BY <1>2, <1>3 DEF StageInv, RegisteredIsClaimed
  <2> QED BY <1>1, <1>2, <2>1, TailListed
<1>4. closing' \in Seq(Volumes)
  BY <1>1, <1>2
<1> QED BY <1>1, <1>3, <1>4 DEF RegisteredIsClaimed, StageInv

\* What is registered stays held while its helpers are left alone.
LEMMA HeldStays ==
  ASSUME StageInv, UNCHANGED <<stages, lost>>, data' \in {data, Mounted(data)},
         \A v \in Volumes : stages[v] # "none" =>
           /\ container'[Keeper(v)] = container[Keeper(v)]
           /\ pending'[Keeper(v)] = pending[Keeper(v)] /\ mounts'[Keeper(v)] = mounts[Keeper(v)]
           /\ stages[v] = "readOnly" => Untouched(Importer(v))'
  PROVE  RegisteredIsHeld'
<1> SUFFICES ASSUME NEW v \in Volumes, stages[v] # "none"
             PROVE  /\ container'[Keeper(v)] # "absent" /\ pending'[Keeper(v)] = "no"
                    /\ v \in lost \/ (data'[v] = "whole" /\ container'[Keeper(v)] = "running")
                    /\ stages[v] = "writable" /\ container'[Keeper(v)] = "running" => data'[v] = "whole"
                    /\ stages[v] = "readOnly" => Untouched(Importer(v))'
  BY DEF RegisteredIsHeld
<1>1. /\ container[Keeper(v)] # "absent" /\ pending[Keeper(v)] = "no"
      /\ v \in lost \/ (data[v] = "whole" /\ container[Keeper(v)] = "running")
      /\ stages[v] = "writable" /\ container[Keeper(v)] = "running" => data[v] = "whole"
  BY DEF StageInv, RegisteredIsHeld
<1>2. mounts'[Keeper(v)] = {v}
  <2>1. ~Untouched(Keeper(v)) => mounts[Keeper(v)] = {v}
    BY DEF StageInv, HelpersMountTheirs
  <2> QED BY <1>1, <2>1 DEF Untouched
<1>3. container'[Keeper(v)] = "running" => data'[v] = data[v]
  BY <1>2, MountedKeeps, HelperNames
<1> QED BY <1>1, <1>3

\* docker run of another container leaves what is registered held.
LEMMA StartHolds ==
  ASSUME StageInv, NEW c \in Containers, NEW vs, Run(c, vs) \/ RunFails(c, vs), UNCHANGED stages,
         \A v \in Volumes : stages[v] # "none" =>
           c # Keeper(v) /\ (stages[v] = "readOnly" => c # Importer(v))
  PROVE  RegisteredIsHeld'
<1>1. UNCHANGED lost /\ data' = Mounted(data)
  BY DEF Run, RunFails
<1>2. ASSUME NEW x \in Containers, x # c
      PROVE  /\ container'[x] = container[x] /\ pending'[x] = pending[x]
             /\ mounts'[x] = mounts[x]
  BY <1>2 DEF Run, RunFails, Becomes, StageInv, HelpersMountTheirs
<1>3. ASSUME NEW v \in Volumes, stages[v] = "readOnly"
      PROVE  Untouched(Importer(v))'
  <2>1. Untouched(Importer(v)) /\ Importer(v) # c
    BY <1>3 DEF StageInv, RegisteredIsHeld
  <2> QED BY <1>2, <2>1, HelperNames DEF Untouched
<1> QED BY <1>1, <1>2, <1>3, HeldStays, HelperNames

\* So does docker rm of one that is no keeper of a registered stage.
LEMMA AskHolds ==
  ASSUME StageInv, NEW c, Ask(c), UNCHANGED stages,
         \A v \in Volumes : stages[v] # "none" => c # Keeper(v)
  PROVE  RegisteredIsHeld'
<1>1. UNCHANGED lost /\ data' \in {data, Mounted(data)}
  BY DEF Ask
<1>2. ASSUME NEW x \in Containers
      PROVE  /\ x # c => /\ container'[x] = container[x] /\ pending'[x] = pending[x]
                         /\ mounts'[x] = mounts[x]
             /\ Untouched(x) => Untouched(x)'
  BY <1>2 DEF Ask, Becomes, StageInv, HelpersMountTheirs, Untouched
<1>3. ASSUME NEW v \in Volumes, stages[v] = "readOnly"
      PROVE  Untouched(Importer(v))'
  BY <1>2, <1>3, HelperNames DEF StageInv, RegisteredIsHeld
<1> QED BY <1>1, <1>2, <1>3, HeldStays, HelperNames

\* docker run of a helper mounts the helper's volume, answered or not.
LEMMA StartMounts ==
  ASSUME StageInv, NEW v \in Volumes, NEW c \in {Keeper(v), Importer(v)},
         Run(c, {v}) \/ RunFails(c, {v})
  PROVE  HelpersMountTheirs'
<1>1. c \in Containers
  BY HelperNames
<1>2. /\ mounts' \in [Containers -> SUBSET Volumes]
      /\ container' \in [Containers -> {"absent", "stopped", "running"}]
      /\ pending' \in [Containers -> {"no", "create", "start"}]
  BY <1>1 DEF Run, RunFails, Becomes, StageInv, HelpersMountTheirs
<1>3. data' \in [Volumes -> {"none", "part", "whole"}]
  BY MountedTyped DEF Run, RunFails, StageInv, HelpersMountTheirs
<1>4. ASSUME NEW x \in Containers, ~Untouched(x)', NEW w \in Volumes,
             x \in {Keeper(w), Importer(w)}, ~Untouched(x) => mounts[x] = {w}
      PROVE  mounts'[x] = {w}
  <2>1. CASE x = c
    <3>1. w = v
      BY <1>4, <2>1, HelperNames
    <3>2. mounts'[c] = {v} \/ UNCHANGED <<container, mounts, pending>>
      BY <1>1 DEF Run, RunFails, StageInv, HelpersMountTheirs
    <3> QED BY <1>4, <2>1, <3>1, <3>2 DEF Untouched
  <2>2. CASE x # c
    BY <1>4, <2>2, <1>1 DEF Run, RunFails, Becomes, Untouched, StageInv, HelpersMountTheirs
  <2> QED BY <2>1, <2>2
<1> QED BY <1>2, <1>3, <1>4, HelperNames DEF StageInv, HelpersMountTheirs

\* docker rm makes no container mount anything else.
LEMMA AskMounts ==
  ASSUME StageInv, NEW c \in Containers, Ask(c)
  PROVE  HelpersMountTheirs'
<1>1. /\ mounts' \in [Containers -> SUBSET Volumes]
      /\ container' \in [Containers -> {"absent", "stopped", "running"}]
      /\ pending' \in [Containers -> {"no", "create", "start"}]
  BY DEF Ask, Becomes, StageInv, HelpersMountTheirs
<1>2. data' \in [Volumes -> {"none", "part", "whole"}]
  BY MountedTyped DEF Ask, StageInv, HelpersMountTheirs
<1>3. ASSUME NEW x \in Containers, ~Untouched(x)'
      PROVE  ~Untouched(x) /\ mounts'[x] = mounts[x]
  BY <1>3 DEF Ask, Becomes, Untouched, StageInv, HelpersMountTheirs
<1> QED BY <1>1, <1>2, <1>3, HelperNames DEF StageInv, HelpersMountTheirs

-----------------------------------------------------------------------------
(* What each step does to them.                                            *)

USE DEF StageInv, HelpersMountTheirs, RegisteredIsClaimed, RegisteredIsHeld, BuildingIsHeld,
        ExportDescends, Untouched, Making, executor, engine

\* Ready touches no registered stage: there is none.
LEMMA ReconcilesHold == ASSUME StageInv, Reconciles PROVE StageInv'
<1>1. CASE ReadyUnavailable
  BY <1>1 DEF ReadyUnavailable
<1>2. CASE ReadyLists
  BY <1>2 DEF ReadyLists
<1>3. CASE ReadyCleansVolumes
  BY <1>3 DEF ReadyCleansVolumes
<1>4. CASE ReadyVolumesFail
  BY <1>4 DEF ReadyVolumesFail, ReadyFails
<1>5. CASE ReadyVerified
  BY <1>5 DEF ReadyVerified
<1>6. CASE ReadyLeftover
  BY <1>6 DEF ReadyLeftover, ReadyFails
<1>7. ASSUME NEW c \in Containers, ReadyAsks(c) PROVE StageInv'
  <2>1. HelpersMountTheirs'
    BY <1>7, AskMounts DEF ReadyAsks
  <2>2. RegisteredIsClaimed' /\ RegisteredIsHeld' /\ BuildingIsHeld' /\ ExportDescends'
    BY <1>7 DEF ReadyAsks, Ask
  <2> QED BY <2>1, <2>2
<1>8. ASSUME NEW c \in Containers, ReadyRemoved(c) PROVE StageInv'
  BY <1>8 DEF ReadyRemoved
<1>9. ASSUME NEW c \in Containers, ReadyUnremoved(c) PROVE StageInv'
  BY <1>9 DEF ReadyUnremoved, ReadyFails
<1> QED BY <1>1, <1>2, <1>3, <1>4, <1>5, <1>6, <1>7, <1>8, <1>9 DEF Reconciles

\* newStage registers a stage once it is held and whole.
LEMMA StagesHold == ASSUME StageInv, Stages PROVE StageInv'
<1>1. CASE Idle
  BY <1>1 DEF Idle, Goes
<1>2. CASE ClaimUnstaged
  BY <1>2 DEF ClaimUnstaged, Goes
<1>3. CASE NoArtifact
  BY <1>3 DEF NoArtifact, Goes
<1>4. CASE CreateVolume
  BY <1>4 DEF CreateVolume, Goes, Packaging, Building
<1>5. CASE CreateVolumeFails
  <2>1. HelpersMountTheirs' /\ RegisteredIsHeld' /\ BuildingIsHeld' /\ ExportDescends'
    BY <1>5 DEF CreateVolumeFails, BuildFails
  <2>2. RegisteredIsClaimed'
    BY <1>5, BuildFailsKeeps DEF CreateVolumeFails
  <2> QED BY <2>1, <2>2
<1>6. CASE StartReceiver
  <2>1. HelpersMountTheirs'
    BY <1>6, StartMounts, Built DEF StartReceiver, Receiver, Becomes
  <2>2. RegisteredIsClaimed' /\ ExportDescends'
    BY <1>6 DEF StartReceiver, Goes
  <2>3. RegisteredIsHeld'
    BY <1>6, HelperNames, StartHolds, Built DEF StartReceiver, Goes, Receiver
  <2>4. BuildingIsHeld'
    BY <1>6, HelperNames
       DEF StartReceiver, Goes, Run, Packaging, Building, Receiver, Becomes
  <2> QED BY <2>1, <2>2, <2>3, <2>4
<1>7. CASE StartReceiverFails
  <2>1. HelpersMountTheirs'
    BY <1>7, StartMounts, Built DEF StartReceiverFails, Receiver
  <2>2. RegisteredIsClaimed'
    BY <1>7, BuildFailsKeeps DEF StartReceiverFails
  <2>3. RegisteredIsHeld'
    BY <1>7, HelperNames, StartHolds, AskHolds, Built, RegisteredIsOurs
       DEF StartReceiverFails, BuildFails, Receiver
  <2>4. BuildingIsHeld' /\ ExportDescends'
    BY <1>7 DEF StartReceiverFails, BuildFails
  <2> QED BY <2>1, <2>2, <2>3, <2>4
<1>8. CASE Import
  BY <1>8 DEF Import, Packaging, Building, Receiver
<1>9. CASE ImportFails
  <2>1. HelpersMountTheirs' /\ RegisteredIsHeld' /\ BuildingIsHeld' /\ ExportDescends'
    BY <1>9, HelperNames DEF ImportFails, BuildFails, NoFault, NoClaim, Becomes
  <2>2. RegisteredIsClaimed'
    BY <1>9, BuildFailsKeeps DEF ImportFails
  <2> QED BY <2>1, <2>2
<1>10. CASE StartKeeper
  <2>1. HelpersMountTheirs'
    BY <1>10, StartMounts, Built DEF StartKeeper
  <2>2. RegisteredIsClaimed' /\ ExportDescends'
    BY <1>10 DEF StartKeeper, Goes
  <2>3. RegisteredIsHeld'
    BY <1>10, HelperNames, StartHolds, Built DEF StartKeeper, Goes, NoClaim
  <2>4. BuildingIsHeld'
    BY <1>10, HelperNames, MountedKeeps
       DEF StartKeeper, Goes, Run, Becomes, Packaging, Building
  <2> QED BY <2>1, <2>2, <2>3, <2>4
<1>11. CASE StartKeeperFails
  <2>1. HelpersMountTheirs'
    BY <1>11, StartMounts, Built DEF StartKeeperFails
  <2>2. RegisteredIsClaimed'
    BY <1>11, BuildFailsKeeps DEF StartKeeperFails
  <2>3. RegisteredIsHeld'
    BY <1>11, HelperNames, StartHolds, Built
       DEF StartKeeperFails, BuildFails, Fault, NoFault, NoClaim, Becomes
  <2>4. BuildingIsHeld' /\ ExportDescends'
    BY <1>11 DEF StartKeeperFails, BuildFails
  <2> QED BY <2>1, <2>2, <2>3, <2>4
<1>12. CASE AskImporter
  <2>1. HelpersMountTheirs'
    BY <1>12, HelperNames, AskMounts, Built DEF AskImporter
  <2>2. RegisteredIsClaimed' /\ ExportDescends'
    BY <1>12 DEF AskImporter, Ask
  <2>3. RegisteredIsHeld'
    BY <1>12, HelperNames, AskHolds DEF AskImporter
  <2>4. BuildingIsHeld'
    BY <1>12, HelperNames, MountedKeeps DEF AskImporter, Ask, Becomes, Packaging, Building
  <2> QED BY <2>1, <2>2, <2>3, <2>4
<1>13. CASE HandedOver
  BY <1>13 DEF HandedOver, Confirmed, Packaging, Building
<1>14. CASE HandoverFails
  <2>1. HelpersMountTheirs' /\ RegisteredIsHeld' /\ BuildingIsHeld' /\ ExportDescends'
    BY <1>14 DEF HandoverFails, Unconfirmed, BuildFails
  <2>2. RegisteredIsClaimed'
    BY <1>14, BuildFailsKeeps DEF HandoverFails
  <2> QED BY <2>1, <2>2
<1>15. ASSUME NEW v \in Volumes, NewStage(v) PROVE StageInv'
  BY <1>15, HelperNames, NoNameAssumption
     DEF NewStage, FreshVolume, Packaging, Building, NoClaim
<1>16. ASSUME NEW v \in Volumes, NewArtifactStage(v) PROVE StageInv'
  BY <1>16, HelperNames, NoNameAssumption
     DEF NewArtifactStage, FreshVolume, Packaging, Building
<1> QED BY <1>1, <1>2, <1>3, <1>4, <1>5, <1>6, <1>7, <1>8, <1>9, <1>10, <1>11,
       <1>12, <1>13, <1>14, <1>15, <1>16 DEF Stages

\* Attempts mount the stages and change neither.
LEMMA ExecutesHold == ASSUME StageInv, Executes PROVE StageInv'
<1>1. CASE AttemptRefused
  BY <1>1 DEF AttemptRefused
<1>2. CASE Exited
  BY <1>2 DEF Exited
<1>3. CASE Interrupted
  BY <1>3 DEF Interrupted
<1>4. CASE AskAttempt
  <2>1. HelpersMountTheirs'
    BY <1>4, HelperNames, MountedTyped, NoNameAssumption
       DEF AskAttempt, Ask, Becomes, NoClaim
  <2>2. RegisteredIsClaimed' /\ BuildingIsHeld' /\ ExportDescends'
    BY <1>4 DEF AskAttempt, Ask
  <2>3. RegisteredIsHeld'
    BY <1>4, HelperNames, AskHolds DEF AskAttempt
  <2> QED BY <2>1, <2>2, <2>3
<1>5. CASE AttemptRemoved
  BY <1>5 DEF AttemptRemoved, Confirmed
<1>6. CASE AttemptUnremoved
  BY <1>6 DEF AttemptUnremoved, Unconfirmed
<1>7. CASE NextAttempt
  BY <1>7 DEF NextAttempt
<1>8. CASE StepsFail
  <2>1. HelpersMountTheirs' /\ RegisteredIsHeld' /\ BuildingIsHeld' /\ ExportDescends'
    BY <1>8 DEF StepsFail, Closes
  <2>2. RegisteredIsClaimed'
    BY <1>8, ClosesKeeps DEF StepsFail
  <2> QED BY <2>1, <2>2
<1>9. CASE StepsSucceed
  <2>1. HelpersMountTheirs' /\ RegisteredIsHeld' /\ BuildingIsHeld' /\ ExportDescends'
    BY <1>9 DEF StepsSucceed, Closes
  <2>2. RegisteredIsClaimed'
    BY <1>9, ClosesKeeps DEF StepsSucceed
  <2> QED BY <2>1, <2>2
<1>10. ASSUME NEW a \in Attempts, Launch(a) PROVE StageInv'
  <2>1. HelpersMountTheirs'
    BY <1>10, HelperNames, MountedTyped DEF Launch, Run, JobVolumes, Becomes
  <2>2. RegisteredIsClaimed' /\ BuildingIsHeld' /\ ExportDescends'
    BY <1>10 DEF Launch
  <2>3. RegisteredIsHeld'
    BY <1>10, HelperNames, StartHolds DEF Launch
  <2> QED BY <2>1, <2>2, <2>3
<1>11. ASSUME NEW a \in Attempts, LaunchFails(a) PROVE StageInv'
  <2>1. HelpersMountTheirs'
    BY <1>11, HelperNames, MountedTyped, NoNameAssumption
       DEF LaunchFails, RunFails, JobVolumes, Becomes, Fault
  <2>2. RegisteredIsClaimed' /\ BuildingIsHeld' /\ ExportDescends'
    BY <1>11 DEF LaunchFails
  <2>3. RegisteredIsHeld'
    BY <1>11, HelperNames, StartHolds DEF LaunchFails, JobVolumes
  <2> QED BY <2>1, <2>2, <2>3
<1> QED BY <1>1, <1>2, <1>3, <1>4, <1>5, <1>6, <1>7, <1>8, <1>9, <1>10, <1>11 DEF
       Executes

\* Export reads a held stage; Close forgets it before it removes anything.
LEMMA CleansHold == ASSUME StageInv, Cleans PROVE StageInv'
<1>1. CASE Exported
  <2>1. HelpersMountTheirs' /\ RegisteredIsHeld' /\ BuildingIsHeld' /\ ExportDescends'
    BY <1>1 DEF Exported, Closes, NoClaim
  <2>2. RegisteredIsClaimed'
    BY <1>1, ClosesKeeps DEF Exported
  <2> QED BY <2>1, <2>2
<1>2. CASE ExportFails
  <2>1. HelpersMountTheirs' /\ RegisteredIsHeld' /\ BuildingIsHeld' /\ ExportDescends'
    BY <1>2 DEF ExportFails, Closes
  <2>2. RegisteredIsClaimed'
    BY <1>2, ClosesKeeps DEF ExportFails
  <2> QED BY <2>1, <2>2
<1>3. CASE Close
  BY <1>3 DEF Close
<1>4. CASE CloseAsks
  <2>1. HelpersMountTheirs'
    BY <1>4, HelperNames, AskMounts DEF CloseAsks, ClosesHelper
  <2>2. RegisteredIsClaimed' /\ BuildingIsHeld' /\ ExportDescends'
    BY <1>4 DEF CloseAsks, Ask
  <2>3. RegisteredIsHeld'
    BY <1>4, HelperNames, AskHolds DEF CloseAsks, ClosesHelper
  <2> QED BY <2>1, <2>2, <2>3
<1>5. CASE CloseConfirms
  BY <1>5 DEF CloseConfirms, Confirmed, Unconfirmed
<1>6. CASE CloseVolume
  <2>1. HelpersMountTheirs' /\ RegisteredIsHeld' /\ BuildingIsHeld' /\ ExportDescends'
    BY <1>6 DEF CloseVolume, CloseEnds
  <2>2. RegisteredIsClaimed'
    BY <1>6, CloseEndsKeeps DEF CloseVolume
  <2> QED BY <2>1, <2>2
<1>7. CASE CloseVolumeFails
  <2>1. HelpersMountTheirs' /\ RegisteredIsHeld' /\ BuildingIsHeld' /\ ExportDescends'
    BY <1>7 DEF CloseVolumeFails, CloseEnds
  <2>2. RegisteredIsClaimed'
    BY <1>7, CloseEndsKeeps DEF CloseVolumeFails
  <2> QED BY <2>1, <2>2
<1>8. CASE ClaimEnds
  BY <1>8 DEF ClaimEnds, NoClaim
<1> QED BY <1>1, <1>2, <1>3, <1>4, <1>5, <1>6, <1>7, <1>8 DEF Cleans

\* The engine starts no helper again, and what it kills is lost.
LEMMA EngineHolds == ASSUME StageInv, Engine PROVE StageInv'
<1>1. ASSUME NEW c \in Containers, EngineCreates(c) PROVE StageInv'
  BY <1>1 DEF EngineCreates, Packaging, Building, Receiver, Becomes
<1>2. ASSUME NEW c \in Containers, EngineStarts(c) PROVE StageInv'
  BY <1>2 DEF EngineStarts, Packaging, Building, Receiver, Becomes
<1>3. ASSUME NEW c \in Containers, EngineForgets(c) PROVE StageInv'
  BY <1>3 DEF EngineForgets, Packaging, Building, Receiver
<1>4. ASSUME NEW c \in Containers, HelperDies(c) PROVE StageInv'
  <2>1. HelpersMountTheirs' /\ RegisteredIsHeld' /\ BuildingIsHeld'
    BY <1>4, HelperNames, MountedKeeps, MountedTyped
       DEF HelperDies, Becomes, Packaging, Building, Receiver
  <2>2. RegisteredIsClaimed' /\ ExportDescends'
    BY <1>4 DEF HelperDies
  <2> QED BY <2>1, <2>2
<1>5. ASSUME NEW v \in Volumes, EngineCreatesVolume(v) PROVE StageInv'
  BY <1>5 DEF EngineCreatesVolume, Packaging, Building, Receiver
<1>6. ASSUME NEW a \in Attempts, ScriptEnds(a) PROVE StageInv'
  <2>1. HelpersMountTheirs' /\ RegisteredIsHeld' /\ BuildingIsHeld'
    BY <1>6, HelperNames, MountedKeeps, MountedTyped
       DEF ScriptEnds, Becomes, Packaging, Building, Receiver
  <2>2. RegisteredIsClaimed' /\ ExportDescends'
    BY <1>6 DEF ScriptEnds
  <2> QED BY <2>1, <2>2
<1> QED BY <1>1, <1>2, <1>3, <1>4, <1>5, <1>6 DEF Engine

\* A restarted agent has no stage registered.
LEMMA CrashHolds == ASSUME StageInv, Crash PROVE StageInv'
BY DEF Crash, NoClaim

-----------------------------------------------------------------------------
(* The theorems about the stages.                                          *)

\* Before the first Ready nothing is registered.
LEMMA InitHolds == ASSUME Init PROVE StageInv
BY HelperNames DEF Init, NoClaim

\* Every step, and every stuttering step, preserves it.
LEMMA NextHolds == ASSUME StageInv, [Next]_vars PROVE StageInv'
<1>1. CASE UNCHANGED vars
  BY <1>1 DEF vars, Building, Packaging, Receiver
<1> QED BY <1>1, ReconcilesHold, StagesHold, ExecutesHold, CleansHold, EngineHolds, CrashHolds
        DEF Next, Agent

HIDE DEF StageInv, HelpersMountTheirs, RegisteredIsClaimed, RegisteredIsHeld, BuildingIsHeld,
         ExportDescends, Untouched, Making, executor, engine

\* However helpers die and clients fail, a volume is mounted by its helpers, and a
\* registered one is held.
THEOREM StagesInvariant == Spec => []StageInv
BY InitHolds, NextHolds, PTL DEF Spec

\* A registered stage has its whole input while its helpers live, and no importer
\* that could still write a package.
THEOREM InputIsKept == Spec => []StagesKeepInput
<1>1. StageInv => StagesKeepInput
  BY DEF StageInv, RegisteredIsHeld, StagesKeepInput, Untouched
<1> QED BY <1>1, StagesInvariant, PTL

\* Export never hands over a tmpfs that was lost and mounted anew.
THEOREM ExportIsInput == Spec => []ExportDescends
<1>1. StageInv => ExportDescends
  BY DEF StageInv
<1> QED BY <1>1, StagesInvariant, PTL

-----------------------------------------------------------------------------
(* The types.                                                              *)

\* What neither CleanupInv nor StageInv says of the types.
Flags == closeErr \in BOOLEAN /\ failed \in BOOLEAN

Others ==
  /\ pc \in {"ready", "reconcile", "verify", "claim", "create", "receive", "import", "hold",
             "handover", "staged", "attempt", "running", "remove", "verdict", "export",
             "close", "closeImporter", "closeKeeper", "closeVolume"}
  /\ asked \in Containers \cup {NoName} /\ ids \in SUBSET Containers
  /\ attempt \in Attempts \cup {NoName} /\ (pc \in {"running", "remove"} => attempt \in Attempts)
  /\ volume \in [Volumes -> {"absent", "present"}]
  /\ late \in SUBSET Volumes /\ lost \in SUBSET Volumes
  /\ faults \in 0..MaxFaults

\* The stage that Close is at is a volume.
LEMMA ClosedIsVolume ==
  ASSUME StageInv, pc \in {"closeImporter", "closeKeeper", "closeVolume"}
  PROVE  Head(closing) \in Volumes
BY DEF StageInv, RegisteredIsClaimed

USE FaultsAssumption DEF executor, engine, Flags, Others

\* Ready keeps the types.
LEMMA ReconcilesTyped == ASSUME StageInv, Flags, Others, Reconciles PROVE Flags' /\ Others'
<1>1. Flags'
  BY Zenon
     DEF Reconciles, ReadyUnavailable, ReadyLists, ReadyCleansVolumes, ReadyVolumesFail,
         ReadyFails, ReadyVerified, ReadyLeftover, ReadyAsks, ReadyRemoved, ReadyUnremoved
<1>2. Others'
  BY DEF Reconciles, ReadyUnavailable, ReadyLists, Owned, ReadyCleansVolumes,
     ReadyVolumesFail, ReadyFails, ReadyVerified, ReadyLeftover, ReadyAsks, Ask,
     ReadyRemoved, ReadyUnremoved, Fault, NoFault
<1> QED BY <1>1, <1>2

\* newStage keeps the types.
LEMMA StagesTyped == ASSUME StageInv, Flags, Others, Stages PROVE Flags' /\ Others'
<1>1. Flags'
  BY Zenon
     DEF Stages, Idle, Goes, ClaimUnstaged, NoArtifact, CreateVolume, CreateVolumeFails,
         BuildFails, StartReceiver, StartReceiverFails, Import, ImportFails, StartKeeper,
         StartKeeperFails, AskImporter, HandedOver, HandoverFails, NewStage,
         NewArtifactStage
<1>2. Others'
  BY HelperNames, Built
     DEF Making, Stages, Idle, Goes, ClaimUnstaged, NoArtifact, CreateVolume,
         CreateVolumeFails, BuildFails, StartReceiver, Run, StartReceiverFails, RunFails,
         Import, ImportFails, StartKeeper, StartKeeperFails, AskImporter, Ask, HandedOver,
         Confirmed, HandoverFails, Unconfirmed, NewStage, NewArtifactStage, Fault, NoFault
<1> QED BY <1>1, <1>2

\* runAttempt keeps the types.
LEMMA ExecutesTyped == ASSUME StageInv, Flags, Others, Executes PROVE Flags' /\ Others'
<1>1. Flags'
  BY Zenon
     DEF Executes, AttemptRefused, Exited, Interrupted, AskAttempt, AttemptRemoved,
         AttemptUnremoved, NextAttempt, StepsFail, StepsSucceed, Launch, LaunchFails
<1>2. Others'
  BY HelperNames
     DEF Executes, AttemptRefused, Exited, Interrupted, AskAttempt, Ask, AttemptRemoved,
         Confirmed, AttemptUnremoved, Unconfirmed, NextAttempt, StepsFail, Closes,
         StepsSucceed, Launch, Run, LaunchFails, RunFails, Fault, NoFault
<1> QED BY <1>1, <1>2

\* Export and Close keep the types.
LEMMA CleansTyped == ASSUME StageInv, Flags, Others, Cleans PROVE Flags' /\ Others'
<1>1. Flags'
  BY Zenon
     DEF Cleans, Exported, ExportFails, Close, CloseAsks, CloseConfirms, CloseVolume,
         CloseEnds, CloseVolumeFails, ClaimEnds
<1>2. Others'
  BY HelperNames, ClosedIsVolume
     DEF ClosesHelper, Cleans, Exported, Closes, ExportFails, Close, CloseAsks, Ask,
         CloseConfirms, Confirmed, Unconfirmed, CloseVolume, CloseEnds, CloseVolumeFails,
         ClaimEnds, Fault, NoFault
<1> QED BY <1>1, <1>2

\* The engine keeps the types.
LEMMA EngineTyped == ASSUME StageInv, Flags, Others, Engine PROVE Flags' /\ Others'
<1>1. Flags'
  BY Zenon
     DEF Engine, EngineCreates, EngineStarts, EngineForgets, HelperDies,
         EngineCreatesVolume, ScriptEnds
<1>2. Others'
  BY DEF StageInv, HelpersMountTheirs, Engine, EngineCreates, EngineStarts,
     EngineForgets, HelperDies, EngineCreatesVolume, ScriptEnds, Fault
<1> QED BY <1>1, <1>2

\* A restart keeps the types.
LEMMA CrashTyped == ASSUME StageInv, Flags, Others, Crash PROVE Flags' /\ Others'
<1>1. Flags'
  BY Zenon DEF Crash
<1>2. Others'
  BY DEF Crash, Fault
<1> QED BY <1>1, <1>2

HIDE DEF executor, engine, Flags, Others

\* Every variable has a value the code or the engine can give it.
THEOREM TypesAreKept == Spec => []TypeOK
<1>1. Init => Flags /\ Others
  <2>1. Init => Flags
    BY Zenon DEF Init, Flags
  <2>2. Init => Others
    BY DEF Init, Others
  <2> QED BY <2>1, <2>2
<1>2. ASSUME StageInv, Flags, Others, [Next]_vars PROVE Flags' /\ Others'
  <2>1. CASE UNCHANGED vars
    BY <1>2, <2>1 DEF vars, executor, engine, Flags, Others
  <2> QED
    BY <1>2, <2>1, ReconcilesTyped, StagesTyped, ExecutesTyped, CleansTyped, EngineTyped,
       CrashTyped
       DEF Next, Agent
<1>3. CleanupInv /\ StageInv /\ Flags /\ Others => TypeOK
  <2> SUFFICES ASSUME CleanupInv, StageInv, Flags, Others PROVE TypeOK
    OBVIOUS
  <2>1. /\ closing \in Seq(Volumes) /\ stages \in [Volumes -> {"none", "writable", "readOnly"}]
        /\ claim \in [stage : Volumes \cup {NoName}, package : Volumes \cup {NoName}]
        /\ claim.stage = claim.package => claim = NoClaim
        /\ mounts \in [Containers -> SUBSET Volumes]
        /\ data \in [Volumes -> {"none", "part", "whole"}]
        /\ exported \in {"nothing", "none", "part", "whole"}
    BY DEF StageInv, RegisteredIsClaimed, HelpersMountTheirs, ExportDescends
  <2>2. cleanupErr \in BOOLEAN /\ checked \in BOOLEAN
        /\ container \in [Containers -> {"absent", "stopped", "running"}]
        /\ pending \in [Containers -> {"no", "create", "start"}]
    BY DEF CleanupInv
  <2> QED BY <2>1, <2>2, Zenon DEF TypeOK, Flags, Others
<1> QED BY <1>1, <1>2, <1>3, CleanupInvariant, StagesInvariant, PTL DEF Spec
=============================================================================
