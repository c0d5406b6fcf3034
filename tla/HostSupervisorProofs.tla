----------------------- MODULE HostSupervisorProofs -----------------------
(***************************************************************************)
(* The inductive invariant of HostSupervisor, and that it implements       *)
(* CleanupContract, for any number of processes.                           *)
(***************************************************************************)
EXTENDS HostSupervisor, TLAPS

\* At the start no process exists.
LEMMA Initially == Init => HostInv
<1> SUFFICES ASSUME Init PROVE HostInv
  OBVIOUS
<1> USE DEF Init, Alive, Supervises
<1>1. TypeOK
  BY DEF TypeOK
<1>2. NoneEscapes
  BY DEF NoneEscapes
<1>3. NothingLeft /\ Attempts
  BY DEF NothingLeft, Attempts
<1> QED BY <1>1, <1>2, <1>3 DEF HostInv

\* Steps that leave the processes alone keep all of them within reach, unless the
\* supervisor is new.
LEMMA SameTree ==
  ASSUME NoneEscapes, UNCHANGED tree, Supervises' => Supervises
  PROVE  NoneEscapes'
BY DEF NoneEscapes, tree, Alive, Supervises

\* Without a child of the supervisor nothing of the attempt is alive.
LEMMA NoChildNoTree ==
  ASSUME HostInv, Supervises, Children = {}
  PROVE  Alive = {}
<1> SUFFICES ASSUME Alive # {} PROVE FALSE
  OBVIOUS
<1>1. PICK p \in Alive : parent[p] = Supervisor \/ parent[p] \in Alive \ Alive
  BY DEF HostInv, NoneEscapes
<1>2. p \in Children
  BY <1>1 DEF Children, Exists, Alive
<1> QED BY <1>2

\* A fork adds a process below one that was in reach.
LEMMA ForkStaysInReach ==
  ASSUME HostInv, NEW p \in Pids, NEW q \in Pids, Forks(p, q)
  PROVE  NoneEscapes'
<1> USE DEF Forks, attempt, Supervises
<1> SUFFICES ASSUME Supervises', NEW S \in SUBSET Alive', S # {}
             PROVE  \E r \in S : parent'[r] = Supervisor \/ parent'[r] \in Alive' \ S
  BY DEF NoneEscapes
<1>1. Alive' = Alive \cup {q} /\ q \notin Alive /\ p \in Alive
  BY DEF HostInv, TypeOK, Alive
<1>2. parent' = [parent EXCEPT ![q] = p] /\ parent \in [Pids -> Pids \cup {Supervisor, PidOne}]
  BY DEF HostInv, TypeOK
<1>3. CASE S = {q}
  BY <1>1, <1>2, <1>3
<1>4. CASE S # {q}
  <2>1. S \ {q} \in SUBSET Alive /\ S \ {q} # {}
    BY <1>1, <1>4
  <2>2. PICK r \in S \ {q} : parent[r] = Supervisor \/ parent[r] \in Alive \ (S \ {q})
    BY <2>1 DEF HostInv, NoneEscapes
  <2>3. r \in Pids /\ parent'[r] = parent[r]
    BY <1>1, <1>2, <2>1, <2>2 DEF Alive
  <2> QED BY <1>1, <2>2, <2>3
<1> QED BY <1>3, <1>4

\* The children of a process that exits become children of the supervisor.
LEMMA ExitStaysInReach ==
  ASSUME HostInv, NEW p \in Pids, Exits(p)
  PROVE  NoneEscapes'
<1> USE DEF Exits, attempt, Supervises
<1> SUFFICES ASSUME Supervises', NEW S \in SUBSET Alive', S # {}
             PROVE  \E r \in S : parent'[r] = Supervisor \/ parent'[r] \in Alive' \ S
  BY DEF NoneEscapes
<1>1. Alive' = Alive \ {p}
  BY DEF HostInv, TypeOK, Alive
<1>2. \A r \in Pids : parent'[r] = IF parent[r] = p THEN Supervisor ELSE parent[r]
  BY DEF Orphans, Heir
<1>3. PICK r \in S : parent[r] = Supervisor \/ parent[r] \in Alive \ S
  BY <1>1 DEF HostInv, NoneEscapes
<1>4. r \in Pids
  BY <1>1 DEF Alive
<1> QED BY <1>1, <1>2, <1>3, <1>4

\* What becomes of a zombie matters to nobody else.
LEMMA ZombieStaysInReach ==
  ASSUME HostInv, NEW p \in Pids, proc[p] = "zombie", Supervises' => Supervises,
         proc' = [proc EXCEPT ![p] = "free"], parent' = [parent EXCEPT ![p] = PidOne]
  PROVE  Alive' = Alive /\ NoneEscapes'
<1>1. Alive' = Alive /\ p \notin Alive
  BY DEF HostInv, TypeOK, Alive
<1>2. \A r \in Alive : parent'[r] = parent[r]
  BY <1>1 DEF HostInv, TypeOK, Alive
<1> QED BY <1>1, <1>2 DEF HostInv, NoneEscapes

\* The steps of the processes, one case each.
LEMMA ScriptsInv == ASSUME HostInv, Scripts PROVE HostInv'
<1> USE DEF HostInv, NothingLeft, Attempts, TypeOK, attempt, Alive, Supervises
<1>1. ASSUME NEW p \in Pids, NEW q \in Pids, Forks(p, q) PROVE HostInv'
  <2>1. NoneEscapes'
    BY <1>1, ForkStaysInReach
  <2>2. TypeOK'
    BY <1>1 DEF Forks
  <2>3. (NothingLeft /\ Attempts)'
    BY <1>1 DEF Forks
  <2> QED BY <2>1, <2>2, <2>3
<1>2. ASSUME NEW p \in Pids, Exits(p) PROVE HostInv'
  <2>1. NoneEscapes'
    BY <1>2, ExitStaysInReach
  <2>2. TypeOK'
    BY <1>2 DEF Exits, Orphans, Heir
  <2>3. Alive' \subseteq Alive
    BY <1>2 DEF Exits
  <2>4. (NothingLeft /\ Attempts)'
    BY <1>2, <2>3 DEF Exits
  <2> QED BY <2>1, <2>2, <2>4
<1>3. ASSUME NEW p \in Pids, Collected(p) PROVE HostInv'
  <2>1. Alive' = Alive /\ NoneEscapes'
    BY <1>3, ZombieStaysInReach DEF Collected
  <2>2. TypeOK' /\ (NothingLeft /\ Attempts)'
    BY <1>3, <2>1 DEF Collected
  <2> QED BY <2>1, <2>2
<1> QED BY <1>1, <1>2, <1>3 DEF Scripts

\* The steps of the supervisor.
LEMMA SuperviseInv == ASSUME HostInv, Supervise PROVE HostInv'
<1> USE DEF HostInv, NothingLeft, Attempts, TypeOK, attempt, tree, Alive, Supervises
<1>1. CASE StartNothing \/ Sleeps \/ Lists \/ Visited
  <2>1. NoneEscapes'
    BY <1>1, SameTree DEF StartNothing, Sleeps, Lists, Visited
  <2>2. TypeOK' /\ NothingLeft' /\ Attempts'
    BY <1>1 DEF StartNothing, Sleeps, Lists, Visited, Exists
  <2> QED BY <2>1, <2>2
<1>2. CASE NoChildren
  <2>1. Alive = {}
    BY <1>2, NoChildNoTree DEF NoChildren, Gone
  <2>2. NoneEscapes'
    BY <1>2, SameTree DEF NoChildren
  <2>3. TypeOK' /\ NothingLeft' /\ Attempts'
    BY <1>2, <2>1 DEF NoChildren
  <2> QED BY <2>2, <2>3
<1>3. CASE Reports
  <2>1. Alive' = {} /\ ~Supervises'
    BY <1>3 DEF Reports, Ends
  <2>2. TypeOK' /\ NothingLeft' /\ Attempts'
    BY <1>3, <2>1 DEF Reports, Ends, Orphans
  <2> QED BY <2>1, <2>2 DEF NoneEscapes
<1>4. ASSUME NEW p \in Pids, StartRoot(p) PROVE HostInv'
  <2>1. Alive' = {p} /\ parent'[p] = Supervisor
    BY <1>4 DEF StartRoot
  <2>2. NoneEscapes'
    BY <2>1 DEF NoneEscapes
  <2>3. TypeOK' /\ NothingLeft' /\ Attempts'
    BY <1>4 DEF StartRoot
  <2> QED BY <2>2, <2>3
<1>5. ASSUME NEW p \in Pids, Reap(p) PROVE HostInv'
  <2>1. Alive' = Alive /\ NoneEscapes'
    BY <1>5, ZombieStaysInReach DEF Reap
  <2>2. TypeOK' /\ NothingLeft' /\ Attempts'
    BY <1>5, <2>1 DEF Reap
  <2> QED BY <2>1, <2>2
<1>6. ASSUME NEW p \in Pids, Visit(p) PROVE HostInv'
  <2>1. Alive' = Alive
    BY <1>6 DEF Visit
  <2>2. NoneEscapes'
    BY <1>6, <2>1 DEF Visit, NoneEscapes
  <2>3. TypeOK' /\ NothingLeft' /\ Attempts'
    BY <1>6, <2>1 DEF Visit
  <2> QED BY <2>2, <2>3
<1> QED BY <1>1, <1>2, <1>3, <1>4, <1>5, <1>6 DEF Supervise

\* The end of the supervisor without a report, and what makes it stop.
LEMMA StopInv ==
  ASSUME HostInv, Fails \/ WaitDelay \/ CancelObserved \/ Signalled \/ Cancel
  PROVE  HostInv'
<1> USE DEF HostInv, NothingLeft, Attempts, TypeOK, attempt, tree, Alive, Supervises
<1>1. CASE Fails \/ WaitDelay
  <2>1. ~Supervises'
    BY <1>1 DEF Fails, WaitDelay, Ends
  <2>2. TypeOK' /\ NothingLeft' /\ Attempts'
    BY <1>1 DEF Fails, WaitDelay, Ends, Orphans
  <2> QED BY <2>1, <2>2 DEF NoneEscapes
<1>2. CASE CancelObserved \/ Signalled \/ Cancel
  <2>1. NoneEscapes'
    BY <1>2, SameTree DEF CancelObserved, Signalled, Cancel
  <2>2. TypeOK'
    BY <1>2 DEF CancelObserved, Signalled, Cancel
  <2>3. UNCHANGED <<agent, sup, reported, Alive>>
    BY <1>2 DEF CancelObserved, Signalled, Cancel
  <2> QED BY <2>1, <2>2, <2>3
<1> QED BY <1>1, <1>2

\* The steps of the agent and of its service.
LEMMA AgentInv ==
  ASSUME HostInv, StartSupervisor \/ Attempt \/ AgentDies \/ Service
  PROVE  HostInv'
<1> USE DEF HostInv, NothingLeft, Attempts, TypeOK, attempt, tree, Alive, Supervises, Verdict
<1>1. CASE StartSupervisor
  <2>1. Alive' = {}
    BY <1>1 DEF StartSupervisor
  <2>2. TypeOK' /\ NothingLeft' /\ Attempts'
    BY <1>1 DEF StartSupervisor
  <2> QED BY <2>1, <2>2 DEF NoneEscapes
<1>2. CASE Attempt \/ AgentDies
  <2>1. NoneEscapes'
    BY <1>2, SameTree DEF Attempt, WaitReturns, Confirmed, Unconfirmed, AgentDies
  <2>2. TypeOK' /\ NothingLeft' /\ Attempts'
    <3>1. CASE WaitReturns \/ AgentDies
      <4>1. TypeOK'
        BY <1>2, <3>1 DEF WaitReturns, AgentDies
      <4>2. NothingLeft' /\ Attempts'
        BY <1>2, <3>1 DEF WaitReturns, AgentDies
      <4> QED BY <4>1, <4>2
    <3>2. CASE Confirmed \/ Unconfirmed
      BY <1>2, <3>2 DEF Confirmed, Unconfirmed
    <3> QED BY <1>2, <3>1, <3>2 DEF Attempt
  <2> QED BY <2>1, <2>2
<1>3. CASE Service
  <2>1. Alive' = {}
    BY <1>3 DEF Service, ServiceKills, ServiceStarts
  <2>2. TypeOK' /\ NothingLeft' /\ Attempts'
    BY <1>3, <2>1 DEF Service, ServiceKills, ServiceStarts
  <2> QED BY <2>1, <2>2 DEF NoneEscapes
<1> QED BY <1>1, <1>2, <1>3

\* Every step and every stuttering step preserves the invariant.
LEMMA NextInv == ASSUME HostInv, [Next]_vars PROVE HostInv'
<1>1. CASE UNCHANGED vars
  BY <1>1 DEF vars, attempt, tree, HostInv, TypeOK, NoneEscapes, NothingLeft, Attempts,
              Alive, Supervises
<1>2. CASE Next
  BY <1>2, ScriptsInv, SuperviseInv, StopInv, AgentInv DEF Next
<1> QED BY <1>1, <1>2

\* waitHostChildren takes ECHILD for the end of a whole process tree, and runAttempt
\* takes the report for it; both are right in every reachable state.
THEOREM HostInvariant == Spec => []HostInv
BY Initially, NextInv, PTL DEF Spec

-----------------------------------------------------------------------------
\* What runs changes only while the agent does not rely on its absence,
LEMMA RunningChanges ==
  ASSUME HostInv, [Next]_vars, State' = State
  PROVE  Contract!Next \/ UNCHANGED <<Alive, State>>
<1>1. Alive' \in SUBSET Pids
  BY DEF Alive
<1>2. State = "clean" => Alive' = Alive
  <2> SUFFICES ASSUME agent = "idle", agent' = "idle" PROVE Alive' = Alive
    BY DEF State
  <2>1. Alive = {} /\ ~Supervises /\ sup = "none"
    BY DEF HostInv, Attempts, Supervises
  <2>2. CASE UNCHANGED vars
    BY <2>2 DEF vars, tree, Alive
  <2>3. CASE Scripts
    BY <2>1, <2>3 DEF Scripts, Forks, Exits, Collected, Alive, HostInv, TypeOK
  <2>4. CASE ~Scripts /\ Next
    BY <2>1, <2>4
       DEF Next, Supervise, StartNothing, NoChildren, Sleeps, Lists, Visited, Reports, StartRoot,
           Reap, Visit, Fails, CancelObserved, Signalled, StartSupervisor, Cancel, WaitDelay,
           Attempt, WaitReturns, Confirmed, Unconfirmed, AgentDies, Service, ServiceKills,
           ServiceStarts, Supervises
  <2> QED BY <2>2, <2>3, <2>4
<1> QED BY <1>1, <1>2 DEF Contract!Next, Contract!Change

\* and what the agent knows changes only as the contract allows it.
LEMMA KnowledgeChanges ==
  ASSUME HostInv, [Next]_vars, State' # State
  PROVE  Contract!Next
<1> USE DEF State, Contract!Next
<1>1. agent' # agent
  OBVIOUS
<1>2. Alive' \in SUBSET Pids
  BY DEF Alive
<1>3. CASE StartSupervisor
  BY <1>2, <1>3 DEF StartSupervisor, Contract!Begin
<1>4. CASE Confirmed
  <2>1. Alive = {} /\ UNCHANGED Alive
    BY <1>4 DEF Confirmed, Verdict, HostInv, NothingLeft, tree, Alive
  <2> QED BY <1>4, <2>1 DEF Confirmed, Verdict, Contract!Confirm
<1>5. CASE Unconfirmed \/ AgentDies
  <2>1. UNCHANGED Alive
    BY <1>5 DEF Unconfirmed, AgentDies, Verdict, tree, Alive
  <2> QED BY <1>5, <2>1 DEF Unconfirmed, AgentDies, Verdict, Contract!Doubt
<1>6. CASE ServiceStarts
  <2>1. Alive = {} /\ UNCHANGED Alive
    BY <1>6 DEF ServiceStarts, Verdict, tree, Alive
  <2> QED BY <1>6, <2>1 DEF ServiceStarts, Verdict, Contract!Confirm
<1>7. CASE WaitReturns \/ ServiceKills
  BY <1>7 DEF WaitReturns, ServiceKills
<1>8. CASE Scripts \/ Supervise \/ Fails \/ CancelObserved \/ Signalled \/ Cancel \/ WaitDelay
  BY <1>1, <1>8
     DEF Scripts, Forks, Exits, Collected, Supervise, StartNothing, NoChildren, Sleeps, Lists,
         Visited, Reports, Ends, StartRoot, Reap, Visit, Fails, CancelObserved, Signalled,
         Cancel, WaitDelay
<1>9. CASE UNCHANGED vars
  BY <1>1, <1>9 DEF vars
<1> QED BY <1>3, <1>4, <1>5, <1>6, <1>7, <1>8, <1>9 DEF Next, Attempt, Service

\* runAttempt and the supervisor keep the promise of CleanupContract: after an
\* attempt that returned without ErrHostProcessCleanup no process of it runs.
THEOREM Implementation == Spec => ImplementsCleanup
<1>1. Init => Contract!Init
  BY Initially DEF Init, HostInv, Attempts, State, Contract!Init
<1>2. HostInv /\ [Next]_vars => [Contract!Next]_(Contract!vars)
  BY RunningChanges, KnowledgeChanges DEF Contract!vars
<1> QED BY <1>1, <1>2, HostInvariant, PTL DEF Spec, ImplementsCleanup, Contract!Spec

\* In particular nothing of a script runs while the agent is idle, and goes on to
\* publish its stage, to retry or to purge.
THEOREM CleanMeansGoneTheorem == Spec => []Contract!CleanMeansGone
<1>1. HostInv => Contract!CleanMeansGone
  BY DEF HostInv, Attempts, State, Contract!CleanMeansGone
<1> QED BY <1>1, HostInvariant, PTL
=============================================================================
