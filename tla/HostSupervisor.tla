--------------------------- MODULE HostSupervisor ---------------------------
(***************************************************************************)
(* Staged host attempts: runAttempt and hostCommand in the agent           *)
(* (executor/executor.go, host_supervisor.go), the supervisor process that *)
(* owns the interpreter (host_supervisor_linux.go,                         *)
(* host_supervisor_cleanup_linux.go), and the process tree of the kernel,  *)
(* in which scripts fork, exit and outlive each other as they like.  The   *)
(* supervisor reports through one pipe, that it ends when all who could    *)
(* write to it have; the agent cancels through another, by closing it.     *)
(***************************************************************************)
EXTENDS FiniteSets

CONSTANTS
  Pids,          \* what the kernel can number the processes of a script with
  NoPid,
  Supervisor,    \* the parents that are not such processes
  PidOne

ASSUME NamesAssumption ==
  /\ Supervisor # PidOne
  /\ {NoPid, Supervisor, PidOne} \cap Pids = {}

VARIABLES
  agent,      \* where runAttempt is, or what became of the agent
  cancelled,  \* the control pipe has no writer any more
  ack,        \* the agent still holds its writer of the report pipe
  reported,   \* the report pipe holds hostSupervisorStopped
  sup,        \* where the supervisor is
  notified,   \* its context is done
  stopping,   \* waitHostChildren's stopping
  root,       \* the interpreter, until it is reaped
  todo,       \* killHostChildren: listed processes not yet visited
  proc,       \* Pid -> "free", "runs", "killed" (but not yet gone) or "zombie"
  parent

attempt == <<cancelled, ack, reported, notified, stopping, root, todo>>
tree    == <<proc, parent>>
vars    == <<agent, sup, attempt, tree>>

Init ==
  /\ agent = "idle" /\ sup = "none"
  /\ cancelled = FALSE /\ ack = FALSE /\ reported = FALSE /\ notified = FALSE
  /\ stopping = FALSE /\ root = NoPid /\ todo = {}
  /\ proc = [p \in Pids |-> "free"] /\ parent = [p \in Pids |-> PidOne]

Supervises == sup \in {"start", "reap", "top", "scan", "report"}
Exists     == {p \in Pids : proc[p] # "free"}
Alive      == {p \in Pids : proc[p] \in {"runs", "killed"}}
Children   == {p \in Exists : parent[p] = Supervisor}

\* The parents after a death.
Orphans(dead, heir) == [p \in Pids |-> IF parent[p] = dead THEN heir ELSE parent[p]]

\* Mutant: no PR_SET_CHILD_SUBREAPER.
Heir_Init == PidOne

\* Who becomes the parent of orphaned descendants.
Heir == IF Supervises THEN Supervisor ELSE PidOne

-----------------------------------------------------------------------------
(* The processes of a script.                                              *)

Forks(p, q) ==
  /\ proc[p] = "runs" /\ proc[q] = "free"
  /\ proc' = [proc EXCEPT ![q] = "runs"] /\ parent' = [parent EXCEPT ![q] = p]
  /\ UNCHANGED <<agent, sup, attempt>>

Exits(p) ==
  /\ p \in Alive /\ proc' = [proc EXCEPT ![p] = "zombie"]
  /\ parent' = Orphans(p, Heir)
  /\ UNCHANGED <<agent, sup, attempt>>

\* A parent among the scripts, or init, waits for its child.
Collected(p) ==
  /\ proc[p] = "zombie" /\ parent[p] # Supervisor
  /\ proc' = [proc EXCEPT ![p] = "free"] /\ parent' = [parent EXCEPT ![p] = PidOne]
  /\ UNCHANGED <<agent, sup, attempt>>

Scripts == \E p \in Pids : Exits(p) \/ Collected(p) \/ \E q \in Pids : Forks(p, q)

-----------------------------------------------------------------------------
(* The supervisor.                                                         *)

\* Its death closes its writer of the report and gives its children to init.
Ends(how) ==
  /\ sup' = how /\ parent' = Orphans(Supervisor, PidOne)
  /\ UNCHANGED <<agent, cancelled, ack, notified, stopping, root, todo, proc>>

Fails == Supervises /\ Ends("failed") /\ UNCHANGED reported

\* Mutant: what copies the control pipe does not cancel at its end.
Notices_Ignored == FALSE

\* The control pipe is at its end.
Notices == cancelled

CancelObserved ==
  /\ Supervises /\ ~notified /\ Notices /\ notified' = TRUE
  /\ UNCHANGED <<agent, sup, cancelled, ack, reported, stopping, root, todo, tree>>

\* SIGTERM or SIGINT.
Signalled ==
  /\ Supervises /\ ~notified /\ notified' = TRUE
  /\ UNCHANGED <<agent, sup, cancelled, ack, reported, stopping, root, todo, tree>>

StartRoot(p) ==
  /\ sup = "start" /\ ~notified /\ proc[p] = "free"
  /\ proc' = [proc EXCEPT ![p] = "runs"] /\ parent' = [parent EXCEPT ![p] = Supervisor]
  /\ root' = p /\ sup' = "reap"
  /\ UNCHANGED <<agent, cancelled, ack, reported, notified, stopping, todo>>

\* Cancelled before, or the interpreter cannot be started: nothing to clean up.
StartNothing ==
  /\ sup = "start" /\ sup' = "report"
  /\ UNCHANGED <<agent, attempt, tree>>

\* Wait4 returns a child.
Reap(p) ==
  /\ sup = "reap" /\ p \in Children /\ proc[p] = "zombie"
  /\ proc' = [proc EXCEPT ![p] = "free"] /\ parent' = [parent EXCEPT ![p] = PidOne]
  /\ IF p = root THEN root' = NoPid /\ stopping' = TRUE ELSE UNCHANGED <<root, stopping>>
  /\ UNCHANGED <<agent, sup, cancelled, ack, reported, notified, todo>>

\* Mutant: the end of the interpreter is the end of the attempt.
Gone_RootOnly == root = NoPid

\* ECHILD.
Gone == Children = {}

NoChildren ==
  /\ sup = "reap" /\ Gone /\ sup' = "report"
  /\ UNCHANGED <<agent, attempt, tree>>

\* Wait4 has no zombie to return.
Sleeps ==
  /\ sup = "reap" /\ Children # {} /\ \A p \in Children : proc[p] # "zombie"
  /\ stopping' = (stopping \/ notified) /\ sup' = IF stopping' THEN "top" ELSE "reap"
  /\ UNCHANGED <<agent, cancelled, ack, reported, notified, root, todo, tree>>

\* killHostChildren lists all processes, and then looks at one after the other.
\* The deadline is one reason to Fail here.
Lists ==
  /\ sup = "top" /\ sup' = "scan" /\ todo' = Exists
  /\ UNCHANGED <<agent, cancelled, ack, reported, notified, stopping, root, tree>>

Visit(p) ==
  /\ sup = "scan" /\ p \in todo /\ todo' = todo \ {p}
  /\ proc' = [proc EXCEPT ![p] = IF @ = "runs" /\ parent[p] = Supervisor THEN "killed" ELSE @]
  /\ UNCHANGED <<agent, sup, cancelled, ack, reported, notified, stopping, root, parent>>

Visited ==
  /\ sup = "scan" /\ todo = {} /\ sup' = "reap"
  /\ UNCHANGED <<agent, attempt, tree>>

\* Nobody reads what it writes once the agent is gone.
Reports ==
  /\ sup = "report" /\ Ends("finished") /\ reported' = (agent # "down")

Supervise ==
  \/ StartNothing \/ NoChildren \/ Sleeps \/ Lists \/ Visited \/ Reports
  \/ \E p \in Pids : StartRoot(p) \/ Reap(p) \/ Visit(p)

-----------------------------------------------------------------------------
(* The agent.                                                              *)

\* When the supervisor cannot be started the attempt ends as it began.
StartSupervisor ==
  /\ agent = "idle" /\ agent' = "waiting" /\ sup' = "start" /\ ack' = TRUE
  /\ UNCHANGED <<cancelled, reported, notified, stopping, root, todo, tree>>

\* The attempt's timeout, a cancellation or a failed log: command.Cancel.
Cancel ==
  /\ agent = "waiting" /\ ~cancelled /\ cancelled' = TRUE
  /\ UNCHANGED <<agent, sup, ack, reported, notified, stopping, root, todo, tree>>

\* command.WaitDelay after Cancel: SIGKILL to the supervisor alone.
WaitDelay == agent = "waiting" /\ cancelled /\ Fails

\* Mutant: confirm reads while the agent itself could still write.
WaitReturns_AckOpen ==
  /\ agent = "waiting" /\ sup \in {"finished", "failed"} /\ agent' = "confirm"
  /\ UNCHANGED <<sup, attempt, tree>>

\* command.Wait returns, and confirm closes its writer.
WaitReturns ==
  /\ agent = "waiting" /\ sup \in {"finished", "failed"} /\ agent' = "confirm" /\ ack' = FALSE
  /\ UNCHANGED <<sup, cancelled, reported, notified, stopping, root, todo, tree>>

Verdict(v) ==
  /\ agent' = v /\ sup' = "none"
  /\ cancelled' = FALSE /\ ack' = FALSE /\ reported' = FALSE /\ notified' = FALSE
  /\ stopping' = FALSE /\ root' = NoPid /\ todo' = {}
  /\ UNCHANGED tree

\* confirm has read the report to its end.
Confirmed == agent = "confirm" /\ ~ack /\ reported /\ Verdict("idle")

\* ErrHostProcessCleanup: no report, or the script's directory stays.
Unconfirmed == agent = "confirm" /\ ~ack /\ Verdict("dirty")

Attempt == WaitReturns \/ Confirmed \/ Unconfirmed

\* The kernel closes the pipes of an agent that dies.
AgentDies ==
  /\ agent # "down" /\ agent' = "down" /\ cancelled' = TRUE /\ ack' = FALSE
  /\ UNCHANGED <<sup, reported, notified, stopping, root, todo, tree>>

\* KillMode=control-group: whatever is left of a service that has ended is
\* killed before it is started again.
ServiceKills ==
  /\ agent \in {"down", "dirty"} /\ agent' = "down" /\ sup' = "none"
  /\ proc' = [p \in Pids |-> "free"] /\ parent' = [p \in Pids |-> PidOne]
  /\ UNCHANGED attempt

ServiceStarts ==
  /\ agent = "down" /\ Alive = {} /\ ~Supervises /\ Verdict("idle")

Service == ServiceKills \/ ServiceStarts

-----------------------------------------------------------------------------
Next ==
  \/ Scripts \/ Supervise \/ Fails \/ CancelObserved \/ Signalled
  \/ StartSupervisor \/ Cancel \/ WaitDelay \/ Attempt \/ AgentDies \/ Service

Spec == Init /\ [][Next]_vars

\* SIGKILL ends a process, each program runs, an attempt has a timeout, and the
\* service manager's restart is nothing to rely on.
FairSpec ==
  /\ Spec
  /\ WF_vars(Supervise) /\ WF_vars(CancelObserved)
  /\ WF_vars(Cancel) /\ WF_vars(WaitDelay) /\ WF_vars(Attempt)
  /\ \A p \in Pids : WF_vars(proc[p] = "killed" /\ Exits(p))

-----------------------------------------------------------------------------
(* Properties.                                                             *)

\* Every variable has a value that the code or the kernel can give it.
TypeOK ==
  /\ agent \in {"idle", "waiting", "confirm", "dirty", "down"}
  /\ sup \in {"none", "start", "reap", "top", "scan", "report", "finished", "failed"}
  /\ cancelled \in BOOLEAN /\ ack \in BOOLEAN /\ reported \in BOOLEAN
  /\ notified \in BOOLEAN /\ stopping \in BOOLEAN
  /\ root \in Pids \cup {NoPid} /\ todo \subseteq Pids
  /\ proc \in [Pids -> {"free", "runs", "killed", "zombie"}]
  /\ parent \in [Pids -> Pids \cup {Supervisor, PidOne}]

\* As long as the supervisor lives no process of the attempt is out of its reach:
\* some child of the supervisor is an ancestor of any set of them, whoever forked
\* them and whoever of these has died (superviseHost: "Orphaned descendants remain
\* its children, including processes that change groups, sessions, or double-fork").
NoneEscapes ==
  Supervises =>
    \A S \in SUBSET Alive : S # {} =>
      \E p \in S : parent[p] = Supervisor \/ parent[p] \in Alive \ S

\* ECHILD, a report and a clean agent all mean that the tree is gone.
NothingLeft ==
  /\ sup \in {"start", "report", "finished"} => Alive = {}
  /\ reported => Alive = {} /\ sup \in {"finished", "none"}

\* What the agent knows of the supervisor.
Attempts ==
  /\ agent = "idle" => sup = "none" /\ Alive = {} /\ ~reported
  /\ agent = "dirty" => sup = "none"
  /\ agent \in {"waiting", "confirm"} => sup # "none"
  /\ agent = "confirm" => ~Supervises

\* What waitHostChildren relies on when it takes ECHILD for the end of a whole
\* tree, and runAttempt when it takes the report for it; it is inductive.
HostInv == TypeOK /\ NoneEscapes /\ NothingLeft /\ Attempts

\* An executor that is clean is idle; while an attempt is under way it is busy.
State == IF agent = "idle" THEN "clean"
         ELSE IF agent \in {"waiting", "confirm"} THEN "busy" ELSE "dirty"

Contract == INSTANCE CleanupContract WITH Work <- Pids, alive <- Alive, state <- State

\* The supervisor's word is true: after runAttempt has returned without
\* ErrHostProcessCleanup no process of the script exists, whatever it forked and
\* whenever, and whoever was killed or failed on the way.
ImplementsCleanup == Contract!Spec

\* Every attempt ends, whatever its processes do, with a report or without.
AttemptEnds == agent = "waiting" ~> agent \in {"idle", "dirty", "down"}

\* The script does not outlive the agent, unless it forks without end, or the
\* supervisor is killed or gives up as well.
TreeDiesWithAgent ==
  <>[][~\E p, q \in Pids : Forks(p, q)]_vars =>
    ((agent = "down" /\ Supervises) ~> (Alive = {} \/ sup = "failed"))
=============================================================================
