--------------------------- MODULE CleanupContract ---------------------------
(***************************************************************************)
(* What the two executors of scripts promise to the code that executes     *)
(* claims and polls for them.  "clean" is what a nil error says: nothing   *)
(* of a script runs, and nothing will start to.  While a script executes   *)
(* the executor is "busy"; an ErrContainerCleanup makes it "dirty", as     *)
(* does a restart of the agent, and no script starts until a               *)
(* reconciliation has found that nothing runs any more.                    *)
(* ContainerRuntime and HostSupervisor implement this.                     *)
(***************************************************************************)
CONSTANT Work     \* what may run: containers of attempts, or host processes

VARIABLES alive,  \* the Work that runs
          state   \* "clean", "busy" or "dirty"

vars == <<alive, state>>

Init == alive = {} /\ state \in {"clean", "dirty"}

Begin == state = "clean" /\ state' = "busy" /\ alive' \in SUBSET Work

\* Started, forked, exited or killed: only while nobody relies on its absence.
Change == state # "clean" /\ alive' \in SUBSET Work /\ UNCHANGED state

Confirm == state # "clean" /\ alive = {} /\ state' = "clean" /\ UNCHANGED alive

Doubt == state # "dirty" /\ state' = "dirty" /\ UNCHANGED alive

Next == Begin \/ Change \/ Confirm \/ Doubt

Spec == Init /\ [][Next]_vars

\* The promise in one formula: a nil error means that nothing is left running,
\* and stays true until the caller starts something itself.
CleanMeansGone == state = "clean" => alive = {}
=============================================================================
