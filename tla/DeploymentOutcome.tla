-------------------------- MODULE DeploymentOutcome --------------------------
(***************************************************************************)
(* What a deployment is promised, whatever happens to the agent that runs  *)
(* it: its workload starts at most once, one outcome is recorded for good, *)
(* and the workload starts only while no outcome is recorded, or after the *)
(* server alone has given the deployment up.                               *)
(***************************************************************************)
CONSTANTS
  Claims,      \* the deployments
  Outcomes,    \* what may be recorded of one; "none" is not among them
  GivenUp      \* the outcomes the server decides without hearing of the work

VARIABLES
  started,     \* the deployments whose workload was launched
  outcome      \* what is recorded of each deployment, or "none"

TypeOK ==
  /\ started \subseteq Claims
  /\ outcome \in [Claims -> Outcomes \cup {"none"}]

Init ==
  /\ started = {}
  /\ outcome = [c \in Claims |-> "none"]

StartWork(c) ==
  /\ c \notin started /\ outcome[c] \in GivenUp \cup {"none"}
  /\ started' = started \cup {c}
  /\ UNCHANGED outcome

Record(c, o) ==
  /\ outcome[c] = "none" /\ (o = "succeeded" => c \in started)
  /\ outcome' = [outcome EXCEPT ![c] = o]
  /\ UNCHANGED started

Next == \E c \in Claims : StartWork(c) \/ \E o \in Outcomes : Record(c, o)

Spec == Init /\ [][Next]_<<started, outcome>>
=============================================================================
