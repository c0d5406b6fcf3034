------------------------------ MODULE Dispatch ------------------------------
(***************************************************************************)
(* The dispatch contract of protocol/state.go: the states a deployment     *)
(* moves through at the server, and the three functions that decide which  *)
(* moves are legal.  Pure operators, used by every module that talks to    *)
(* the server.  A rejected move is the value Rejected or Duplicate; the    *)
(* two errors are kept apart because a repeated result is refused with an  *)
(* error of its own.                                                       *)
(***************************************************************************)

DispatchStates ==
  {"waiting", "claimed", "started", "succeeded", "failed", "cancelled",
   "lost", "cancel_requested", "cancel_unconfirmed", "cleanup_unconfirmed"}

ResultStates == {"succeeded", "failed", "cleanup_unconfirmed"}

Rejected  == "rejected"
Duplicate == "duplicate"

Edges ==
  ({"waiting"} \X {"claimed", "cancelled"})
    \cup ({"claimed"} \X {"waiting", "started", "cancel_requested", "cancelled"})
    \cup ({"started"} \X {"succeeded", "failed", "cancelled", "lost",
                          "cancel_requested", "cleanup_unconfirmed"})
    \cup ({"cancel_requested"} \X {"cancelled", "cancel_unconfirmed", "lost",
                                   "cleanup_unconfirmed"})

CanTransition(from, to) == <<from, to>> \in Edges

Transition(from, to) == IF CanTransition(from, to) THEN to ELSE Rejected

\* The state a reported result leads to, or the reason it is refused.
Complete(state, result) ==
  CASE state \in {"succeeded", "failed", "cleanup_unconfirmed"} -> Duplicate
    [] state = "started" -> Transition(state, result)
    [] state = "cancel_requested" /\ result = "cleanup_unconfirmed"
         -> Transition(state, result)
    [] OTHER -> Rejected

\* Returning a claim that expired before it started to the queue.
Reclaim(state) == IF state = "started" THEN Rejected ELSE Transition(state, "waiting")

\* No state that ends a dispatch has a way out.
Final == {s \in DispatchStates : \A t \in DispatchStates : ~CanTransition(s, t)}
=============================================================================
