------------------------------ MODULE Bootstrap ------------------------------
(***************************************************************************)
(* Pairing an agent with its control plane: runBootstrap of                *)
(* cmd/agent/bootstrap.go, the temporary listener of bootstrap/, the       *)
(* one-use pairing session of protocol/pairing.go and the state file that  *)
(* makes the pairing durable.                                              *)
(*                                                                         *)
(* A request passes three points: the listener reads the clock, the        *)
(* session decides under its mutex (Save runs under that mutex too), and   *)
(* the answer travels back.  The expiry goroutine, the handlers and the    *)
(* main goroutine interleave between them.                                 *)
(***************************************************************************)
EXTENDS Naturals

CONSTANTS
  Servers,     \* control planes an operator may give the pairing code to
  NoServer,    \* the agent is not paired
  MaxFaults    \* bound: crashes, failed writes, lost answers, accept errors

ASSUME ServersAssumption == NoServer \notin Servers
ASSUME FaultsAssumption  == MaxFaults \in Nat

VARIABLES
  pc,          \* run(): "load", in "listen", shutting down ("drain"), "paired"
  identity,    \* files of the agent's identity: "none", the "key", or "both"
  disk,        \* the server named by state.json
  status,      \* PairingSession: "none", "pending", "paired" or "expired"
  trust,       \* the server the session is paired with
  late,        \* the offer's expiresAt has passed
  expiry,      \* the expiry goroutine still waits for its timer
  open,        \* the listener accepts requests (done is not closed)
  acked,       \* the paired channel is closed
  code,        \* the pairing code each server was given
  req,         \* the one outstanding request of each server
  confirmed,   \* servers that received the answer 204
  faults       \* faults injected so far

offer   == <<status, trust, late, expiry, open, acked>>
process == <<pc, identity, disk>>
control == <<code, confirmed>>
vars    == <<process, offer, control, req, faults>>

Codes   == {"none", "current", "stale"}
Idle    == [phase |-> "idle", code |-> "none", ack |-> FALSE, late |-> FALSE]
Fault   == faults < MaxFaults /\ faults' = faults + 1

Init ==
  /\ pc = "load" /\ identity = "none" /\ disk = NoServer
  /\ status = "none" /\ trust = NoServer /\ late = FALSE
  /\ expiry = FALSE /\ open = FALSE /\ acked = FALSE
  /\ code = [s \in Servers |-> "none"]
  /\ req = [s \in Servers |-> Idle]
  /\ confirmed = {} /\ faults = 0

-----------------------------------------------------------------------------
(* run() and Start.                                                        *)

\* Load found a state file: the agent works for that server from now on.
LoadState ==
  /\ pc = "load" /\ disk # NoServer /\ pc' = "paired"
  /\ UNCHANGED <<identity, disk, offer, control, req, faults>>

\* createIdentity renames the private key into place, then the certificate.
WriteKey ==
  /\ pc = "load" /\ disk = NoServer /\ identity = "none"
  /\ identity' = "key" /\ pc' = "certify"
  /\ UNCHANGED <<disk, offer, control, req, faults>>

WriteCertificate ==
  /\ pc = "certify" /\ pc' = "load"
  /\ \/ identity' = "both" /\ UNCHANGED faults
     \/ identity' = "key" /\ Fault
  /\ UNCHANGED <<disk, offer, control, req>>

\* "incomplete identity": a replacement is never created, run() tries again.
IdentityIncomplete ==
  /\ pc = "load" /\ disk = NoServer /\ identity = "key"
  /\ UNCHANGED vars

StartListener ==
  /\ pc = "load" /\ disk = NoServer /\ identity = "both" /\ pc' = "listen"
  /\ status' = "pending" /\ trust' = NoServer /\ late' = FALSE
  /\ expiry' = TRUE /\ open' = TRUE /\ acked' = FALSE
  /\ code' = [s \in Servers |-> IF code[s] = "none" THEN "none" ELSE "stale"]
  /\ req' = [s \in Servers |->
               IF req[s].phase = "sent" THEN [req[s] EXCEPT !.code = "stale"] ELSE req[s]]
  /\ UNCHANGED <<identity, disk, confirmed, faults>>

-----------------------------------------------------------------------------
(* The control plane: given the code by the operator, it asks until it is  *)
(* confirmed, then repeats the request as the completion acknowledgement.  *)

Enter(s) ==
  /\ pc = "listen" /\ code' = [code EXCEPT ![s] = "current"]
  /\ UNCHANGED <<process, offer, confirmed, req, faults>>

Send(s) ==
  /\ req[s].phase = "idle" /\ code[s] # "none"
  /\ req' = [req EXCEPT ![s] = [phase |-> "sent", code |-> code[s],
                                ack |-> s \in confirmed, late |-> FALSE]]
  /\ UNCHANGED <<process, offer, control, faults>>

Receive(s) ==
  /\ req[s].phase \in {"ok", "refused"} /\ req' = [req EXCEPT ![s] = Idle]
  /\ confirmed' = IF req[s].phase = "ok" THEN confirmed \cup {s} ELSE confirmed
  /\ UNCHANGED <<process, offer, code, faults>>

\* No connection, or no answer.
Lost(s) ==
  /\ \/ req[s].phase = "sent" /\ ~open /\ UNCHANGED faults
     \/ req[s].phase \in {"ok", "refused"} /\ Fault
  /\ req' = [req EXCEPT ![s] = Idle]
  /\ UNCHANGED <<process, offer, control>>

-----------------------------------------------------------------------------
(* serverInit and PairingSession.pair.                                     *)

\* listener.now() is evaluated before pair takes the session's mutex.
Arrive(s) ==
  /\ req[s].phase = "sent" /\ open
  /\ req' = [req EXCEPT ![s].phase = "arrived", ![s].late = late]
  /\ UNCHANGED <<process, offer, control, faults>>

Answered(s, answer) ==
  /\ req[s].phase = "arrived"
  /\ req' = [req EXCEPT ![s] = [Idle EXCEPT !.phase = answer]]

\* The server the session is paired with may repeat its request at any time.
Replayed(s) == status = "paired" /\ trust = s /\ req[s].code = "current"

\* Mutants: a repeated request is held against the offer's expiry; only the
\* first request can be the completion acknowledgement.
Replay_NotLate(s) ==
  /\ Replayed(s) /\ Answered(s, IF req[s].late THEN "refused" ELSE "ok")
  /\ acked' = (acked \/ req[s].ack)
  /\ UNCHANGED <<process, status, trust, late, expiry, open, control, faults>>

Replay_NotCompleting(s) ==
  /\ Replayed(s) /\ Answered(s, "ok")
  /\ UNCHANGED <<process, offer, control, faults>>

Replay(s) ==
  /\ Replayed(s) /\ Answered(s, "ok")
  /\ acked' = (acked \/ req[s].ack)
  /\ UNCHANGED <<process, status, trust, late, expiry, open, control, faults>>

\* The code is used, the offer is over, or the code is not this offer's.
Refuse(s) ==
  /\ \/ status = "paired" /\ ~Replayed(s)
     \/ status = "expired"
     \/ status = "pending" /\ ~req[s].late /\ req[s].code # "current"
  /\ Answered(s, "refused")
  /\ UNCHANGED <<process, offer, control, faults>>

\* A pending session meets a request from after its expiry.
RefuseLate(s) ==
  /\ status = "pending" /\ req[s].late /\ Answered(s, "refused")
  /\ status' = "expired"
  /\ UNCHANGED <<process, trust, late, expiry, open, acked, control, faults>>

Valid(s) == status = "pending" /\ ~req[s].late /\ req[s].code = "current"

\* Mutants: a used code pairs once more; the commit itself ends the listener.
Commit_Reused(s) ==
  /\ status \in {"pending", "paired"} /\ req[s].code = "current" /\ Answered(s, "ok")
  /\ disk' = s /\ status' = "paired" /\ trust' = s
  /\ acked' = (acked \/ req[s].ack)
  /\ UNCHANGED <<pc, identity, late, expiry, open, control, faults>>

Commit_Completes(s) ==
  /\ Valid(s) /\ Answered(s, "ok")
  /\ disk' = s /\ status' = "paired" /\ trust' = s
  /\ acked' = TRUE
  /\ UNCHANGED <<pc, identity, late, expiry, open, control, faults>>

Commit(s) ==
  /\ Valid(s) /\ Answered(s, "ok")
  /\ disk' = s /\ status' = "paired" /\ trust' = s
  /\ acked' = (acked \/ req[s].ack)
  /\ UNCHANGED <<pc, identity, late, expiry, open, control, faults>>

\* Mutant: a state file that could not be made durable does not refuse.
SaveFails_Answers(s) ==
  /\ Valid(s) /\ Fault /\ disk' \in {disk, s} /\ Answered(s, "ok")
  /\ UNCHANGED <<pc, identity, offer, control>>

\* Save may fail before its rename or, syncing the directory, after it.
SaveFails(s) ==
  /\ Valid(s) /\ Fault /\ disk' \in {disk, s} /\ Answered(s, "refused")
  /\ UNCHANGED <<pc, identity, offer, control>>

-----------------------------------------------------------------------------
(* The end of an offer.                                                    *)

Tick ==
  /\ pc = "listen" /\ ~late /\ late' = TRUE
  /\ UNCHANGED <<process, status, trust, expiry, open, acked, control, req, faults>>

\* The expiry goroutine shuts the listener down only if it expired the offer.
ExpiryFires ==
  /\ expiry /\ late /\ expiry' = FALSE
  /\ IF status = "pending" THEN status' = "expired" /\ open' = FALSE
                           ELSE UNCHANGED <<status, open>>
  /\ UNCHANGED <<process, trust, late, acked, control, req, faults>>

ServeFails ==
  /\ open /\ Fault /\ open' = FALSE
  /\ UNCHANGED <<process, status, trust, late, expiry, acked, control, req>>

\* runBootstrap returns when the paired or the done channel is closed.
Return ==
  /\ pc = "listen" /\ (acked \/ ~open)
  /\ pc' = "drain" /\ open' = FALSE /\ expiry' = FALSE
  /\ UNCHANGED <<identity, disk, status, trust, late, acked, control, req, faults>>

\* The deferred Shutdown waits for the handlers still running.
Drained ==
  /\ pc = "drain" /\ \A s \in Servers : req[s].phase # "arrived"
  /\ pc' = "load"
  /\ UNCHANGED <<identity, disk, offer, control, req, faults>>

\* The process dies and is started again; its handlers die with it.
Crash ==
  /\ Fault /\ pc' = "load"
  /\ status' = "none" /\ trust' = NoServer /\ late' = FALSE
  /\ expiry' = FALSE /\ open' = FALSE /\ acked' = FALSE
  /\ req' = [s \in Servers |-> IF req[s].phase = "arrived" THEN Idle ELSE req[s]]
  /\ UNCHANGED <<identity, disk, control>>

-----------------------------------------------------------------------------
Agent ==
  \/ LoadState \/ WriteKey \/ WriteCertificate \/ StartListener \/ Return \/ Drained

Handle(s) ==
  Replay(s) \/ Refuse(s) \/ RefuseLate(s) \/ Commit(s) \/ SaveFails(s)

Next ==
  \/ Agent \/ IdentityIncomplete \/ ExpiryFires
  \/ \E s \in Servers : Arrive(s) \/ Handle(s)
  \/ \E s \in Servers : Enter(s) \/ Send(s) \/ Receive(s) \/ Lost(s)
  \/ Tick \/ ServeFails \/ Crash

Spec == Init /\ [][Next]_vars

\* Goroutines run, a timer fires, the clock moves on, and a control plane that
\* was given the code repeats its request until it has an answer.
FairSpec ==
  /\ Spec /\ WF_vars(Agent) /\ WF_vars(ExpiryFires) /\ WF_vars(Tick)
  /\ \A s \in Servers :
       WF_vars(Arrive(s)) /\ WF_vars(Handle(s)) /\ WF_vars(Send(s))
         /\ WF_vars(Receive(s) \/ Lost(s))

-----------------------------------------------------------------------------
\* Every variable holds a value of its kind.
TypeOK ==
  /\ pc \in {"load", "certify", "listen", "drain", "paired"}
  /\ identity \in {"none", "key", "both"}
  /\ disk \in Servers \cup {NoServer} /\ trust \in Servers \cup {NoServer}
  /\ status \in {"none", "pending", "paired", "expired"}
  /\ late \in BOOLEAN /\ expiry \in BOOLEAN /\ open \in BOOLEAN /\ acked \in BOOLEAN
  /\ code \in [Servers -> Codes]
  /\ req \in [Servers -> [phase : {"idle", "sent", "arrived", "ok", "refused"},
                          code : Codes, ack : BOOLEAN, late : BOOLEAN]]
  /\ confirmed \subseteq Servers /\ faults \in Nat

\* A server that was, or is being, told 204 is the one in the agent's state file
\* for good: no repeated request, second server, failed write, expiry or crash
\* may leave two servers, or a server and no agent, believing they are paired.
Promised(s) == s \in confirmed \/ req[s].phase = "ok"

ConfirmedIsDurable == \A s \in Servers : Promised(s) => disk = s

\* The listener ends as paired only when that server is on disk and knows it.
CompletionIsConfirmed == acked => disk = trust /\ trust \in confirmed

\* A confirmed server is never refused, however late it repeats its request:
\* expiry ends a pending offer, not a pairing whose answer was lost.
ConfirmedNeverRefused == \A s \in confirmed : req[s].phase # "refused"

\* A server that holds its confirmation gets its agent: no order of lost answers,
\* expiry and restarts leaves the agent listening for another one.
CompletionReached == \A s \in Servers : s \in confirmed ~> pc = "paired"

\* An offer that nobody used in time ends, so that a new code can be issued.
ExpiredOfferEnds ==
  (pc = "listen" /\ late) ~> (pc # "listen" \/ status = "paired")

\* The inductive invariant behind ConfirmedIsDurable: while a listener exists,
\* a promise is known to its session, and a session never outlives its listener.
BootstrapInv ==
  /\ TypeOK /\ ConfirmedIsDurable
  /\ pc \in {"listen", "drain"} /\ status = "paired" => disk = trust /\ trust # NoServer
  /\ pc \in {"listen", "drain"} /\ status # "paired" => \A s \in Servers : ~Promised(s)
  /\ open => pc = "listen"
  /\ pc = "certify" => disk = NoServer
  /\ pc \in {"load", "certify", "paired"} => \A s \in Servers : req[s].phase # "arrived"

\* The inductive invariant behind the other two: a completion acknowledgement is
\* sent by a confirmed server only, and a promised server uses the code of the
\* session that promised, whatever offers, crashes and requests were before.
AnswerInv ==
  /\ BootstrapInv /\ CompletionIsConfirmed /\ ConfirmedNeverRefused
  /\ acked => status = "paired"
  /\ \A s \in Servers :
       /\ req[s].ack => s \in confirmed
       /\ req[s].phase \in {"sent", "arrived"} /\ req[s].code = "current" => code[s] = "current"
       /\ Promised(s) => code[s] = "current"
       /\ s \in confirmed /\ req[s].phase \in {"sent", "arrived"} => req[s].code = "current"
=============================================================================
