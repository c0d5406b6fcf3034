--------------------------- MODULE BootstrapProofs ---------------------------
(***************************************************************************)
(* BootstrapInv is an invariant of Bootstrap for any number of control     *)
(* planes and faults, and with it the durability of every confirmation.    *)
(***************************************************************************)
EXTENDS Bootstrap, TLAPS

USE DEF Promised, Codes, Idle

\* The first start of an unpaired agent: nobody was promised anything.
LEMMA InitEstablishes == Init => BootstrapInv
<1> SUFFICES ASSUME Init PROVE BootstrapInv
  OBVIOUS
<1>1. TypeOK
  BY ServersAssumption, FaultsAssumption DEF Init, TypeOK
<1>2. \A s \in Servers : ~Promised(s)
  BY DEF Init
<1> QED BY <1>1, <1>2 DEF Init, BootstrapInv, ConfirmedIsDurable

\* run(): the listener is started only while no server was promised a pairing.
LEMMA MainPreserves == BootstrapInv /\ (Agent \/ IdentityIncomplete) => BootstrapInv'
<1> SUFFICES ASSUME BootstrapInv, Agent \/ IdentityIncomplete PROVE BootstrapInv'
  OBVIOUS
<1> USE ServersAssumption, FaultsAssumption
    DEF BootstrapInv, TypeOK, ConfirmedIsDurable, process, offer, control, Fault
<1>1. CASE LoadState
  BY <1>1 DEF LoadState
<1>2. CASE WriteKey
  BY <1>2 DEF WriteKey
<1>3. CASE WriteCertificate
  BY <1>3 DEF WriteCertificate
<1>4. CASE IdentityIncomplete
  BY <1>4 DEF IdentityIncomplete, vars
<1>5. CASE StartListener
  BY <1>5 DEF StartListener
<1>6. CASE Return
  BY <1>6 DEF Return
<1>7. CASE Drained
  BY <1>7 DEF Drained
<1> QED BY <1>1, <1>2, <1>3, <1>4, <1>5, <1>6, <1>7 DEF Agent

\* A request in the listener: only Commit makes a promise, and by then the
\* state file names the server and the session refuses every other one.
LEMMA HandlerPreserves ==
  ASSUME NEW s \in Servers, BootstrapInv, Arrive(s) \/ Handle(s)
  PROVE  BootstrapInv'
<1> USE ServersAssumption, FaultsAssumption
    DEF BootstrapInv, TypeOK, ConfirmedIsDurable, process, offer, control, Fault, Answered
<1>1. CASE Arrive(s)
  BY <1>1 DEF Arrive
<1>2. CASE Replay(s)
  BY <1>2 DEF Replay, Replayed
<1>3. CASE Refuse(s)
  BY <1>3 DEF Refuse, Replayed
<1>4. CASE RefuseLate(s)
  BY <1>4 DEF RefuseLate
<1>5. CASE Commit(s)
  BY <1>5 DEF Commit, Valid
<1>6. CASE SaveFails(s)
  <2>1. TypeOK'
    <3>1. disk' \in Servers \cup {NoServer} /\ faults' \in Nat
      BY <1>6 DEF SaveFails
    <3>2. req' \in [Servers -> [phase : {"idle", "sent", "arrived", "ok", "refused"},
                                code : Codes, ack : BOOLEAN, late : BOOLEAN]]
      BY <1>6 DEF SaveFails
    <3> QED BY <1>6, <3>1, <3>2 DEF SaveFails
  <2>2. pc = "listen" \/ pc = "drain"
    BY <1>6 DEF SaveFails
  <2>3. \A t \in Servers : ~Promised(t)'
    BY <1>6, <2>2 DEF SaveFails, Valid
  <2> QED BY <1>6, <2>1, <2>2, <2>3 DEF SaveFails, Valid
<1> QED BY <1>1, <1>2, <1>3, <1>4, <1>5, <1>6 DEF Handle

\* The control plane only turns an answer into a confirmation.
LEMMA ControlPreserves ==
  ASSUME NEW s \in Servers, BootstrapInv, Enter(s) \/ Send(s) \/ Receive(s) \/ Lost(s)
  PROVE  BootstrapInv'
<1> USE ServersAssumption, FaultsAssumption
    DEF BootstrapInv, TypeOK, ConfirmedIsDurable, process, offer, control, Fault
<1>1. CASE Enter(s)
  BY <1>1 DEF Enter
<1>2. CASE Send(s)
  BY <1>2 DEF Send
<1>3. CASE Receive(s)
  BY <1>3 DEF Receive
<1>4. CASE Lost(s)
  BY <1>4 DEF Lost
<1> QED BY <1>1, <1>2, <1>3, <1>4

\* Time, the network and the end of the process take no promise back.
LEMMA EnvironmentPreserves ==
  BootstrapInv /\ (ExpiryFires \/ Tick \/ ServeFails \/ Crash) => BootstrapInv'
<1> SUFFICES ASSUME BootstrapInv, ExpiryFires \/ Tick \/ ServeFails \/ Crash
             PROVE  BootstrapInv'
  OBVIOUS
<1> USE ServersAssumption, FaultsAssumption
    DEF BootstrapInv, TypeOK, ConfirmedIsDurable, process, offer, control, Fault
<1>1. CASE ExpiryFires
  BY <1>1 DEF ExpiryFires
<1>2. CASE Tick
  BY <1>2 DEF Tick
<1>3. CASE ServeFails
  <2>1. TypeOK'
    <3>1. faults' \in Nat
      BY <1>3 DEF ServeFails
    <3> QED BY <1>3, <3>1 DEF ServeFails
  <2>2. \A s \in Servers : Promised(s)' <=> Promised(s)
    BY <1>3 DEF ServeFails
  <2> QED BY <1>3, <2>1, <2>2 DEF ServeFails
<1>4. CASE Crash
  <2>1. TypeOK'
    <3>1. faults' \in Nat
      BY <1>4 DEF Crash
    <3>2. req' \in [Servers -> [phase : {"idle", "sent", "arrived", "ok", "refused"},
                                code : Codes, ack : BOOLEAN, late : BOOLEAN]]
      BY <1>4 DEF Crash
    <3> QED BY <1>4, <3>1, <3>2 DEF Crash
  <2>2. \A s \in Servers : Promised(s)' <=> Promised(s)
    BY <1>4 DEF Crash
  <2> QED BY <1>4, <2>1, <2>2 DEF Crash
<1> QED BY <1>1, <1>2, <1>3, <1>4

\* Whatever listener, control planes, clock and crashes do, what a session
\* promised and what the state file says agree.
THEOREM SessionInvariant == Spec => []BootstrapInv
<1>1. BootstrapInv /\ [Next]_vars => BootstrapInv'
  <2>1. CASE UNCHANGED vars
    BY <2>1 DEF vars, process, offer, control, BootstrapInv, TypeOK, ConfirmedIsDurable
  <2> QED
    BY <2>1, MainPreserves, HandlerPreserves, ControlPreserves, EnvironmentPreserves DEF Next
<1> QED BY InitEstablishes, <1>1, PTL DEF Spec

\* A server that was told 204 stays the one in the agent's state file: no
\* second server, replay, failed write, expiry or restart undoes a pairing.
THEOREM ConfirmationIsDurable == Spec => []ConfirmedIsDurable
<1>1. BootstrapInv => ConfirmedIsDurable
  BY DEF BootstrapInv
<1> QED BY SessionInvariant, <1>1, PTL

-----------------------------------------------------------------------------
(* The answers: BootstrapInv is known to hold before and after a step.     *)

Answers == AnswerInv /\ BootstrapInv'

\* What a handler and the listener rely on: a promise needs its listener's
\* session, so a new offer finds no confirmed server.
LEMMA PromisedSession ==
  ASSUME AnswerInv, NEW s \in Servers, Promised(s), pc \in {"listen", "drain"}
  PROVE  status = "paired" /\ trust = s /\ disk = s
BY DEF AnswerInv, BootstrapInv, ConfirmedIsDurable

\* The first start: nothing is sent, answered or confirmed.
LEMMA AnswerInit == Init => AnswerInv
<1> SUFFICES ASSUME Init PROVE AnswerInv
  OBVIOUS
<1> QED BY InitEstablishes DEF Init, AnswerInv, CompletionIsConfirmed, ConfirmedNeverRefused

\* run(): a new offer makes every code and request stale that nobody relies on.
LEMMA MainKeepsAnswers == Answers /\ (Agent \/ IdentityIncomplete) => AnswerInv'
<1> SUFFICES ASSUME Answers, Agent \/ IdentityIncomplete PROVE AnswerInv'
  OBVIOUS
<1> USE ServersAssumption
    DEF Answers, AnswerInv, CompletionIsConfirmed, ConfirmedNeverRefused, process, offer, control
<1>0. confirmed \subseteq Servers /\ confirmed' \subseteq Servers
  BY DEF BootstrapInv, TypeOK
<1>1. CASE StartListener
  <2>1. \A s \in Servers : ~Promised(s)
    BY <1>1 DEF StartListener, BootstrapInv, ConfirmedIsDurable
  <2>2. \A s \in Servers : s \notin confirmed /\ req[s].phase # "ok"
    BY <2>1
  <2>3. ASSUME NEW s \in Servers
        PROVE  /\ req'[s].ack = req[s].ack
               /\ req'[s].phase = req[s].phase
               /\ req'[s].phase = "sent" => req'[s].code = "stale"
               /\ req[s].phase # "arrived"
    BY <1>1 DEF StartListener, BootstrapInv, TypeOK
  <2> QED BY <1>0, <1>1, <2>2, <2>3 DEF StartListener
<1>2. CASE LoadState
  BY <1>2 DEF LoadState
<1>3. CASE WriteKey
  BY <1>3 DEF WriteKey
<1>4. CASE WriteCertificate
  BY <1>4 DEF WriteCertificate
<1>5. CASE IdentityIncomplete
  BY <1>5 DEF IdentityIncomplete, vars
<1>6. CASE Return
  BY <1>6 DEF Return
<1>7. CASE Drained
  BY <1>7 DEF Drained
<1> QED BY <1>1, <1>2, <1>3, <1>4, <1>5, <1>6, <1>7 DEF Agent

\* A handler refuses no confirmed server, and only the answer to a confirmed
\* server's request closes the paired channel.
LEMMA HandlerKeepsAnswers ==
  ASSUME NEW s \in Servers, Answers, Arrive(s) \/ Handle(s)
  PROVE  AnswerInv'
<1> USE ServersAssumption
    DEF Answers, AnswerInv, CompletionIsConfirmed, ConfirmedNeverRefused, process, offer, control
<1>0. confirmed \subseteq Servers /\ confirmed' \subseteq Servers
  BY DEF BootstrapInv, TypeOK
<1>1. CASE Arrive(s)
  BY <1>1 DEF Arrive, BootstrapInv, TypeOK
<1> SUFFICES ASSUME Handle(s) PROVE AnswerInv'
  BY <1>1
<1>2. req[s].phase = "arrived" /\ pc \in {"listen", "drain"}
  <2>1. req[s].phase = "arrived"
    BY DEF Handle, Replay, Refuse, RefuseLate, Commit, SaveFails, Answered
  <2> QED BY <2>1 DEF BootstrapInv, TypeOK
<1>3. s \in confirmed => Replayed(s) /\ status = "paired"
  BY <1>2, PromisedSession DEF Replayed
<1>4. \A t \in Servers : t # s => req'[t] = req[t]
  BY DEF Handle, Replay, Refuse, RefuseLate, Commit, SaveFails, Answered, BootstrapInv, TypeOK
<1>5. CASE Replay(s)
  <2>1. req'[s] = [Idle EXCEPT !.phase = "ok"]
    BY <1>5 DEF Replay, Answered, BootstrapInv, TypeOK
  <2>2. acked' => disk = trust /\ trust \in confirmed /\ status = "paired"
    BY <1>5, <1>2 DEF Replay, Replayed, BootstrapInv
  <2> QED BY <1>0, <1>2, <1>4, <1>5, <2>1, <2>2 DEF Replay, Replayed
<1>6. CASE Refuse(s) \/ RefuseLate(s) \/ SaveFails(s)
  <2>1. s \notin confirmed
    BY <1>3, <1>6 DEF Refuse, RefuseLate, SaveFails, Valid
  <2>2. req'[s] = [Idle EXCEPT !.phase = "refused"]
    BY <1>6 DEF Refuse, RefuseLate, SaveFails, Answered, BootstrapInv, TypeOK
  <2>3. acked' = acked /\ code' = code /\ confirmed' = confirmed /\ trust' = trust
    BY <1>6 DEF Refuse, RefuseLate, SaveFails
  <2>4. acked => status' = status /\ disk' = disk
    BY <1>6 DEF Refuse, RefuseLate, SaveFails, Valid
  <2> QED BY <1>0, <1>4, <2>1, <2>2, <2>3, <2>4
<1>7. CASE Commit(s)
  <2>1. req'[s] = [Idle EXCEPT !.phase = "ok"]
    BY <1>7 DEF Commit, Answered, BootstrapInv, TypeOK
  <2>2. s \notin confirmed /\ ~acked
    BY <1>3, <1>7 DEF Commit, Valid
  <2>3. ~acked'
    BY <1>7, <2>2 DEF Commit
  <2>4. code[s] = "current" /\ code' = code /\ confirmed' = confirmed
    BY <1>2, <1>7 DEF Commit, Valid
  <2> QED BY <1>0, <1>4, <2>1, <2>2, <2>3, <2>4
<1> QED BY <1>5, <1>6, <1>7 DEF Handle

\* A control plane is confirmed by the answer 204 alone, and acknowledges later.
LEMMA ControlKeepsAnswers ==
  ASSUME NEW s \in Servers, Answers, Enter(s) \/ Send(s) \/ Receive(s) \/ Lost(s)
  PROVE  AnswerInv'
<1> USE ServersAssumption
    DEF Answers, AnswerInv, CompletionIsConfirmed, ConfirmedNeverRefused, process, offer, control
<1>0. confirmed \subseteq Servers /\ confirmed' \subseteq Servers
  BY DEF BootstrapInv, TypeOK
<1>1. CASE Enter(s)
  BY <1>1 DEF Enter, BootstrapInv, TypeOK
<1>2. CASE Send(s)
  <2>1. req'[s] = [phase |-> "sent", code |-> code[s], ack |-> s \in confirmed, late |-> FALSE]
    BY <1>2 DEF Send, BootstrapInv, TypeOK
  <2>2. \A t \in Servers : t # s => req'[t] = req[t]
    BY <1>2 DEF Send, BootstrapInv, TypeOK
  <2>3. UNCHANGED <<process, offer, control>>
    BY <1>2 DEF Send
  <2>4. req'[s].phase = "sent" /\ req'[s].code = code[s]
    BY <2>1
  <2>5. PICK a : a = (s \in confirmed)
    BY Zenon
  <2>6. req'[s].ack => s \in confirmed
    <3>1. req'[s] = [phase |-> "sent", code |-> code[s], ack |-> a, late |-> FALSE]
      BY <2>1, <2>5, Zenon
    <3>2. req'[s].ack = a
      BY <3>1
    <3> QED BY <2>5, <3>2, Zenon
  <2>7. s \in confirmed => code[s] = "current"
    OBVIOUS
  <2> QED BY <1>0, <2>2, <2>3, <2>4, <2>6, <2>7
<1>3. CASE Receive(s)
  <2>1. req'[s] = Idle /\ \A t \in Servers : t # s => req'[t] = req[t]
    BY <1>3 DEF Receive, BootstrapInv, TypeOK
  <2>2. confirmed \subseteq confirmed' /\ confirmed' \subseteq confirmed \cup {s}
    BY <1>3 DEF Receive
  <2>3. s \in confirmed' => code[s] = "current"
    BY <1>3 DEF Receive
  <2> QED BY <1>0, <1>3, <2>1, <2>2, <2>3 DEF Receive
<1>4. CASE Lost(s)
  <2>1. req'[s] = Idle /\ \A t \in Servers : t # s => req'[t] = req[t]
    BY <1>4 DEF Lost, BootstrapInv, TypeOK
  <2>2. UNCHANGED <<process, offer, control>>
    BY <1>4 DEF Lost
  <2> QED BY <1>0, <2>1, <2>2
<1> QED BY <1>1, <1>2, <1>3, <1>4

\* The clock ends pending offers only; a crash forgets the session's channel.
LEMMA EnvironmentKeepsAnswers ==
  Answers /\ (ExpiryFires \/ Tick \/ ServeFails \/ Crash) => AnswerInv'
<1> SUFFICES ASSUME Answers, ExpiryFires \/ Tick \/ ServeFails \/ Crash PROVE AnswerInv'
  OBVIOUS
<1> USE ServersAssumption
    DEF Answers, AnswerInv, CompletionIsConfirmed, ConfirmedNeverRefused, process, offer, control
<1>0. confirmed \subseteq Servers /\ confirmed' \subseteq Servers
  BY DEF BootstrapInv, TypeOK
<1>1. CASE ExpiryFires
  BY <1>1 DEF ExpiryFires
<1>2. CASE Tick
  BY <1>2 DEF Tick
<1>3. CASE ServeFails
  <2>1. UNCHANGED <<process, status, trust, acked, control, req>>
    BY <1>3 DEF ServeFails
  <2> QED BY <2>1
<1>4. CASE Crash
  <2>1. ~acked' /\ UNCHANGED control
    BY <1>4 DEF Crash
  <2>2. \A s \in Servers : req'[s] = req[s] \/ req'[s] = Idle
    BY <1>4 DEF Crash
  <2> QED BY <1>0, <2>1, <2>2
<1> QED BY <1>1, <1>2, <1>3, <1>4

\* What the agent answers, to whom, and what its listener makes of it.
THEOREM AnswersInvariant == Spec => []AnswerInv
<1>1. AnswerInv /\ BootstrapInv' /\ [Next]_vars => AnswerInv'
  <2> SUFFICES ASSUME Answers, [Next]_vars PROVE AnswerInv'
    BY DEF Answers
  <2>1. CASE UNCHANGED vars
    BY <2>1 DEF vars, process, offer, control, Answers, AnswerInv, BootstrapInv, TypeOK,
                ConfirmedIsDurable, CompletionIsConfirmed, ConfirmedNeverRefused
  <2> QED
    BY <2>1, MainKeepsAnswers, HandlerKeepsAnswers, ControlKeepsAnswers,
       EnvironmentKeepsAnswers DEF Next
<1> QED BY AnswerInit, <1>1, SessionInvariant, PTL DEF Spec

\* runBootstrap reports a pairing only when the paired server is in the state
\* file and has itself seen the answer 204.
THEOREM CompletionIsMutual == Spec => []CompletionIsConfirmed
<1>1. AnswerInv => CompletionIsConfirmed
  BY DEF AnswerInv
<1> QED BY AnswersInvariant, <1>1, PTL

\* No later request of a paired server is refused: not for its age, not for a
\* second server's attempt, not by a restarted agent.
THEOREM ConfirmedIsServed == Spec => []ConfirmedNeverRefused
<1>1. AnswerInv => ConfirmedNeverRefused
  BY DEF AnswerInv
<1> QED BY AnswersInvariant, <1>1, PTL
=============================================================================
