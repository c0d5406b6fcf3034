----------------------------- MODULE PinRotation -----------------------------
(***************************************************************************)
(* Rotation of the pinned server certificate (internal/agentclient/pins.go *)
(* and transport/verify.go).  A heartbeat announces the next certificate   *)
(* and the agent pins it beside the current one; the first answer over a   *)
(* connection with the pending certificate promotes it and drops the old   *)
(* pin.  The goroutines of one claim share the client: each takes its      *)
(* mutex to promote, and again to stage, after the answer it acts on.      *)
(***************************************************************************)
EXTENDS Naturals, Sequences

CONSTANTS
  Requesters,  \* goroutines that send requests: executeClaim's and the heartbeat's
  Heartbeat,   \* the one whose answers announce pins
  KeepsOld,    \* whether connections outlive a change of the server's certificate
  MaxCert,     \* bound: certificates are numbered 0 .. MaxCert
  MaxFaults    \* bound: failed writes of the state file and restarts

ASSUME HeartbeatAssumption == Heartbeat \in Requesters
\* Beside the heartbeat, executeClaim is the only one: while executors log, under
\* the log sender's lock, it waits for them.
ASSUME RequestersAssumption == \A q, r \in Requesters \ {Heartbeat} : q = r
ASSUME RotationAssumption  == KeepsOld \in BOOLEAN /\ MaxCert \in Nat /\ MaxFaults \in Nat

VARIABLES
  cert,        \* the certificate the server presents to a new connection
  announced,   \* the certificate it will present next, or the same one
  mem, disk,   \* client.pins and the pins of state.json: <<old>> or <<old, pending>>
  pool,        \* certificates of the open connections that take new requests
  req,         \* the request each goroutine is busy with
  faults

vars == <<cert, announced, mem, disk, pool, req, faults>>

Idle  == [phase |-> "idle", cert |-> 0, pins |-> <<>>]
Fault == faults < MaxFaults /\ faults' = faults + 1
PinsOf(s) == {s[i] : i \in DOMAIN s}

Init ==
  /\ cert = 0 /\ announced = 0 /\ mem = <<0>> /\ disk = <<0>>
  /\ pool = {} /\ req = [r \in Requesters |-> Idle] /\ faults = 0

-----------------------------------------------------------------------------
(* The server.                                                             *)

Announce ==
  /\ announced = cert /\ cert < MaxCert /\ announced' = cert + 1
  /\ UNCHANGED <<cert, mem, disk, pool, req, faults>>

\* The certificate is changed by a restart of the server, or in place.
Switch ==
  /\ announced # cert /\ announced \in PinsOf(mem) \cap PinsOf(disk)
  /\ cert' = announced /\ pool' = IF KeepsOld THEN pool ELSE {}
  /\ UNCHANGED <<announced, mem, disk, req, faults>>

View(c, n) == IF c = n THEN <<c>> ELSE <<c, n>>

\* The pins are those of the moment of answering, whenever they are acted on.
Answer(r) ==
  /\ req[r].phase = "sent"
  /\ req' = [req EXCEPT ![r].phase = "answered",
                        ![r].pins = IF r = Heartbeat THEN View(cert, announced) ELSE <<>>]
  /\ UNCHANGED <<cert, announced, mem, disk, pool, faults>>

-----------------------------------------------------------------------------
(* The client.                                                             *)

\* A pooled connection is used again; the pins are compared in its handshake.
Send(r) ==
  /\ req[r].phase = "idle"
  /\ \E c \in pool \cup ({cert} \cap PinsOf(mem)) :
       /\ req' = [req EXCEPT ![r] = [Idle EXCEPT !.phase = "sent", !.cert = c]]
       /\ pool' = pool \cup {c}
  /\ UNCHANGED <<cert, announced, mem, disk, faults>>

\* persistPins saves first; a failed Save may have replaced the file.
Persist(pins) == disk' = pins /\ mem' = pins /\ UNCHANGED faults
PersistFails(pins) == Fault /\ disk' \in {disk, pins} /\ UNCHANGED mem

Done(r) == req' = [req EXCEPT ![r] = Idle]

\* Mutant: whichever pin a connection was verified with is promoted.
Promotes_AnyPin(r) == Len(mem) = 2 /\ req[r].cert \in PinsOf(mem)

Promotes(r) == Len(mem) = 2 /\ req[r].cert = mem[2]

\* Every answer may promote; the heartbeat's then goes on to stage.
Promote(r) ==
  LET pins    == <<req[r].cert>>
      proceed == IF r = Heartbeat THEN req' = [req EXCEPT ![r].phase = "promoted"] ELSE Done(r)
  IN
  /\ req[r].phase = "answered"
  /\ \/ Promotes(r) /\ Persist(pins) /\ proceed
     \/ Promotes(r) /\ PersistFails(pins) /\ Done(r)
     \/ ~Promotes(r) /\ UNCHANGED <<mem, disk, faults>> /\ proceed
  /\ UNCHANGED <<cert, announced, pool>>

\* Mutants: a second pin is never replaced; the announced pin replaces the
\* current one; every announced pin is added.
Staged_Once(pins) ==
  IF Len(mem) = 2 \/ pins = mem THEN mem
  ELSE IF pins[1] = mem[1] THEN pins ELSE <<mem[1], pins[1]>>

Staged_Replaces(pins) == <<pins[Len(pins)]>>

Staged_Appends(pins) ==
  IF PinsOf(pins) \subseteq PinsOf(mem) THEN mem ELSE Append(mem, pins[Len(pins)])

\* The pins to keep after an announcement.
Staged(pins) ==
  IF pins[1] = mem[1] THEN (IF Len(pins) = 2 THEN pins ELSE mem)
  ELSE IF Len(mem) = 2 THEN mem    \* known already, or refused
  ELSE <<mem[1], pins[1]>>

\* Also when it changes nothing, a pair that starts with the old pin is saved.
Stage(r) ==
  LET pins   == req[r].pins
      saving == (Len(pins) = 2 /\ pins[1] = mem[1]) \/ Staged(pins) # mem
  IN
  /\ req[r].phase = "promoted" /\ Done(r)
  /\ \/ /\ saving /\ Persist(Staged(pins))
        /\ pool' = {c \in pool : \E q \in Requesters : req[q].phase = "sent" /\ req[q].cert = c}
     \/ saving /\ PersistFails(Staged(pins)) /\ UNCHANGED pool
     \/ ~saving /\ UNCHANGED <<mem, disk, pool, faults>>
  /\ UNCHANGED <<cert, announced>>

\* An idle connection times out, or the server closes it.
Disconnect(c) ==
  /\ c \in pool /\ \A r \in Requesters : ~(req[r].phase = "sent" /\ req[r].cert = c)
  /\ pool' = pool \ {c}
  /\ UNCHANGED <<cert, announced, mem, disk, req, faults>>

Restart ==
  /\ Fault /\ mem' = disk /\ pool' = {} /\ req' = [r \in Requesters |-> Idle]
  /\ UNCHANGED <<cert, announced, disk>>

-----------------------------------------------------------------------------
Step(r) == Send(r) \/ Answer(r) \/ Promote(r) \/ Stage(r)

Next ==
  \/ Announce \/ Switch \/ Restart
  \/ \E r \in Requesters : Step(r)
  \/ \E c \in 0..MaxCert : Disconnect(c)

Spec == Init /\ [][Next]_vars

\* Goroutines keep running and the server answers them.
FairSpec == Spec /\ \A r \in Requesters : WF_vars(Step(r))

-----------------------------------------------------------------------------
Pins == {<<c>> : c \in 0..MaxCert} \cup {<<c, d>> : c, d \in 0..MaxCert}

\* Every variable holds a value of its kind; there are one or two pins.
TypeOK ==
  /\ cert \in 0..MaxCert /\ announced \in {cert, cert + 1} /\ announced <= MaxCert
  /\ mem \in Pins /\ disk \in Pins /\ pool \subseteq 0..MaxCert
  /\ req \in [Requesters -> [phase : {"idle", "sent", "answered", "promoted"},
                             cert : 0..MaxCert, pins : Pins \cup {<<>>}]]
  /\ faults \in Nat

\* The agent can always make a new connection, now and after a restart: late
\* answers, concurrent promotions and failed writes never drop the pin in use.
Connectable == cert \in PinsOf(mem) /\ cert \in PinsOf(disk)

\* The inductive invariant behind it, where connections do not outlive a change:
\* the pins are those of one rotation or a retired one that no request can still
\* promote, and the heartbeat's late answer does not bring back one that can.
Rotating(s) == s \in {<<cert>>, <<cert, cert + 1>>, <<cert - 1, cert>>}
Retired(s)  == \E c \in 0..MaxCert : c < cert /\ s = <<cert, c>>
Acted       == req[Heartbeat].phase \in {"answered", "promoted"}

PinsInv ==
  /\ TypeOK /\ pool \subseteq {cert}
  /\ Rotating(mem) \/ Retired(mem)
  /\ Rotating(disk) \/ Retired(disk)
  /\ mem = <<cert - 1, cert>> => disk \in {mem, <<cert>>}
  /\ \A r \in Requesters : req[r].phase # "idle" =>
       /\ req[r].cert <= cert
       /\ Retired(mem) => req[r].cert > mem[2]
       /\ req[r].phase = "promoted" => r = Heartbeat
       /\ Acted /\ mem = <<cert>> /\ req[Heartbeat].pins[1] < cert /\ r # Heartbeat
            => req[r].cert > req[Heartbeat].pins[1]
  /\ Acted => \E c \in 0..cert : /\ req[Heartbeat].cert <= c
                               /\ req[Heartbeat].pins \in {<<c>>, <<c, c + 1>>}

\* Promotion drops the older of two pins and keeps the newer.
PromotionRemovesOldPin ==
  [][Len(disk) = 2 /\ Len(disk') = 1 => \A c \in PinsOf(disk) : disk'[1] >= c]_vars

\* An announced certificate gets pinned, whatever a previous rotation left.
AnnouncementIsStaged ==
  \A c \in 0..MaxCert : announced = c ~> (c \in PinsOf(mem) \/ announced > c)
=============================================================================
