-------------------------- MODULE PinRotationProofs --------------------------
(***************************************************************************)
(* The pins in memory and in the state file never lose the certificate in  *)
(* use, for any number of rotations, failed writes and restarts, when a    *)
(* change of the server's certificate closes its connections.              *)
(***************************************************************************)
EXTENDS PinRotation, TLAPS

USE HeartbeatAssumption, RotationAssumption

-----------------------------------------------------------------------------
(* One pin, two pins.                                                      *)

LEMMA PinsOfOne == ASSUME NEW c PROVE PinsOf(<<c>>) = {c}
BY DEF PinsOf

LEMMA PinsOfTwo == ASSUME NEW c, NEW d PROVE PinsOf(<<c, d>>) = {c, d}
BY DEF PinsOf

\* What View, Promote and Stage build are pins.
LEMMA PinsType ==
  /\ \A c \in 0..MaxCert : <<c>> \in Pins
  /\ \A c, d \in 0..MaxCert : <<c, d>> \in Pins
  /\ \A s \in Pins : \/ \E c \in 0..MaxCert : s = <<c>>
                     \/ \E c, d \in 0..MaxCert : s = <<c, d>>
BY DEF Pins

\* In an invariant state the certificate in use is pinned.
LEMMA ShapeIsConnectable ==
  ASSUME cert \in Nat, NEW s, Rotating(s) \/ Retired(s)
  PROVE  cert \in PinsOf(s)
<1>1. CASE s = <<cert>>
  BY <1>1, PinsOfOne
<1>2. CASE \E d : s = <<cert, d>>
  BY <1>2, PinsOfTwo
<1>3. CASE s = <<cert - 1, cert>>
  BY <1>3, PinsOfTwo
<1> QED BY <1>1, <1>2, <1>3 DEF Rotating, Retired

\* A pin is promoted only when it is the certificate in use.
LEMMA PromotedPin ==
  ASSUME PinsInv, NEW r \in Requesters, req[r].phase = "answered", Promotes(r)
  PROVE  mem = <<cert - 1, cert>> /\ req[r].cert = cert
<1>1. cert \in Nat /\ req[r].cert \in Nat /\ req[r].cert <= cert
  BY DEF PinsInv, TypeOK
<1>2. CASE mem = <<cert>>
  BY <1>2 DEF Promotes
<1>3. CASE mem = <<cert, cert + 1>>
  BY <1>1, <1>3 DEF Promotes
<1>4. CASE Retired(mem)
  BY <1>1, <1>4 DEF Promotes, PinsInv
<1>5. CASE mem = <<cert - 1, cert>>
  BY <1>5 DEF Promotes
<1> QED BY <1>2, <1>3, <1>4, <1>5 DEF PinsInv, Rotating

\* An announcement changes the pins to the next pair, or brings back the pin that
\* was retired while its answer waited.
LEMMA StagedPins ==
  ASSUME PinsInv, Acted
  PROVE  LET pins == req[Heartbeat].pins IN
         /\ Staged(pins) \in Pins
         /\ \/ Staged(pins) = mem
            \/ Staged(pins) = <<cert, cert + 1>>
            \/ mem = <<cert>> /\ pins[1] < cert /\ Staged(pins) = <<cert, pins[1]>>
<1> DEFINE pins == req[Heartbeat].pins
<1>1. PICK c \in 0..cert : pins = <<c>> \/ pins = <<c, c + 1>>
  BY DEF PinsInv
<1>2. cert \in 0..MaxCert /\ c \in 0..MaxCert /\ mem \in Pins
  BY <1>1 DEF PinsInv, TypeOK
<1>3. pins[1] = c /\ Len(pins) \in {1, 2} /\ (Len(pins) = 2 => pins = <<c, c + 1>>)
  BY <1>1
<1>4. pins = <<c, c + 1>> => c + 1 \in 0..MaxCert
  <2> SUFFICES ASSUME pins = <<c, c + 1>> PROVE c + 1 \in 0..MaxCert
    OBVIOUS
  <2>1. pins \in Pins \cup {<<>>}
    BY DEF PinsInv, TypeOK
  <2>2. Len(pins) = 2 /\ pins[2] = c + 1
    OBVIOUS
  <2>3. pins \in Pins
    BY <2>1, <2>2
  <2>4. pins[2] \in 0..MaxCert
    BY <2>2, <2>3 DEF Pins
  <2> QED BY <2>2, <2>4
<1>5. CASE mem = <<cert>>
  <2>1. mem[1] = cert /\ Len(mem) = 1
    BY <1>5
  <2>2. Staged(pins) = IF c = cert THEN (IF Len(pins) = 2 THEN <<cert, cert + 1>> ELSE mem)
                       ELSE <<cert, c>>
    BY <1>3, <2>1 DEF Staged
  <2> QED BY <1>2, <1>3, <1>4, <1>5, <2>2, PinsType
<1>6. CASE mem = <<cert, cert + 1>> \/ Retired(mem)
  <2>1. mem[1] = cert /\ Len(mem) = 2
    BY <1>6 DEF Retired
  <2>2. Staged(pins) = IF c = cert /\ Len(pins) = 2 THEN <<cert, cert + 1>> ELSE mem
    BY <1>3, <2>1 DEF Staged
  <2> QED BY <1>2, <1>3, <1>4, <2>2, PinsType
<1>7. CASE mem = <<cert - 1, cert>>
  <2>1. mem[1] = cert - 1 /\ Len(mem) = 2
    BY <1>7
  <2>2. Staged(pins) = mem
    BY <1>2, <1>3, <1>7, <2>1 DEF Staged
  <2> QED BY <1>2, <2>2
<1> QED BY <1>5, <1>6, <1>7 DEF PinsInv, Rotating

-----------------------------------------------------------------------------
(* The server.                                                             *)

\* Before the first rotation.
LEMMA PinsInit == Init => PinsInv
<1> SUFFICES ASSUME Init PROVE PinsInv
  OBVIOUS
<1>1. TypeOK
  BY DEF Init, TypeOK, Pins, Idle
<1>2. Rotating(mem) /\ Rotating(disk) /\ mem # <<cert - 1, cert>>
  BY DEF Init, Rotating
<1> QED BY <1>1, <1>2 DEF Init, PinsInv, Idle, Acted

\* Announcing changes no pin; the certificate changes when both copies have it.
LEMMA ServerPreserves ==
  ASSUME ~KeepsOld, PinsInv, Announce \/ Switch
  PROVE  PinsInv'
<1>1. CASE Announce
  <2>1. TypeOK'
    BY <1>1 DEF Announce, PinsInv, TypeOK
  <2> QED BY <1>1, <2>1 DEF Announce, PinsInv, Rotating, Retired, Acted
<1>2. CASE Switch
  <2>1. cert \in Nat /\ announced = cert + 1 /\ announced \in 0..MaxCert
    BY <1>2 DEF Switch, PinsInv, TypeOK
  <2>2. ASSUME NEW s, Rotating(s) \/ Retired(s), cert + 1 \in PinsOf(s)
        PROVE  s = <<cert, cert + 1>>
    <3>1. s # <<cert>>
      BY <2>1, <2>2, PinsOfOne
    <3>2. s # <<cert - 1, cert>>
      BY <2>1, <2>2, PinsOfTwo
    <3>3. ~Retired(s)
      BY <2>1, <2>2, PinsOfTwo DEF Retired
    <3> QED BY <2>2, <3>1, <3>2, <3>3 DEF Rotating
  <2>3. mem = <<cert, cert + 1>> /\ disk = <<cert, cert + 1>>
    BY <1>2, <2>1, <2>2 DEF Switch, PinsInv
  <2>4. cert' = cert + 1 /\ pool' = {} /\ UNCHANGED <<announced, mem, disk, req, faults>>
    BY <1>2, <2>1 DEF Switch
  <2>5. TypeOK'
    BY <2>1, <2>4 DEF PinsInv, TypeOK
  <2>6. mem' = <<cert' - 1, cert'>> /\ disk' = mem'
    BY <2>1, <2>3, <2>4
  <2>7. ~Retired(mem)' /\ mem' # <<cert'>>
    BY <2>1, <2>6 DEF Retired
  <2>8. Rotating(mem)' /\ Rotating(disk)'
    BY <2>6 DEF Rotating
  <2>9. \A r \in Requesters : req[r].phase # "idle" =>
          req[r].cert <= cert' /\ (req[r].phase = "promoted" => r = Heartbeat)
    BY <2>1, <2>4 DEF PinsInv, TypeOK
  <2>10. Acted => \E c \in 0..cert' : /\ req[Heartbeat].cert <= c
                                      /\ req[Heartbeat].pins \in {<<c>>, <<c, c + 1>>}
    BY <2>1, <2>4 DEF PinsInv
  <2> QED BY <2>4, <2>5, <2>6, <2>7, <2>8, <2>9, <2>10 DEF PinsInv, Acted
<1> QED BY <1>1, <1>2

-----------------------------------------------------------------------------
(* Requests.                                                               *)

Requests == [phase : {"idle", "sent", "answered", "promoted"},
             cert : 0..MaxCert, pins : Pins \cup {<<>>}]

\* A new request goes over the certificate in use, which no retired pin matches.
LEMMA SendPreserves ==
  ASSUME PinsInv, NEW r \in Requesters, Send(r)
  PROVE  PinsInv'
<1>1. req' = [req EXCEPT ![r] = [phase |-> "sent", cert |-> cert, pins |-> <<>>]]
  BY DEF Send, PinsInv, TypeOK, Idle
<1>2. pool' \subseteq {cert} /\ UNCHANGED <<cert, announced, mem, disk, faults>>
  BY DEF Send, PinsInv
<1>3. TypeOK'
  BY <1>1, <1>2 DEF PinsInv, TypeOK
<1>4. req'[r] = [phase |-> "sent", cert |-> cert, pins |-> <<>>]
      /\ \A q \in Requesters : q # r => req'[q] = req[q]
  BY <1>1 DEF PinsInv, TypeOK
<1>5. Acted' => Acted /\ r # Heartbeat /\ req'[Heartbeat] = req[Heartbeat]
  BY <1>4 DEF Acted
<1>6. Retired(mem) => cert > mem[2]
  BY DEF Retired, PinsInv, TypeOK
<1> QED BY <1>2, <1>3, <1>4, <1>5, <1>6 DEF PinsInv, Rotating, Retired, TypeOK

\* The heartbeat's answer announces the certificate in use, or it and the next.
LEMMA AnswerPreserves ==
  ASSUME PinsInv, NEW r \in Requesters, Answer(r)
  PROVE  PinsInv'
<1>1. UNCHANGED <<cert, announced, mem, disk, pool, faults>>
  BY DEF Answer
<1>2. /\ req[r].phase = "sent" /\ req'[r].phase = "answered"
      /\ req'[r].cert = req[r].cert
      /\ req'[r].pins = IF r = Heartbeat THEN View(cert, announced) ELSE <<>>
      /\ \A q \in Requesters : q # r => req'[q] = req[q]
  BY DEF Answer, PinsInv, TypeOK
<1>3. View(cert, announced) \in Pins /\ View(cert, announced)[1] = cert
      /\ View(cert, announced) \in {<<cert>>, <<cert, cert + 1>>}
  BY PinsType DEF View, PinsInv, TypeOK
<1>4. TypeOK'
  <2>1. req' \in [Requesters -> Requests]
    BY <1>2, <1>3 DEF Answer, PinsInv, TypeOK, Requests
  <2> QED BY <1>1, <2>1 DEF PinsInv, TypeOK, Requests
<1>5. CASE r = Heartbeat
  <2>1. req'[Heartbeat].pins[1] = cert
    BY <1>2, <1>3, <1>5
  <2>2. req[r].cert <= cert /\ cert \in 0..cert
    BY <1>2 DEF PinsInv, TypeOK
  <2>3. Acted' => \E c \in 0..cert : /\ req'[Heartbeat].cert <= c
                                     /\ req'[Heartbeat].pins \in {<<c>>, <<c, c + 1>>}
    BY <1>2, <1>3, <1>5, <2>2
  <2>4. ~(req'[Heartbeat].pins[1] < cert')
    BY <1>1, <2>1, <2>2
  <2>5. ASSUME NEW q \in Requesters, req'[q].phase # "idle"
        PROVE  /\ req'[q].cert <= cert' /\ (Retired(mem)' => req'[q].cert > mem'[2])
               /\ req'[q].phase = "promoted" => q = Heartbeat
    BY <1>1, <1>2, <2>5 DEF PinsInv, Retired
  <2>6. mem' = <<cert' - 1, cert'>> => disk' \in {mem', <<cert'>>}
    BY <1>1 DEF PinsInv
  <2>7. (Rotating(mem) \/ Retired(mem))' /\ (Rotating(disk) \/ Retired(disk))'
    BY <1>1 DEF PinsInv, Rotating, Retired
  <2>8. pool' \subseteq {cert'}
    BY <1>1 DEF PinsInv
  <2> QED BY <1>1, <1>4, <2>3, <2>4, <2>5, <2>6, <2>7, <2>8 DEF PinsInv
<1>6. CASE r # Heartbeat
  <2>1. req'[Heartbeat] = req[Heartbeat] /\ (Acted' <=> Acted)
    BY <1>2, <1>6 DEF Acted
  <2> QED BY <1>1, <1>2, <1>4, <1>6, <2>1 DEF PinsInv, Rotating, Retired
<1> QED BY <1>5, <1>6

\* Connections close and the agent restarts; the state file is what remains.
LEMMA EnvironmentPreserves ==
  ASSUME PinsInv, Restart \/ \E c \in 0..MaxCert : Disconnect(c)
  PROVE  PinsInv'
<1>1. CASE Restart
  <2>1. mem' = disk /\ pool' = {} /\ UNCHANGED <<cert, announced, disk>> /\ faults' \in Nat
    BY <1>1 DEF Restart, Fault, PinsInv, TypeOK
  <2>2. req' = [r \in Requesters |-> Idle]
    BY <1>1 DEF Restart
  <2>3. TypeOK'
    BY <2>1, <2>2 DEF PinsInv, TypeOK, Idle
  <2>4. ~Acted'
    BY <2>2 DEF Acted, Idle
  <2> QED BY <2>1, <2>2, <2>3, <2>4 DEF PinsInv, Rotating, Retired, Idle
<1>2. ASSUME NEW c \in 0..MaxCert, Disconnect(c) PROVE PinsInv'
  BY <1>2 DEF Disconnect, PinsInv, TypeOK, Rotating, Retired, Acted
<1> QED BY <1>1, <1>2

-----------------------------------------------------------------------------
(* What an answer does to the pins.                                        *)

\* A requester that is done has left nothing behind.
LEMMA DoneType ==
  ASSUME PinsInv, NEW r \in Requesters, Done(r)
  PROVE  /\ req' \in [Requesters -> Requests] /\ req'[r] = Idle
         /\ \A q \in Requesters : q # r => req'[q] = req[q]
BY DEF Done, Idle, PinsInv, TypeOK, Requests

\* A step that leaves the pins alone and finishes a request.
LEMMA DonePreserves ==
  ASSUME PinsInv, NEW r \in Requesters, Done(r), UNCHANGED <<cert, announced, mem, disk>>,
         pool' \subseteq pool, faults' \in Nat
  PROVE  PinsInv'
<1>1. /\ req' \in [Requesters -> Requests] /\ req'[r].phase = "idle"
      /\ \A q \in Requesters : q # r => req'[q] = req[q]
  BY DoneType DEF Idle
<1>2. TypeOK'
  BY <1>1 DEF PinsInv, TypeOK, Requests
<1>3. Acted' => Acted /\ r # Heartbeat /\ req'[Heartbeat] = req[Heartbeat]
  BY <1>1 DEF Acted
<1> QED BY <1>1, <1>2, <1>3 DEF PinsInv, Rotating, Retired

\* Promotion keeps the certificate in use; nobody else is left to act on less.
LEMMA PromotePreserves ==
  ASSUME PinsInv, NEW r \in Requesters, Promote(r)
  PROVE  PinsInv'
<1>1. req[r].phase = "answered" /\ UNCHANGED <<cert, announced, pool>>
  BY DEF Promote
<1>2. cert \in 0..MaxCert /\ cert \in Nat
  BY DEF PinsInv, TypeOK
<1> DEFINE proceed == IF r = Heartbeat THEN req' = [req EXCEPT ![r].phase = "promoted"]
                      ELSE Done(r)
<1>3. ASSUME proceed
      PROVE  /\ req' \in [Requesters -> Requests]
             /\ \A q \in Requesters : q # r => req'[q] = req[q]
             /\ r # Heartbeat => req'[r].phase = "idle"
             /\ r = Heartbeat => /\ req'[r].phase = "promoted"
                                 /\ req'[r].cert = req[r].cert /\ req'[r].pins = req[r].pins
  <2>1. CASE r = Heartbeat
    BY <1>3, <2>1 DEF PinsInv, TypeOK, Requests
  <2>2. CASE r # Heartbeat
    BY <1>3, <2>2, DoneType DEF Idle
  <2> QED BY <2>1, <2>2
<1>4. ASSUME proceed PROVE Acted' => Acted /\ \E c \in 0..cert :
          /\ req'[Heartbeat].cert <= c /\ req'[Heartbeat].pins \in {<<c>>, <<c, c + 1>>}
          /\ req'[Heartbeat].pins = req[Heartbeat].pins
  BY <1>1, <1>3, <1>4 DEF PinsInv, Acted
<1>5. CASE Promotes(r) /\ Persist(<<req[r].cert>>) /\ proceed
  <2>1. mem' = <<cert>> /\ disk' = <<cert>> /\ UNCHANGED faults
    BY <1>1, <1>5, PromotedPin DEF Persist
  <2>2. TypeOK'
    BY <1>1, <1>2, <1>3, <1>5, <2>1, PinsType DEF PinsInv, TypeOK, Requests
  <2>3. Rotating(mem)' /\ Rotating(disk)' /\ ~Retired(mem)' /\ mem' # <<cert' - 1, cert'>>
    BY <1>1, <2>1 DEF Rotating, Retired
  <2>4. ASSUME NEW q \in Requesters, req'[q].phase # "idle"
        PROVE  /\ req'[q].cert <= cert'
               /\ req'[q].phase = "promoted" => q = Heartbeat
               /\ Acted' /\ req'[Heartbeat].pins[1] < cert' => q = Heartbeat
    <3>1. CASE r = Heartbeat
      <4>1. req[r].cert = cert
        BY <1>1, <1>5, PromotedPin
      <4>2. Acted' => ~(req'[Heartbeat].pins[1] < cert')
        BY <1>1, <1>2, <1>3, <1>4, <1>5, <3>1, <4>1
      <4> QED BY <1>1, <1>3, <1>5, <2>4, <3>1, <4>2 DEF PinsInv
    <3>2. CASE r # Heartbeat
      BY <1>1, <1>3, <1>5, <2>4, <3>2, RequestersAssumption DEF PinsInv
    <3> QED BY <3>1, <3>2
  <2> QED BY <1>1, <1>4, <1>5, <2>2, <2>3, <2>4 DEF PinsInv
<1>6. CASE Promotes(r) /\ PersistFails(<<req[r].cert>>) /\ Done(r)
  <2>1. mem = <<cert - 1, cert>> /\ disk' \in {disk, <<cert>>} /\ faults' \in Nat
        /\ UNCHANGED mem
    BY <1>1, <1>6, PromotedPin DEF PersistFails, Fault, PinsInv, TypeOK
  <2>2. CASE disk' = disk
    BY <1>1, <1>6, <2>1, <2>2, DonePreserves
  <2>3. CASE disk' = <<cert>>
    <3>1. /\ req' \in [Requesters -> Requests] /\ req'[r].phase = "idle"
          /\ \A q \in Requesters : q # r => req'[q] = req[q]
      BY <1>6, DoneType DEF Idle
    <3>2. TypeOK'
      BY <1>1, <1>2, <2>1, <2>3, <3>1, PinsType DEF PinsInv, TypeOK, Requests
    <3>3. Acted' => Acted /\ r # Heartbeat /\ req'[Heartbeat] = req[Heartbeat]
      BY <3>1 DEF Acted
    <3>4. Rotating(disk)'
      BY <1>1, <2>3 DEF Rotating
    <3> QED BY <1>1, <2>1, <2>3, <3>1, <3>2, <3>3, <3>4 DEF PinsInv, Rotating, Retired
  <2> QED BY <2>1, <2>2, <2>3
<1>7. CASE proceed /\ UNCHANGED <<mem, disk, faults>>
  <2>1. TypeOK'
    BY <1>1, <1>3, <1>7 DEF PinsInv, TypeOK, Requests
  <2>2. ASSUME NEW q \in Requesters, req'[q].phase # "idle"
        PROVE  req[q].phase # "idle" /\ req'[q].cert = req[q].cert
               /\ (req'[q].phase = "promoted" => q = Heartbeat)
    BY <1>1, <1>3, <1>7, <2>2 DEF PinsInv
  <2> QED BY <1>1, <1>4, <1>7, <2>1, <2>2 DEF PinsInv, Rotating, Retired
<1> QED BY <1>5, <1>6, <1>7 DEF Promote

\* Staging acts on the heartbeat's answer only, and at worst brings back a retired
\* pin that no request in flight was verified with.
LEMMA StagePreserves ==
  ASSUME PinsInv, NEW r \in Requesters, Stage(r)
  PROVE  PinsInv'
<1> DEFINE new == Staged(req[Heartbeat].pins)
<1>1. /\ r = Heartbeat /\ Acted /\ Done(r) /\ UNCHANGED <<cert, announced>>
      /\ pool' \subseteq pool
  BY DEF Stage, PinsInv, Acted
<1>2. cert \in 0..MaxCert /\ cert \in Nat
  BY DEF PinsInv, TypeOK
<1>3. /\ new \in Pins
      /\ \/ new = mem
         \/ new = <<cert, cert + 1>>
         \/ mem = <<cert>> /\ req[Heartbeat].pins[1] < cert
              /\ new = <<cert, req[Heartbeat].pins[1]>>
  BY <1>1, StagedPins
<1>4. /\ req' \in [Requesters -> Requests] /\ req'[r].phase = "idle"
      /\ \A q \in Requesters : q # r => req'[q] = req[q]
  BY <1>1, DoneType DEF Idle
<1>5. ~Acted'
  BY <1>1, <1>4 DEF Acted
<1>6. Rotating(new) \/ Retired(new)
  <2>1. CASE new = mem
    BY <2>1 DEF PinsInv, Rotating, Retired
  <2>2. CASE new = <<cert, cert + 1>>
    BY <2>2 DEF Rotating
  <2>3. CASE req[Heartbeat].pins[1] < cert /\ new = <<cert, req[Heartbeat].pins[1]>>
    <3>1. req[Heartbeat].pins[1] \in 0..MaxCert
      BY <1>1, <1>2 DEF PinsInv
    <3> QED BY <2>3, <3>1 DEF Retired
  <2> QED BY <1>3, <2>1, <2>2, <2>3
<1>7. Retired(new) => \A q \in Requesters \ {r} : req[q].phase # "idle" => req[q].cert > new[2]
  <2>1. CASE new = mem
    BY <2>1 DEF PinsInv
  <2>2. CASE new = <<cert, cert + 1>>
    BY <1>2, <2>2 DEF Retired
  <2>3. CASE mem = <<cert>> /\ req[Heartbeat].pins[1] < cert
             /\ new = <<cert, req[Heartbeat].pins[1]>>
    BY <1>1, <2>3 DEF PinsInv
  <2> QED BY <1>3, <2>1, <2>2, <2>3
<1>8. mem = <<cert - 1, cert>> => new = mem
  BY <1>1, <1>2, <1>3 DEF PinsInv, Rotating, Staged
<1>9. (faults \in Nat)'
  BY DEF Stage, Persist, PersistFails, Fault, PinsInv, TypeOK
<1>10. CASE Persist(new)
  <2>1. mem' = new /\ disk' = new
    BY <1>10 DEF Persist
  <2>2. TypeOK'
    BY <1>1, <1>3, <1>4, <1>9, <2>1 DEF PinsInv, TypeOK, Requests
  <2>3. (Rotating(mem) \/ Retired(mem))' /\ (Rotating(disk) \/ Retired(disk))'
    BY <1>1, <1>6, <2>1 DEF Rotating, Retired
  <2>4. Retired(mem)' => Retired(new) /\ mem'[2] = new[2]
    BY <1>1, <2>1 DEF Retired
  <2> QED BY <1>1, <1>4, <1>5, <1>7, <2>1, <2>2, <2>3, <2>4 DEF PinsInv
<1>11. CASE PersistFails(new)
  <2>1. mem' = mem /\ disk' \in {disk, new}
    BY <1>11 DEF PersistFails
  <2>2. CASE disk' = disk
    BY <1>1, <1>9, <2>1, <2>2, DonePreserves
  <2>3. CASE disk' = new
    <3>1. TypeOK'
      BY <1>1, <1>3, <1>4, <1>9, <2>1, <2>3 DEF PinsInv, TypeOK, Requests
    <3>2. (Rotating(mem) \/ Retired(mem))' /\ (Rotating(disk) \/ Retired(disk))'
      BY <1>1, <1>6, <2>1, <2>3 DEF PinsInv, Rotating, Retired
    <3>3. Retired(mem)' => Retired(mem)
      BY <1>1, <2>1 DEF Retired
    <3> QED BY <1>1, <1>4, <1>5, <1>8, <2>1, <2>3, <3>1, <3>2, <3>3 DEF PinsInv
  <2> QED BY <2>1, <2>2, <2>3
<1>12. CASE UNCHANGED <<mem, disk, pool, faults>>
  BY <1>1, <1>9, <1>12, DonePreserves
<1> QED BY <1>1, <1>10, <1>11, <1>12 DEF Stage

-----------------------------------------------------------------------------
(* The theorems.                                                           *)

LEMMA NextPreserves == ~KeepsOld /\ PinsInv /\ [Next]_vars => PinsInv'
<1> SUFFICES ASSUME ~KeepsOld, PinsInv, [Next]_vars PROVE PinsInv'
  OBVIOUS
<1>1. CASE UNCHANGED vars
  BY <1>1 DEF vars, PinsInv, TypeOK, Rotating, Retired, Acted
<1>2. CASE Next
  BY <1>2, ServerPreserves, SendPreserves, AnswerPreserves, PromotePreserves,
     StagePreserves, EnvironmentPreserves DEF Next, Step
<1> QED BY <1>1, <1>2

\* The pins are those of the rotation in progress, whatever saves fail and however
\* late the heartbeat's announcement is acted on (promotePins, stagePins).
THEOREM PinsInvariant == ASSUME ~KeepsOld PROVE Spec => []PinsInv
BY PinsInit, NextPreserves, PTL DEF Spec

\* The agent can connect, and still can when it is restarted: the certificate in
\* use is pinned in memory and in the state file.
THEOREM AlwaysConnectable == ASSUME ~KeepsOld PROVE Spec => []Connectable
<1>1. PinsInv => Connectable
  <2> SUFFICES ASSUME PinsInv PROVE Connectable
    OBVIOUS
  <2>1. cert \in Nat
    BY DEF PinsInv, TypeOK
  <2> QED BY <2>1, ShapeIsConnectable DEF PinsInv, Connectable
<1> QED BY PinsInvariant, <1>1, PTL

\* The state file goes from two pins to one only by dropping the older: a failed
\* save of a promotion included (persistPins).
THEOREM PromotionDropsOld == ASSUME ~KeepsOld PROVE Spec => PromotionRemovesOldPin
<1>1. PinsInv /\ [Next]_vars
        => [Len(disk) = 2 /\ Len(disk') = 1 => \A c \in PinsOf(disk) : disk'[1] >= c]_vars
  <2> SUFFICES ASSUME PinsInv, Next, Len(disk) = 2, Len(disk') = 1, NEW c \in PinsOf(disk)
               PROVE  disk'[1] >= c
    OBVIOUS
  <2>1. cert \in Nat
    BY DEF PinsInv, TypeOK
  <2>2. disk' # disk
    OBVIOUS
  <2>3. ASSUME NEW r \in Requesters, Stage(r) PROVE FALSE
    <3>1. r = Heartbeat /\ Acted
      BY <2>3 DEF Stage, PinsInv, Acted
    <3> DEFINE pins == req[Heartbeat].pins
    <3>2. disk' = Staged(pins) /\ ((Len(pins) = 2 /\ pins[1] = mem[1]) \/ Staged(pins) # mem)
      BY <2>2, <2>3, <3>1 DEF Stage, Persist, PersistFails
    <3>3. Len(Staged(pins)) = 2
      <4>1. CASE Len(pins) = 2 /\ pins[1] = mem[1]
        BY <4>1 DEF Staged
      <4>2. CASE Staged(pins) # mem
        BY <3>1, <4>2, StagedPins
      <4> QED BY <3>2, <4>1, <4>2
    <3> QED BY <3>2, <3>3
  <2>4. ASSUME NEW r \in Requesters, Promote(r) PROVE disk'[1] >= c
    <3>1. req[r].phase = "answered" /\ Promotes(r) /\ disk' = <<req[r].cert>>
      BY <2>2, <2>4 DEF Promote, Persist, PersistFails
    <3>2. mem = <<cert - 1, cert>> /\ disk' = <<cert>>
      BY <3>1, PromotedPin
    <3>3. disk = <<cert - 1, cert>>
      BY <3>2 DEF PinsInv
    <3>4. c \in {cert - 1, cert}
      BY <3>3, PinsOfTwo
    <3> QED BY <2>1, <3>2, <3>4
  <2> QED
    BY <2>2, <2>3, <2>4 DEF Next, Step, Announce, Switch, Restart, Send, Answer, Disconnect
<1> QED BY PinsInvariant, <1>1, PTL DEF Spec, PromotionRemovesOldPin
=============================================================================
