--------------------------- MODULE StepOutputProofs ---------------------------
(***************************************************************************)
(* OutputInv is an inductive invariant of StepOutput for every set of      *)
(* copying goroutines, every batch size and every bound; LogIsSequence,    *)
(* NothingAcceptedIsLost and NoRepeatAfterLogFailure follow from it.       *)
(*                                                                         *)
(* What an upload does to the log is settled once, in LoggedKeeps and      *)
(* LogFailsKeeps; every other step leaves the sender as it is, or ends the *)
(* deployment (FinalFlush).                                                *)
(*                                                                         *)
(* With one copying goroutine BatchInv is inductive as well: a batch is    *)
(* full only when its upload has failed.  And so is TextInv: the pieces of *)
(* a stream that are not in the log are one text, in order, which is in    *)
(* the writer's buffer or among the lines the main goroutine logs, until   *)
(* an error ends the deployment.  A success comes after the last of these  *)
(* texts was logged (SuccessInv), which gives OutputIsComplete.            *)
(***************************************************************************)
EXTENDS StepOutput, FiniteSetTheorems, SequenceTheorems, TLAPS

USE AgentAssumption DEF vars, run, writer, sender, Phases

-----------------------------------------------------------------------------
(* The sender.                                                             *)

\* The event a line becomes has the number next, which no other one has.
LEMMA NewEvent ==
  ASSUME SenderInv, NEW line
  PROVE  /\ Numbers(received \cup events \cup {Event(line)}) = 1 .. next
         /\ \A e, f \in received \cup events \cup {Event(line)} : e.seq = f.seq => e = f
         /\ Numbers(received) \subseteq 1 .. next - 1
<1> USE DEF SenderInv, Numbers, Event
<1>1. \A e \in received \cup events : e.seq \in 1 .. next - 1
  OBVIOUS
<1>2. Event(line).seq = next /\ next \notin 1 .. next - 1
  OBVIOUS
<1>3. Numbers(received \cup events \cup {Event(line)}) = (1 .. next - 1) \cup {next}
  BY <1>2
<1>4. (1 .. next - 1) \cup {next} = 1 .. next
  OBVIOUS
<1> QED
  BY <1>1, <1>2, <1>3, <1>4

\* A line that is logged gets the next number, whether or not its batch is sent.
LEMMA LoggedKeeps ==
  ASSUME SenderInv, NEW line, Logged(line)
  PROVE  SenderInv'
<1> DEFINE all == received \cup events \cup {Event(line)}
<1>1. /\ next \in Nat \ {0} /\ next' = next + 1
      /\ received' \cup events' = all
      /\ received' \in {received, received \cup events, all}
  BY DEF Logged, Delivered, SenderInv
<1>2. /\ Numbers(all) = 1 .. next
      /\ \A e, f \in all : e.seq = f.seq => e = f
  BY NewEvent
<1>3. \E k \in 0 .. next' : Numbers(received') = 1 .. k
  <2> HIDE DEF all
  <2>1. PICK k \in 0 .. next : Numbers(received) = 1 .. k
    BY DEF SenderInv
  <2>2. k \in 0 .. next' /\ next \in 0 .. next' /\ next - 1 \in 0 .. next'
    BY <1>1
  <2>3. CASE received' = received
    BY <2>1, <2>2, <2>3
  <2>4. CASE received' = received \cup events
    BY <2>2, <2>4 DEF SenderInv
  <2>5. CASE received' = all
    BY <1>2, <2>2, <2>5
  <2> QED
    BY <1>1, <2>3, <2>4, <2>5
<1>4. next' - 1 = next
  BY <1>1
<1>5. Numbers(received' \cup events') = 1 .. next' - 1
  BY <1>1, <1>2, <1>4
<1> HIDE DEF all
<1> QED
  BY <1>1, <1>2, <1>3, <1>5 DEF SenderInv, Numbers

\* A batch that may or may not have been stored is kept, so nothing is skipped.
LEMMA LogFailsKeeps ==
  ASSUME SenderInv, NEW line, LogFails(line)
  PROVE  SenderInv' /\ undelivered'
<1> DEFINE all == received \cup events \cup {Event(line)}
<1>1. CASE Undelivered(events \cup {Event(line)}) /\ next' = next + 1
  <2>1. /\ next \in Nat \ {0}
        /\ received' \cup events' = all
        /\ received' \in {received, all}
        /\ undelivered'
    BY <1>1 DEF Undelivered, SenderInv
  <2>2. /\ Numbers(all) = 1 .. next
        /\ \A e, f \in all : e.seq = f.seq => e = f
    BY NewEvent
  <2>3. \E k \in 0 .. next' : Numbers(received') = 1 .. k
    <3> HIDE DEF all
    <3>1. PICK k \in 0 .. next : Numbers(received) = 1 .. k
      BY DEF SenderInv
    <3>2. k \in 0 .. next' /\ next \in 0 .. next'
      BY <1>1, <2>1
    <3>3. CASE received' = received
      BY <3>1, <3>2, <3>3
    <3>4. CASE received' = all
      BY <2>2, <3>2, <3>4
    <3> QED
      BY <2>1, <3>3, <3>4
  <2>4. next' - 1 = next
    BY <1>1, <2>1
  <2>5. Numbers(received' \cup events') = 1 .. next' - 1
    BY <2>1, <2>2, <2>4
  <2> HIDE DEF all
  <2> QED
    BY <1>1, <2>1, <2>2, <2>3, <2>5 DEF SenderInv, Numbers
<1>2. CASE Undelivered(events) /\ UNCHANGED next
  <2>1. /\ received' \cup events' = received \cup events
        /\ received' \in {received, received \cup events}
        /\ undelivered' /\ next' = next
    BY <1>2 DEF Undelivered
  <2>2. \E k \in 0 .. next' : Numbers(received') = 1 .. k
    <3>1. PICK k \in 0 .. next : Numbers(received) = 1 .. k
      BY DEF SenderInv
    <3>2. CASE received' = received
      BY <2>1, <3>1, <3>2
    <3>3. CASE received' = received \cup events
      BY <2>1, <3>3 DEF SenderInv
    <3> QED
      BY <2>1, <3>2, <3>3
  <2> QED
    BY <2>1, <2>2 DEF SenderInv, Numbers
<1> QED
  BY <1>1, <1>2 DEF LogFails

\* A set whose numbers run from 1 to k, with one element for each, has k elements.
LEMMA CountedSet ==
  ASSUME NEW S, NEW k \in Nat, Numbers(S) = 1 .. k,
         \A e, f \in S : e.seq = f.seq => e = f
  PROVE  Cardinality(S) = k
<1> DEFINE f == [i \in 1 .. k |-> CHOOSE e \in S : e.seq = i]
<1>1. \A i \in 1 .. k : f[i] \in S /\ f[i].seq = i
  BY DEF Numbers
<1>2. f \in [1 .. k -> S]
  BY <1>1
<1>3. \A e \in S : e.seq \in 1 .. k /\ f[e.seq] = e
  BY <1>1 DEF Numbers
<1> HIDE DEF f
<1>4. f \in Bijection(1 .. k, S)
  BY <1>1, <1>2, <1>3 DEF Bijection, Injection, Surjection, IsInjective
<1>5. ExistsBijection(1 .. k, S)
  BY <1>4 DEF ExistsBijection
<1> QED
  BY <1>5, FS_CountingElements

-----------------------------------------------------------------------------
(* The steps.                                                              *)

\* A step that logs nothing keeps SenderInv.
LEMMA SenderUnchanged ==
  ASSUME SenderInv, UNCHANGED <<next, events, received>>
  PROVE  SenderInv'
BY DEF SenderInv, Numbers

\* OutputInv holds initially.
LEMMA OutputInit == Init => OutputInv
<1> SUFFICES ASSUME Init PROVE OutputInv
  OBVIOUS
<1>1. SenderInv
  <2>1. Numbers(received) = 1 .. 0 /\ Numbers(received \cup events) = 1 .. next - 1
    BY DEF Init, Numbers
  <2>2. 0 \in 0 .. next /\ next \in Nat \ {0}
    BY DEF Init
  <2> QED
    BY <2>1, <2>2 DEF Init, SenderInv
<1>2. QuietInv
  BY DEF Init, QuietInv, Writers
<1>3. ErrorInv
  BY DEF Init, ErrorInv, Writers
<1> QED
  BY <1>1, <1>2, <1>3 DEF OutputInv

\* A line that the copying goroutines or the main one log: the writer of a failed
\* one keeps the error, and nothing is logged once the deployment is over.
LEMMA DeliverKeeps ==
  ASSUME OutputInv, NEW w \in Writers, Deliver(w) \/ DeliverFails(w)
  PROVE  OutputInv'
<1> USE DEF OutputInv
<1>1. pc \in {"run", "panicked", "announce", "flush", "unclean", "retry"} /\ phase[w] = "log"
  BY DEF Deliver, DeliverFails, QuietInv, Writers
<1>2. CASE Deliver(w)
  <2>1. SenderInv'
    BY <1>2, LoggedKeeps DEF Deliver
  <2>2. phase' = phase /\ UNCHANGED <<pc, err>>
    BY <1>2 DEF Deliver, Writing, QuietInv
  <2>3. undelivered' = undelivered /\ pc # "end"
    BY <1>1, <1>2 DEF Deliver, Logged, Delivered
  <2>4. QuietInv'
    BY <2>2 DEF QuietInv
  <2>5. ErrorInv'
    BY <2>2, <2>3 DEF ErrorInv
  <2> QED
    BY <2>1, <2>4, <2>5
<1>3. CASE DeliverFails(w)
  <2>1. SenderInv'
    BY <1>3, LogFailsKeeps DEF DeliverFails
  <2>2. /\ phase' = [phase EXCEPT ![w] = "failed"] /\ pc' = pc /\ err'
    BY <1>3 DEF DeliverFails, Writing
  <2>3. QuietInv'
    BY <1>1, <2>2 DEF QuietInv, Writers
  <2>4. w = Agent \/ pc \in {"run", "panicked"}
    BY <1>1 DEF QuietInv, Writers
  <2>5. ErrorInv'
    BY <1>1, <2>2, <2>4 DEF ErrorInv, QuietInv, Writers
  <2> QED
    BY <2>1, <2>3, <2>5
<1> QED
  BY <1>2, <1>3

\* The copying goroutines log nothing in any of their other steps, and are idle
\* unless a process is waited for.
LEMMA CopyKeeps ==
  ASSUME OutputInv, NEW s \in Streams, Copies(s), pc # "panicked"
  PROVE  OutputInv'
<1> USE DEF OutputInv
<1>1. pc = "run" /\ pc' \in {"run", "panicked"}
  BY DEF Copies, Read, Take, Reset, WriteRefused, LineTooLong, EndOfFile, Panics, QuietInv,
         Writing
<1>2. /\ UNCHANGED <<next, events, received, undelivered>>
      /\ err' = err \/ err' = TRUE
  BY DEF Copies, Read, Take, Reset, WriteRefused, LineTooLong, EndOfFile, Panics
<1>3. \/ phase' = phase
      \/ \E p \in {"idle", "read", "take", "log"} : phase' = [phase EXCEPT ![s] = p]
      \/ phase' = [phase EXCEPT ![s] = "failed"] /\ err'
  <2>1. CASE WriteRefused(s)
    BY <2>1 DEF WriteRefused, Writing
  <2>2. CASE LineTooLong(s)
    BY <2>2 DEF LineTooLong, Writing
  <2>3. CASE Panics(s)
    BY <2>3 DEF Panics
  <2>4. CASE Take(s) \/ Reset(s) \/ EndOfFile(s) \/ \E eol \in BOOLEAN : Read(s, eol)
    BY <2>4 DEF Take, Reset, EndOfFile, Read, Writing
  <2> QED
    BY <2>1, <2>2, <2>3, <2>4 DEF Copies
<1>4. SenderInv'
  BY <1>2, SenderUnchanged
<1>5. QuietInv'
  BY <1>1, <1>3 DEF QuietInv, Writers
<1>6. ErrorInv'
  <2>1. \A t \in Streams : phase'[t] = "failed" => err'
    BY <1>2, <1>3 DEF ErrorInv, QuietInv, Writers
  <2> QED
    BY <1>1, <1>2, <2>1 DEF ErrorInv
<1> QED
  BY <1>4, <1>5, <1>6

\* The last upload stores every event that is left, or keeps them all.
LEMMA FinalFlushKeeps ==
  ASSUME OutputInv, FinalFlush
  PROVE  OutputInv'
<1> USE DEF OutputInv, FinalFlush
<1>1. PICK k \in 0 .. next : Numbers(received) = 1 .. k
  BY DEF SenderInv
<1>2. received' \cup events' = received \cup events /\ next' = next
  OBVIOUS
<1>3. \E i \in 0 .. next' : Numbers(received') = 1 .. i
  <2>1. CASE received' = received
    BY <1>1, <1>2, <2>1
  <2>2. CASE received' = received \cup events
    BY <1>2, <2>2 DEF SenderInv
  <2> QED
    BY <2>1, <2>2
<1>4. SenderInv'
  BY <1>2, <1>3 DEF SenderInv, Numbers
<1>5. QuietInv'
  BY DEF QuietInv
<1>6. ErrorInv'
  BY DEF ErrorInv
<1> QED
  BY <1>4, <1>5, <1>6

\* The main goroutine's other steps leave the sender alone.
LEMMA AttemptsKeep ==
  ASSUME OutputInv, Attempts
  PROVE  OutputInv'
<1> USE DEF OutputInv, Says, Writing, Wrote, Failed, Joined
<1>1. CASE BeginAttempt
  BY <1>1, SenderUnchanged DEF BeginAttempt, QuietInv, ErrorInv, Writers
<1>2. CASE CancelledBetween
  BY <1>2, SenderUnchanged DEF CancelledBetween, QuietInv, ErrorInv
<1>3. CASE Start
  BY <1>3, SenderUnchanged DEF Start, QuietInv, ErrorInv, Writers
<1>4. CASE StartFails
  BY <1>4, SenderUnchanged DEF StartFails, QuietInv, ErrorInv, Writers
<1>5. CASE \E well \in BOOLEAN : Exits(well)
  BY <1>5, SenderUnchanged DEF Exits, QuietInv, ErrorInv
<1>6. CASE Waited
  <2>1. UNCHANGED <<err, outcome>> /\ UNCHANGED sender /\ pc = "run" /\ pc' = "flush" /\ ~err
    BY <1>6 DEF Waited
  <2>2. phase' = [phase EXCEPT ![Agent] = "log"]
    BY <1>6 DEF Waited
  <2>3. \A s \in Streams : phase[s] = "idle"
    BY <1>6 DEF Waited, ErrorInv
  <2> QED
    BY <2>1, <2>2, <2>3, SenderUnchanged DEF QuietInv, ErrorInv, Writers
<1>7. CASE WaitFails
  BY <1>7, SenderUnchanged DEF WaitFails, QuietInv, ErrorInv, Writers
<1>8. CASE Unconfirmed
  <2>1. UNCHANGED <<err, outcome, undelivered, next, events, received>> /\ pc = "run"
        /\ \A s \in Streams : phase[s] \in {"idle", "failed"}
    BY <1>8 DEF Unconfirmed
  <2>2. CASE Shared /\ ~err
    <3>1. pc' = "unclean" /\ phase' = [phase EXCEPT ![Agent] = "log"]
      BY <1>8, <2>2 DEF Unconfirmed
    <3>2. \A s \in Streams : phase[s] = "idle"
      BY <2>1, <2>2 DEF ErrorInv
    <3> QED
      BY <2>1, <2>2, <3>1, <3>2, SenderUnchanged DEF QuietInv, ErrorInv, Writers
  <2>3. CASE ~(Shared /\ ~err)
    <3>1. pc' = "finish" /\ phase' = [w \in Writers |-> "idle"]
      BY <1>8, <2>3 DEF Unconfirmed
    <3> QED
      BY <2>1, <3>1, SenderUnchanged DEF QuietInv, ErrorInv, Writers
  <2> QED
    BY <2>2, <2>3
<1>9. CASE Flushed
  BY <1>9, SenderUnchanged DEF Flushed, QuietInv, ErrorInv, Writers
<1>10. CASE WriteFailed
  BY <1>10, SenderUnchanged DEF WriteFailed, QuietInv, ErrorInv, Writers
<1>11. CASE NextStep
  BY <1>11, SenderUnchanged DEF NextStep, QuietInv, ErrorInv
<1>12. CASE StepsEnd
  BY <1>12, SenderUnchanged DEF StepsEnd, QuietInv, ErrorInv
<1>13. CASE Retry
  BY <1>13, SenderUnchanged DEF Retry, QuietInv, ErrorInv, Writers
<1>14. CASE Retried
  BY <1>14, SenderUnchanged DEF Retried, QuietInv, ErrorInv, Writers
<1>15. CASE FinalFlush
  BY <1>15, FinalFlushKeeps
<1> QED
  BY <1>1, <1>2, <1>3, <1>4, <1>5, <1>6, <1>7, <1>8, <1>9, <1>10, <1>11, <1>12, <1>13,
     <1>14, <1>15 DEF Attempts

\* OutputInv is preserved by every step.
LEMMA OutputStep == OutputInv /\ [Next]_vars => OutputInv'
<1> SUFFICES ASSUME OutputInv, [Next]_vars PROVE OutputInv'
  OBVIOUS
<1>1. CASE Attempts
  BY <1>1, AttemptsKeep
<1>2. CASE Cancel
  BY <1>2, SenderUnchanged DEF Cancel, OutputInv, QuietInv, ErrorInv
<1>3. CASE UNCHANGED vars
  BY <1>3, SenderUnchanged DEF OutputInv, QuietInv, ErrorInv
<1>4. CASE pc # "panicked" /\ \E s \in Streams : Copies(s)
  BY <1>4, CopyKeeps
<1>5. CASE \E w \in Writers : Deliver(w) \/ DeliverFails(w)
  BY <1>5, DeliverKeeps
<1> QED
  BY <1>1, <1>2, <1>3, <1>4, <1>5 DEF Next, Over

-----------------------------------------------------------------------------
(* The theorems.                                                           *)

\* OutputInv is an invariant, for any number of copying goroutines that share a
\* writer and any batch size (job_execution.go, redacting_writer.go, log_sender.go).
THEOREM OutputInvariant == Spec => []OutputInv
BY OutputInit, OutputStep, PTL DEF Spec

\* What the server has stored is numbered from 1 up without a gap, one line for
\* each number, whatever uploads failed or were repeated (logSender.Write).
THEOREM LogIsSequenceTheorem == Spec => []LogIsSequence
<1>1. OutputInv => LogIsSequence
  <2> SUFFICES ASSUME OutputInv PROVE LogIsSequence
    OBVIOUS
  <2>1. PICK k \in Nat : Numbers(received) = 1 .. k
    BY DEF OutputInv, SenderInv
  <2>2. \A e, f \in received : e.seq = f.seq => e = f
    BY DEF OutputInv, SenderInv
  <2>3. Cardinality(received) = k
    BY <2>1, <2>2, CountedSet
  <2> QED
    BY <2>1, <2>2, <2>3 DEF LogIsSequence
<1> QED
  BY <1>1, OutputInvariant, PTL

\* When the last flush went well, every line that was given a number is stored
\* (logSender.flushLocked, executeClaim).
THEOREM NothingAcceptedIsLostTheorem == Spec => []NothingAcceptedIsLost
<1>1. OutputInv => NothingAcceptedIsLost
  <2> SUFFICES ASSUME OutputInv, pc = "end", outcome # "unflushed"
               PROVE  Numbers(received) = 1 .. next - 1
    BY DEF NothingAcceptedIsLost
  <2>1. events = {}
    BY DEF OutputInv, ErrorInv
  <2>2. received \cup events = received
    BY <2>1
  <2> QED
    BY <2>2 DEF OutputInv, SenderInv
<1> QED
  BY <1>1, OutputInvariant, PTL

\* No attempt of any step starts a process after an upload has failed (retryError,
\* ExecuteSteps).
THEOREM NoRepeatTheorem == Spec => NoRepeatAfterLogFailure
<1>1. OutputInv /\ [Next]_vars => [launched' # launched => ~undelivered]_vars
  <2> SUFFICES ASSUME OutputInv, Next, launched' # launched
               PROVE  ~undelivered
    OBVIOUS
  <2>1. Start
    BY DEF Next, Attempts, Cancel, Over, Copies, Read, Take, Reset, WriteRefused,
           LineTooLong, EndOfFile, Panics, Deliver, DeliverFails, BeginAttempt,
           CancelledBetween, StartFails, Exits, Waited, WaitFails, Unconfirmed, Flushed,
           WriteFailed, NextStep, StepsEnd, Retry, Retried, FinalFlush
  <2> QED
    BY <2>1 DEF Start, Wrote, OutputInv, ErrorInv
<1> QED
  BY <1>1, OutputInvariant, PTL DEF Spec, NoRepeatAfterLogFailure

-----------------------------------------------------------------------------
(* The batch, where one goroutine copies the output.                       *)

\* A set of events and the one that a line adds.
LEMMA OneMore ==
  ASSUME IsFiniteSet(events), NEW e
  PROVE  /\ IsFiniteSet(events \cup {e})
         /\ Cardinality(events \cup {e}) \in {Cardinality(events), Cardinality(events) + 1}
         /\ IsFiniteSet({e}) /\ Cardinality({e}) = 1
         /\ Cardinality(events) \in Nat
         /\ IsFiniteSet({}) /\ Cardinality({}) = 0
BY FS_AddElement, FS_Singleton, FS_CardinalityType, FS_EmptySet

\* A line that is logged, or not, leaves a batch that fits, and one that is full only
\* when its upload failed.
LEMMA LogFits ==
  ASSUME IsFiniteSet(events), Cardinality(events) < MaxEvents,
         NEW line, Logged(line) \/ LogFails(line)
  PROVE  /\ IsFiniteSet(events') /\ Cardinality(events') <= MaxEvents
         /\ Logged(line) => Cardinality(events') < MaxEvents
<1>1. /\ IsFiniteSet(events \cup {Event(line)}) /\ IsFiniteSet({Event(line)})
      /\ Cardinality(events \cup {Event(line)}) \in {Cardinality(events), Cardinality(events) + 1}
      /\ Cardinality({Event(line)}) = 1 /\ Cardinality(events) \in Nat
      /\ IsFiniteSet({}) /\ Cardinality({}) = 0
  BY OneMore
<1>2. CASE Logged(line)
  BY <1>1, <1>2, EventsAssumption DEF Logged, Delivered
<1>3. CASE LogFails(line)
  <2>1. events' \in {events, events \cup {Event(line)}}
    BY <1>3 DEF LogFails, Undelivered
  <2>2. ~Logged(line) \/ Logged(line)
    OBVIOUS
  <2> QED BY <1>1, <1>2, <2>1, EventsAssumption
<1> QED BY <1>2, <1>3

\* So does the writing of a line, which fills a batch only as it fails.
LEMMA DeliverFits ==
  ASSUME NEW s, Streams = {s}, OutputInv, BatchInv, NEW w \in Writers, Deliver(w) \/ DeliverFails(w)
  PROVE  BatchInv'
<1>1. /\ phase[w] = "log" /\ ~err /\ pc \notin {"finish", "end"}
      /\ IsFiniteSet(events) /\ Cardinality(events) < MaxEvents
  <2>1. phase[w] = "log" /\ ~err
    BY DEF Deliver, DeliverFails, BatchInv
  <2>2. pc \notin {"finish", "end"}
    BY <2>1 DEF OutputInv, QuietInv, Writers
  <2>3. IsFiniteSet(events) /\ Cardinality(events) <= MaxEvents /\ Cardinality(events) # MaxEvents
    BY <2>1, <2>2 DEF BatchInv
  <2>4. Cardinality(events) \in Nat
    BY <2>3, FS_CardinalityType
  <2> QED BY <2>1, <2>2, <2>3, <2>4, EventsAssumption
<1>2. /\ IsFiniteSet(events') /\ Cardinality(events') <= MaxEvents
      /\ Deliver(w) => Cardinality(events') < MaxEvents
  BY <1>1, LogFits DEF Deliver, DeliverFails
<1>3. Cardinality(events') = MaxEvents => ~Deliver(w)
  BY <1>2, FS_CardinalityType, EventsAssumption
<1>4. CASE Deliver(w)
  BY <1>1, <1>2, <1>3, <1>4 DEF Deliver, Writing, BatchInv, OutputInv, QuietInv
<1>5. CASE DeliverFails(w)
  <2>1. \A x \in Writers : x # w => phase[x] # "log"
    BY <1>1 DEF OutputInv, QuietInv, Writers
  <2>2. phase' = [phase EXCEPT ![w] = "failed"] /\ err' /\ pc' = pc
    BY <1>5 DEF DeliverFails, Writing
  <2> QED BY <1>2, <2>1, <2>2 DEF BatchInv, OutputInv, QuietInv
<1> QED BY <1>4, <1>5

\* One goroutine copies both streams of a container.
LEMMA SharedByOne == ASSUME NEW s, Streams = {s} PROVE Shared
BY FS_Singleton DEF Shared

\* Copying adds no event, and takes no lines for a writer in error.
LEMMA CopyFits ==
  ASSUME NEW s, Streams = {s}, OutputInv, BatchInv, Copies(s), pc # "panicked"
  PROVE  BatchInv'
<1>1. pc = "run" /\ UNCHANGED events /\ pc' \in {"run", "panicked"} /\ s \in Streams
  BY DEF Copies, Read, Take, Reset, WriteRefused, LineTooLong, EndOfFile, Panics, OutputInv,
         QuietInv, Writing
<1>2. phase[Agent] # "log"
  BY <1>1 DEF OutputInv, QuietInv
<1>3. /\ \/ UNCHANGED <<phase, err>>
         \/ \E p \in {"idle", "read", "take", "failed"} : phase' = [phase EXCEPT ![s] = p]
         \/ phase' = [phase EXCEPT ![s] = "log"] /\ ~err'
      /\ err' = err \/ err' = TRUE
  <2>1. CASE Take(s)
    BY <2>1 DEF Take, Writing
  <2>2. CASE Panics(s)
    BY <2>2 DEF Panics
  <2>3. CASE WriteRefused(s) \/ LineTooLong(s)
    BY <2>3 DEF WriteRefused, LineTooLong, Writing
  <2>4. CASE Reset(s) \/ EndOfFile(s) \/ \E eol \in BOOLEAN : Read(s, eol)
    BY <2>4 DEF Reset, EndOfFile, Read, Writing
  <2> QED BY <2>1, <2>2, <2>3, <2>4 DEF Copies
<1>4. \A w \in Writers : phase'[w] = "log" => ~err'
  BY <1>2, <1>3 DEF BatchInv, OutputInv, QuietInv, Writers
<1> QED BY <1>1, <1>3, <1>4 DEF BatchInv

\* The main goroutine adds none either, and goes on only without an error.
LEMMA AttemptsFit ==
  ASSUME NEW s, Streams = {s}, OutputInv, BatchInv, Attempts
  PROVE  BatchInv'
<1> USE SharedByOne
    DEF Says, Writing, Wrote, Failed, Joined, OutputInv, QuietInv, ErrorInv, BatchInv, Writers
<1>1. CASE BeginAttempt
  BY <1>1 DEF BeginAttempt
<1>2. CASE CancelledBetween
  BY <1>2 DEF CancelledBetween
<1>3. CASE Start
  BY <1>3 DEF Start
<1>4. CASE StartFails
  BY <1>4 DEF StartFails
<1>5. CASE \E well \in BOOLEAN : Exits(well)
  BY <1>5 DEF Exits
<1>6. CASE Waited
  BY <1>6 DEF Waited
<1>7. CASE WaitFails
  BY <1>7 DEF WaitFails
<1>8. CASE Unconfirmed
  BY <1>8 DEF Unconfirmed
<1>9. CASE Flushed
  BY <1>9 DEF Flushed
<1>10. CASE WriteFailed
  BY <1>10 DEF WriteFailed
<1>11. CASE NextStep
  BY <1>11 DEF NextStep
<1>12. CASE StepsEnd
  BY <1>12 DEF StepsEnd
<1>13. CASE Retry
  BY <1>13 DEF Retry
<1>14. CASE Retried
  BY <1>14 DEF Retried
<1>15. CASE FinalFlush
  BY <1>15, FS_EmptySet, EventsAssumption DEF FinalFlush
<1> QED
  BY <1>1, <1>2, <1>3, <1>4, <1>5, <1>6, <1>7, <1>8, <1>9, <1>10, <1>11, <1>12, <1>13,
     <1>14, <1>15 DEF Attempts

\* The invariant that BatchesFit rests on, inductive beside OutputInv.
LEMMA BatchInit == Init => BatchInv
BY FS_EmptySet, EventsAssumption DEF Init, BatchInv, Writers

LEMMA BatchStep ==
  ASSUME NEW s, Streams = {s}, OutputInv, BatchInv, [Next]_vars
  PROVE  BatchInv'
<1>1. CASE Attempts
  BY <1>1, AttemptsFit
<1>2. CASE Cancel \/ UNCHANGED vars
  BY <1>2 DEF Cancel, BatchInv
<1>3. CASE pc # "panicked" /\ \E t \in Streams : Copies(t)
  BY <1>3, CopyFits
<1>4. CASE \E w \in Writers : Deliver(w) \/ DeliverFails(w)
  BY <1>4, DeliverFits
<1> QED BY <1>1, <1>2, <1>3, <1>4 DEF Next, Over

\* A batch of a container's output never has more events than the server takes,
\* whatever uploads fail (logSender.Write, DecodeLogBatch): only Flush sends a full one
\* again.
THEOREM BatchesFit ==
  ASSUME NEW s, Streams = {s}
  PROVE  Spec => []BatchFits
<1>1. OutputInv /\ BatchInv /\ [Next]_vars => BatchInv'
  BY BatchStep
<1>2. BatchInv => BatchFits
  BY DEF BatchInv, BatchFits
<1> HIDE DEF vars
<1> QED BY BatchInit, <1>1, <1>2, OutputInvariant, PTL DEF Spec

-----------------------------------------------------------------------------
(* Where one goroutine copies: the text.                                   *)

\* A text whose last piece alone may end a line is one line, or none.
LEMMA OneLine ==
  ASSUME NEW S, NEW text \in Seq(S), \A i \in DOMAIN text : text[i].eol => i = Len(text)
  PROVE  Lines(text) = IF text = <<>> THEN <<>> ELSE <<text>>
<1> DEFINE cuts == {i \in DOMAIN text : text[i].eol \/ i = Len(text)}
           Cut(i) == CHOOSE k \in cuts : Cardinality({j \in cuts : j <= k}) = i
<1>1. CASE text = <<>>
  <2>1. cuts = {}
    BY <1>1
  <2>2. Cardinality(cuts) = 0
    BY <2>1, FS_EmptySet
  <2> HIDE DEF cuts
  <2> QED BY <1>1, <2>1, <2>2 DEF Lines, cuts
<1>2. CASE text # <<>>
  <2>1. Len(text) \in Nat \ {0} /\ DOMAIN text = 1 .. Len(text)
    BY <1>2
  <2>2. cuts = {Len(text)}
    BY <2>1
  <2>3. Cardinality(cuts) = 1
    BY <2>2, FS_Singleton
  <2>4. Cut(1) = Len(text)
    <3>1. {j \in cuts : j <= Len(text)} = cuts
      BY <2>1, <2>2
    <3>2. \A k \in cuts : k = Len(text)
      BY <2>2
    <3>3. \E k \in cuts : Cardinality({j \in cuts : j <= k}) = 1
      BY <3>1, <2>2, <2>3
    <3> HIDE DEF cuts
    <3> QED BY <3>2, <3>3
  <2>5. Lines(text) = [i \in 1 .. Cardinality(cuts) |->
                         SubSeq(text, IF i = 1 THEN 1 ELSE Cut(i - 1) + 1, Cut(i))]
    BY DEF Lines
  <2>6. SubSeq(text, 1, Len(text)) = text
    BY <2>1, SubSeqFull
  <2> HIDE DEF cuts, Cut
  <2>7. Lines(text) = [i \in 1 .. 1 |-> text]
    BY <2>3, <2>4, <2>5, <2>6
  <2> QED BY <1>2, <2>7
<1> QED BY <1>1, <1>2

\* The pieces of one event more.
PiecesIn(s, e) ==
  {[seq |-> e.seq, at |-> i, piece |-> e.line[i]] :
     i \in {j \in DOMAIN e.line : e.line[j].from = s}}

LEMMA MorePieces ==
  ASSUME NEW s, NEW es, NEW e
  PROVE  PiecesOf(s, es \cup {e}) = PiecesOf(s, es) \cup PiecesIn(s, e)
<1> DEFINE At(f) == {[seq |-> f.seq, at |-> i, piece |-> f.line[i]] : i \in DOMAIN f.line}
<1>1. Pieces(es \cup {e}) = Pieces(es) \cup At(e)
  BY DEF Pieces
<1>2. {p \in At(e) : p.piece.from = s} = PiecesIn(s, e)
  BY DEF PiecesIn
<1> HIDE DEF At
<1> QED BY <1>1, <1>2 DEF PiecesOf

\* Every piece in the log has a number below next.
LEMMA PiecesBelow ==
  ASSUME SenderInv, NEW s, NEW p \in PiecesOf(s, received \cup events)
  PROVE  p.seq \in 1 .. next - 1 /\ p.piece.from = s
BY DEF PiecesOf, Pieces, SenderInv, Numbers

\* A line of the agent's own adds no piece of a stream, and the text that a stream's log
\* has not got yet adds all that is missing.
LEMMA OwnLineLogged ==
  ASSUME NEW s \in Streams, NEW m, LoggedUpTo(s, m), NEW line, OwnLine(line),
         received' \cup events' = received \cup events \cup {Event(line)},
         UNCHANGED printed
  PROVE  LoggedUpTo(s, m)'
<1>1. PiecesIn(s, Event(line)) = {}
  BY DEF Event, OwnLine, PiecesIn
<1>2. PiecesOf(s, received' \cup events') = PiecesOf(s, received \cup events) \cup {}
  BY <1>1, MorePieces
<1> QED BY <1>2 DEF LoggedUpTo

LEMMA TextIsLogged ==
  ASSUME SenderInv, NEW s \in Streams, NEW m \in 0 .. Len(printed[s]), LoggedUpTo(s, m),
         printed[s] \in Line,
         \A n \in DOMAIN printed[s] : printed[s][n].from = s /\ printed[s][n].n = n,
         NEW line, line = SubSeq(printed[s], m + 1, Len(printed[s])),
         received' \cup events' = received \cup events \cup {Event(line)},
         UNCHANGED printed
  PROVE  LoggedUpTo(s, Len(printed[s]))'
<1> DEFINE N   == Len(printed[s])
           old == PiecesOf(s, received \cup events)
           new == PiecesIn(s, Event(line))
<1>1. /\ N \in Nat /\ m \in 0 .. N /\ DOMAIN printed[s] = 1 .. N
      /\ line \in Line /\ DOMAIN line = 1 .. N - m
      /\ \A i \in 1 .. N - m : line[i] = printed[s][m + i]
  BY SubSeqProperties DEF Line
<1>2. \A n \in 1 .. N : printed[s][n].from = s /\ printed[s][n].n = n
  BY <1>1
<1>3. \A i \in 1 .. N - m : line[i].from = s /\ line[i].n = m + i
  <2> HIDE DEF N
  <2>1. \A i \in 1 .. N - m : m + i \in 1 .. N
    BY <1>1
  <2> QED BY <1>1, <1>2, <2>1
<1>4. \A p \in new : /\ p.seq = next /\ p.at \in 1 .. N - m /\ p.piece = line[p.at]
                     /\ p.piece.n = m + p.at
  <2>1. \A p \in new : p.seq = next /\ p.at \in DOMAIN line /\ p.piece = line[p.at]
    BY DEF Event, PiecesIn
  <2> HIDE DEF new, N
  <2> QED BY <1>1, <1>3, <2>1
<1>5. \A i \in 1 .. N - m : \E p \in new : p.piece = line[i]
  <2> TAKE i \in 1 .. N - m
  <2> DEFINE p == [seq |-> next, at |-> i, piece |-> line[i]]
  <2>1. i \in DOMAIN line /\ line[i].from = s
    BY <1>1, <1>3
  <2>2. p \in new
    BY <2>1 DEF Event, PiecesIn
  <2> QED BY <2>2
<1>6. \A p \in old : p.seq \in 1 .. next - 1
  BY PiecesBelow
<1>7. PiecesOf(s, (received \cup events)') = old \cup new
  BY MorePieces
<1>8. /\ \A n \in 1 .. m : \E p \in old : p.piece = printed[s][n]
      /\ \A p \in old : p.piece.n \in 1 .. m /\ p.piece = printed[s][p.piece.n]
      /\ \A p, q \in old : Before(p, q) => p.piece.n < q.piece.n
      /\ next \in Nat
  BY DEF LoggedUpTo, SenderInv
<1> HIDE DEF old, new, N
<1>9. \A n \in 1 .. N : \E p \in old \cup new : p.piece = printed[s][n]
  <2> TAKE n \in 1 .. N
  <2>1. CASE n \in 1 .. m
    BY <1>8, <2>1
  <2>2. CASE n \notin 1 .. m
    <3>1. n - m \in 1 .. N - m /\ m + (n - m) = n
      BY <1>1, <2>2
    <3>2. line[n - m] = printed[s][n]
      BY <1>1, <3>1
    <3> QED BY <1>5, <3>1, <3>2
  <2> QED BY <2>1, <2>2
<1>10. \A p \in old \cup new : p.piece.n \in 1 .. N /\ p.piece = printed[s][p.piece.n]
  <2>1. \A p \in old : p.piece.n \in 1 .. N
    BY <1>1, <1>8
  <2>2. \A p \in new : p.piece.n \in 1 .. N /\ p.piece = printed[s][p.piece.n]
    <3> TAKE p \in new
    <3>1. p.at \in 1 .. N - m /\ p.piece = printed[s][m + p.at] /\ p.piece.n = m + p.at
      BY <1>1, <1>4
    <3>2. m + p.at \in 1 .. N
      BY <1>1, <3>1
    <3> QED BY <3>1, <3>2
  <2> QED BY <1>8, <2>1, <2>2
<1>11. \A p, q \in old \cup new : Before(p, q) => p.piece.n < q.piece.n
  <2> SUFFICES ASSUME NEW p \in old \cup new, NEW q \in old \cup new, Before(p, q)
               PROVE  p.piece.n < q.piece.n
    OBVIOUS
  <2>1. CASE p \in old /\ q \in old
    BY <1>8, <2>1
  <2>2. CASE p \in old /\ q \in new
    BY <1>1, <1>4, <1>8, <2>2
  <2>3. CASE p \in new /\ q \in old
    BY <1>4, <1>6, <1>8, <2>3 DEF Before
  <2>4. CASE p \in new /\ q \in new
    BY <1>1, <1>4, <1>8, <2>4 DEF Before
  <2> QED BY <2>1, <2>2, <2>3, <2>4
<1>12. printed[s]' = printed[s] /\ Len(printed[s])' = N
  BY DEF N
<1> QED BY <1>7, <1>9, <1>10, <1>11, <1>12 DEF LoggedUpTo

\* What an upload or its failure does to the log as a whole.
LEMMA LogGrows ==
  ASSUME NEW line
  PROVE  /\ Logged(line) => received' \cup events' = received \cup events \cup {Event(line)}
         /\ LogFails(line) => received' \cup events' \in
                                {received \cup events, received \cup events \cup {Event(line)}}
<1>1. ASSUME Logged(line)
      PROVE  received' \cup events' = received \cup events \cup {Event(line)}
  BY <1>1 DEF Logged, Delivered
<1>2. ASSUME LogFails(line)
      PROVE  received' \cup events' \in
               {received \cup events, received \cup events \cup {Event(line)}}
  BY <1>2 DEF LogFails, Undelivered
<1> QED BY <1>1, <1>2

\* All that is known of a deployment whose output is copied by one goroutine.
TextAll == OutputInv /\ BatchInv /\ TypeOK /\ TextInv /\ BufferInv /\ SuccessInv

\* The first of the lines that hold a text is the text, or one of the agent's own.
LEMMA TailHolds ==
  ASSUME NEW S, NEW ls \in Seq(S), ls # <<>>, NEW t, HoldsText(ls, t)
  PROVE  \/ OwnLine(Head(ls)) /\ HoldsText(Tail(ls), t)
         \/ Head(ls) = t /\ HoldsText(Tail(ls), <<>>)
<1>1. /\ Len(ls) \in Nat \ {0} /\ DOMAIN ls = 1 .. Len(ls) /\ Head(ls) = ls[1]
      /\ DOMAIN Tail(ls) = 1 .. Len(ls) - 1
      /\ \A i \in 1 .. Len(ls) - 1 : i + 1 \in DOMAIN ls /\ Tail(ls)[i] = ls[i + 1]
  BY HeadTailProperties
<1>2. CASE t = <<>> /\ \A i \in DOMAIN ls : OwnLine(ls[i])
  BY <1>1, <1>2 DEF HoldsText
<1>3. ASSUME NEW k \in DOMAIN ls, ls[k] = t, \A i \in DOMAIN ls \ {k} : OwnLine(ls[i])
      PROVE  \/ OwnLine(Head(ls)) /\ HoldsText(Tail(ls), t)
             \/ Head(ls) = t /\ HoldsText(Tail(ls), <<>>)
  <2>1. CASE k = 1
    <3>1. \A i \in 1 .. Len(ls) - 1 : OwnLine(Tail(ls)[i])
      BY <1>1, <1>3, <2>1
    <3> QED BY <1>1, <1>3, <2>1, <3>1 DEF HoldsText
  <2>2. CASE k # 1
    <3>1. k - 1 \in 1 .. Len(ls) - 1 /\ (k - 1) + 1 = k
      BY <1>1, <1>3, <2>2
    <3>2. OwnLine(Head(ls)) /\ Tail(ls)[k - 1] = t
      BY <1>1, <1>3, <2>2, <3>1
    <3>3. \A i \in (1 .. Len(ls) - 1) \ {k - 1} : OwnLine(Tail(ls)[i])
      BY <1>1, <1>3, <3>1
    <3> QED BY <1>1, <3>1, <3>2, <3>3 DEF HoldsText
  <2> QED BY <2>1, <2>2
<1> QED BY <1>2, <1>3 DEF HoldsText

\* The line that is logged next holds no piece, or all that are missing.
LEMMA NextLine ==
  ASSUME NEW s, Streams = {s}, TextAll, NEW w \in Writers, phase[w] = "log", lines[w] # <<>>,
         NEW m \in 0 .. Len(printed[s]),
         Awaits(s, SubSeq(printed[s], m + 1, Len(printed[s])))
  PROVE  \/ OwnLine(Head(lines[w])) /\ w = Agent
         \/ Head(lines[w]) = SubSeq(printed[s], m + 1, Len(printed[s]))
<1> DEFINE t == SubSeq(printed[s], m + 1, Len(printed[s]))
<1>1. lines[w] \in Seq(Line)
  BY DEF TextAll, TypeOK
<1>2. ~err
  BY DEF TextAll, BatchInv
<1>3. CASE w = Agent
  <2>1. pc \in {"announce", "flush", "unclean", "retry"}
    BY <1>3 DEF TextAll, OutputInv, QuietInv
  <2>2. HoldsText(lines[w], <<>>) \/ HoldsText(lines[w], t)
    BY <1>3, <2>1 DEF TextAll, SuccessInv, Awaits
  <2>3. OwnLine(Head(lines[w])) \/ Head(lines[w]) = <<>> \/ Head(lines[w]) = t
    <3>1. CASE HoldsText(lines[w], <<>>)
      BY <1>1, <3>1, TailHolds
    <3>2. CASE HoldsText(lines[w], t)
      <4> HIDE DEF t
      <4> QED BY <1>1, <3>2, TailHolds
    <3> QED BY <2>2, <3>1, <3>2
  <2>4. OwnLine(<<>>)
    BY DEF OwnLine
  <2> QED BY <1>3, <2>3, <2>4
<1>4. CASE w = s
  <2>1. pc \in {"run", "panicked"}
    BY <1>4 DEF TextAll, OutputInv, QuietInv
  <2>2. buffer = t /\ lines[w] = <<buffer>>
    BY <1>2, <1>4, <2>1 DEF TextAll, BufferInv, Awaits
  <2> QED BY <2>2
<1> QED BY <1>3, <1>4 DEF Writers

\* What a line that is logged, or that could not be, leaves of TextAll.
LEMMA DeliverTypes ==
  ASSUME NEW s, Streams = {s}, TextAll, NEW w \in Writers, Deliver(w) \/ DeliverFails(w), BatchInv'
  PROVE  TypeOK'
<1>1. BatchFits'
  BY DEF BatchInv, BatchFits
<1>2. /\ lines[w] \in Seq(Line) /\ lines[w] # <<>> /\ Head(lines[w]) \in Line
      /\ Tail(lines[w]) \in Seq(Line)
  BY DEF TextAll, TypeOK, Deliver, DeliverFails
<1>3. phase' \in [Writers -> Phases] /\ lines' \in [Writers -> Seq(Line)]
  <2>1. /\ phase \in [Writers -> Phases]
        /\ lines \in [Writers -> Seq(Line)]
    BY DEF TextAll, TypeOK
  <2>2. \/ phase' = [phase EXCEPT ![w] = "log"] /\ lines' = [lines EXCEPT ![w] = Tail(lines[w])]
        \/ phase' = [phase EXCEPT ![w] = "failed"] /\ lines' = [lines EXCEPT ![w] = <<>>]
    BY DEF Deliver, DeliverFails, Writing
  <2>3. <<>> \in Seq(Line)
    OBVIOUS
  <2> QED BY <1>2, <2>1, <2>2, <2>3
<1>4. Event(Head(lines[w])) \in [seq : Nat, line : Line]
  BY <1>2 DEF TextAll, TypeOK, Event
<1>5. received' \subseteq [seq : Nat, line : Line] /\ events' \subseteq [seq : Nat, line : Line]
  BY <1>4, LogGrows DEF TextAll, TypeOK, Deliver, DeliverFails
<1>6. next' \in Nat
  BY DEF TextAll, TypeOK, Deliver, DeliverFails, Logged, LogFails
<1>7. undelivered' \in BOOLEAN
  BY DEF TextAll, TypeOK, Deliver, DeliverFails, Logged, LogFails, Delivered, Undelivered
<1>8. err' \in BOOLEAN /\ UNCHANGED <<run, buffer, cancelled, outcome, printed>>
  BY DEF TextAll, TypeOK, Deliver, DeliverFails
<1> QED BY <1>1, <1>3, <1>5, <1>6, <1>7, <1>8 DEF TextAll, TypeOK

\* One that is logged holds all of the text, or none of it.
LEMMA DeliverText ==
  ASSUME NEW s, Streams = {s}, TextAll, NEW w \in Writers, Deliver(w) \/ DeliverFails(w)
  PROVE  TextInv'
<1>1. PICK m \in 0 .. Len(printed[s]) :
        LoggedUpTo(s, m) /\ Awaits(s, SubSeq(printed[s], m + 1, Len(printed[s])))
  BY DEF TextAll, TextInv, BatchInv, Deliver, DeliverFails
<1> DEFINE N    == Len(printed[s])
           t    == SubSeq(printed[s], m + 1, N)
           line == Head(lines[w])
           all  == received \cup events
<1>2. /\ phase[w] = "log" /\ lines[w] # <<>> /\ UNCHANGED printed /\ N \in Nat
      /\ lines[w] \in Seq(Line)
      /\ printed[s] \in Line
      /\ \A n \in DOMAIN printed[s] : printed[s][n].from = s /\ printed[s][n].n = n
      /\ SenderInv /\ lines \in [Writers -> Seq(Line)] /\ phase \in [Writers -> Phases]
  BY DEF TextAll, TextInv, TypeOK, OutputInv, Deliver, DeliverFails, Line
<1>7. ASSUME LoggedUpTo(s, N)', Awaits(s, <<>>)' PROVE TextInv'
  <2>1. Len(printed[s])' = N /\ printed' = printed /\ N \in 0 .. N
    BY <1>2
  <2>2. SubSeq(printed[s], N + 1, N) = <<>>
    BY <1>2
  <2>3. \E k \in 0 .. Len(printed[s])' :
          LoggedUpTo(s, k)' /\ Awaits(s, SubSeq(printed[s], k + 1, Len(printed[s])))'
    <3>1. LoggedUpTo(s, N)' /\ Awaits(s, SubSeq(printed[s], N + 1, Len(printed[s])))'
      BY <1>7, <2>1, <2>2 DEF Awaits
    <3> QED BY <2>1, <3>1 DEF LoggedUpTo, Awaits
  <2>4. \A n \in DOMAIN printed'[s] : printed'[s][n].from = s /\ printed'[s][n].n = n
    BY <1>2, <2>1
  <2> QED BY <2>3, <2>4 DEF TextInv
<1>3. \/ OwnLine(line) /\ w = Agent
      \/ line = t
  BY <1>1, <1>2, NextLine
<1>4. ASSUME received' \cup events' = all \cup {Event(line)}
      PROVE  \/ OwnLine(line) /\ w = Agent /\ LoggedUpTo(s, m)'
             \/ line = t /\ LoggedUpTo(s, N)'
  <2>1. CASE OwnLine(line) /\ w = Agent
    BY <1>1, <1>2, <1>4, <2>1, OwnLineLogged
  <2>2. CASE line = t
    BY <1>1, <1>2, <1>4, <2>2, TextIsLogged
  <2> QED BY <1>3, <2>1, <2>2
<1>5. CASE DeliverFails(w)
  <2>1. err' /\ (received' \cup events' = all \/ received' \cup events' = all \cup {Event(line)})
    BY <1>5, LogGrows DEF DeliverFails
  <2>2. \E k \in 0 .. N : LoggedUpTo(s, k)'
    <3>1. CASE received' \cup events' = all
      BY <1>1, <1>2, <3>1 DEF LoggedUpTo
    <3>2. CASE received' \cup events' = all \cup {Event(line)}
      BY <1>2, <1>4, <3>2
    <3> QED BY <2>1, <3>1, <3>2
  <2> QED BY <1>2, <2>1, <2>2 DEF TextInv
<1>6. CASE Deliver(w)
  <2>1. /\ received' \cup events' = all \cup {Event(line)}
        /\ pc' = pc /\ UNCHANGED buffer /\ lines' = [lines EXCEPT ![w] = Tail(lines[w])]
        /\ phase' = [phase EXCEPT ![w] = "log"]
    BY <1>6, LogGrows DEF Deliver, Writing
  <2>2. CASE w = s
    <3>1. lines[s] = <<buffer>> /\ pc \notin {"flush", "unclean"}
      BY <1>2, <2>2 DEF TextAll, BufferInv, BatchInv, OutputInv, QuietInv, Writers
    <3>2. line = t /\ LoggedUpTo(s, N)'
      BY <1>4, <2>1, <2>2
    <3>3. Awaits(s, <<>>)'
      BY <1>2, <2>1, <2>2, <3>1 DEF Awaits
    <3> QED BY <1>2, <1>7, <3>2, <3>3
  <2>3. CASE w = Agent
    <3>1. phase[s] # "log" \/ pc \in {"flush", "unclean"}
      BY <1>2, <2>3 DEF TextAll, OutputInv, QuietInv
    <3>2. CASE pc \in {"flush", "unclean"}
      <4>1. HoldsText(lines[Agent], t)
        BY <1>1, <3>2 DEF Awaits
      <4>2. \/ OwnLine(line) /\ HoldsText(Tail(lines[Agent]), t)
            \/ line = t /\ HoldsText(Tail(lines[Agent]), <<>>)
        BY <1>2, <2>3, <4>1, TailHolds
      <4>3. CASE OwnLine(line) /\ HoldsText(Tail(lines[Agent]), t)
        <5>1. LoggedUpTo(s, m)'
          BY <1>1, <1>2, <2>1, <4>3, OwnLineLogged
        <5>2. Awaits(s, t)'
          BY <1>2, <2>1, <2>3, <3>2, <4>3 DEF Awaits
        <5> QED BY <1>2, <5>1, <5>2 DEF TextInv
      <4>4. CASE line = t /\ HoldsText(Tail(lines[Agent]), <<>>)
        <5>1. LoggedUpTo(s, N)'
          BY <1>1, <1>2, <2>1, <4>4, TextIsLogged
        <5>2. Awaits(s, <<>>)'
          BY <1>2, <2>1, <2>3, <3>2, <4>4 DEF Awaits
        <5> QED BY <1>2, <1>7, <5>1, <5>2
      <4> QED BY <4>2, <4>3, <4>4
    <3>3. CASE pc \notin {"flush", "unclean"}
      <4>1. HoldsText(lines[Agent], <<>>)
        BY <1>2, <2>3, <3>3 DEF TextAll, OutputInv, QuietInv, SuccessInv
      <4>2. OwnLine(line)
        <5>1. OwnLine(<<>>)
          BY DEF OwnLine
        <5> QED BY <1>2, <2>3, <4>1, <5>1, TailHolds
      <4>3. LoggedUpTo(s, m)'
        BY <1>1, <1>2, <2>1, <4>2, OwnLineLogged
      <4>4. Awaits(s, t)'
        BY <1>1, <1>2, <2>1, <2>3, <3>1, <3>3 DEF Awaits
      <4> QED BY <1>2, <4>3, <4>4 DEF TextInv
    <3> QED BY <3>2, <3>3
  <2> QED BY <2>2, <2>3 DEF Writers
<1> QED BY <1>5, <1>6

\* Logging takes lines from their front, and changes nothing else that matters here.
LEMMA DeliverRest ==
  ASSUME NEW s, Streams = {s}, TextAll, NEW w \in Writers, Deliver(w) \/ DeliverFails(w)
  PROVE  BufferInv' /\ SuccessInv'
<1>1. /\ phase[w] = "log" /\ lines[w] # <<>>
      /\ UNCHANGED <<run, buffer, cancelled, outcome, printed>>
      /\ lines[w] \in Seq(Line) /\ lines \in [Writers -> Seq(Line)]
      /\ phase \in [Writers -> Phases]
  BY DEF TextAll, TypeOK, Deliver, DeliverFails
<1>2. pc \notin {"finish", "end", "check"}
  BY <1>1 DEF TextAll, OutputInv, QuietInv, Writers
<1>3. CASE DeliverFails(w)
  <2>1. err' /\ lines' = [lines EXCEPT ![w] = <<>>]
    BY <1>3 DEF DeliverFails, Writing
  <2>2. HoldsText(<<>>, <<>>)
    BY DEF HoldsText
  <2>3. pc \in {"announce", "retry"} => HoldsText(lines'[Agent], <<>>)
    BY <1>1, <2>1, <2>2 DEF TextAll, SuccessInv, Writers
  <2> QED BY <1>1, <1>2, <2>1, <2>3 DEF TextAll, SuccessInv, BufferInv
<1>4. CASE Deliver(w)
  <2>1. ~err /\ err' = err /\ lines' = [lines EXCEPT ![w] = Tail(lines[w])]
        /\ phase' = [phase EXCEPT ![w] = "log"]
    BY <1>4 DEF TextAll, BatchInv, Deliver, Writing
  <2>2. phase' = phase
    BY <1>1, <2>1
  <2>3. pc \in {"announce", "retry"} => HoldsText(lines'[Agent], <<>>)
    <3>1. CASE w = Agent /\ pc \in {"announce", "retry"}
      <4>1. HoldsText(Tail(lines[w]), <<>>)
        BY <1>1, <3>1, TailHolds DEF TextAll, SuccessInv
      <4> QED BY <1>1, <2>1, <3>1, <4>1
    <3>2. CASE w # Agent
      BY <1>1, <2>1, <3>2 DEF TextAll, SuccessInv, Writers
    <3> QED BY <3>1, <3>2
  <2>4. phase[s] = "log" => lines'[s] \in {<<>>, <<buffer>>}
    <3>1. CASE w = s
      <4>1. lines[s] = <<buffer>>
        BY <1>1, <2>1, <3>1 DEF TextAll, BufferInv
      <4> QED BY <1>1, <2>1, <3>1, <4>1
    <3>2. CASE w # s
      BY <1>1, <2>1, <3>2 DEF TextAll, BufferInv, Writers
    <3> QED BY <3>1, <3>2
  <2> QED BY <1>1, <1>2, <2>1, <2>2, <2>3, <2>4 DEF TextAll, SuccessInv, BufferInv
<1> QED BY <1>3, <1>4

\* A step that leaves the log alone leaves what is in it.
LEMMA LogStays ==
  ASSUME NEW s \in Streams, NEW m, LoggedUpTo(s, m), UNCHANGED printed,
         received' \cup events' = received \cup events
  PROVE  LoggedUpTo(s, m)'
BY DEF LoggedUpTo

\* Neither does it change the texts that wait, if they stay where they are.
LEMMA TextStays ==
  ASSUME NEW s, Streams = {s}, TextAll, UNCHANGED printed,
         received' \cup events' = received \cup events,
         ~err' => ~err /\ \A t : Awaits(s, t) => Awaits(s, t)'
  PROVE  TextInv'
<1>1. PICK m \in 0 .. Len(printed[s]) :
        LoggedUpTo(s, m) /\ (~err => Awaits(s, SubSeq(printed[s], m + 1, Len(printed[s]))))
  BY DEF TextAll, TextInv
<1>2. LoggedUpTo(s, m)'
  BY <1>1, LogStays
<1>3. ~err' => Awaits(s, SubSeq(printed[s], m + 1, Len(printed[s])))'
  <2>1. ASSUME NEW x, x = SubSeq(printed[s], m + 1, Len(printed[s])), ~err'
        PROVE  Awaits(s, x)'
    BY <1>1, <2>1
  <2> QED BY <2>1 DEF Awaits
<1>4. printed' = printed
  OBVIOUS
<1> QED BY <1>1, <1>2, <1>3, <1>4 DEF TextAll, TextInv

\* A piece that is read goes to the end of the text that waits, and of the buffer.
LEMMA CopyText ==
  ASSUME NEW s, Streams = {s}, TextAll, Copies(s), pc # "panicked", BatchInv'
  PROVE  TypeOK' /\ TextInv' /\ BufferInv' /\ SuccessInv'
<1>1. /\ pc = "run" /\ s \in Streams /\ s \in Writers /\ s # Agent
      /\ outcome # "succeeded" /\ BatchFits'
  BY DEF Copies, Read, Take, Reset, WriteRefused, LineTooLong, EndOfFile, Panics, TextAll,
         OutputInv, QuietInv, Writing, Writers, BatchInv, BatchFits, SuccessInv
<1>2. /\ phase \in [Writers -> Phases]
      /\ lines \in [Writers -> Seq(Line)] /\ buffer \in Seq(Chunk)
      /\ printed \in [Streams -> Seq(Chunk)]
      /\ launched \in Nat
  BY DEF TextAll, TypeOK, Line
<1>3. ASSUME NEW eol \in BOOLEAN, Read(s, eol)
      PROVE  TypeOK' /\ TextInv' /\ BufferInv' /\ SuccessInv'
  <2> DEFINE N     == Len(printed[s])
             chunk == [from |-> s, n |-> N + 1, try |-> launched, eol |-> eol]
  <2>1. /\ phase[s] = "read" /\ ~err /\ UNCHANGED <<run, lines, err, sender, cancelled, outcome>>
        /\ printed' = [printed EXCEPT ![s] = Append(printed[s], chunk)]
        /\ buffer' = Append(buffer, chunk)
        /\ phase' = [phase EXCEPT ![s] = IF eol THEN "take" ELSE "read"]
    BY <1>3 DEF Read
  <2>2. chunk \in Chunk /\ N \in Nat
    BY <1>1, <1>2 DEF Chunk
  <2>3. /\ printed'[s] = Append(printed[s], chunk) /\ printed'[s] \in Seq(Chunk)
        /\ Len(printed'[s]) = N + 1
        /\ \A n \in 1 .. N : printed'[s][n] = printed[s][n]
        /\ printed'[s][N + 1] = chunk
        /\ buffer' \in Seq(Chunk) /\ Len(buffer') = Len(buffer) + 1
        /\ buffer'[Len(buffer) + 1] = chunk
        /\ \A i \in 1 .. Len(buffer) : buffer'[i] = buffer[i]
    <3> HIDE DEF chunk
    <3> QED BY <1>1, <1>2, <2>1, <2>2
  <2>4. TypeOK'
    <3>1. phase' \in [Writers -> Phases]
      BY <1>2, <2>1
    <3>2. printed' \in [Streams -> Seq(Chunk)]
      BY <1>2, <2>1, <2>3
    <3> HIDE DEF chunk
    <3> QED BY <1>1, <2>1, <2>3, <3>1, <3>2 DEF TextAll, TypeOK, Line
  <2>5. BufferInv'
    <3>1. \A i \in 1 .. Len(buffer) : ~buffer[i].eol
      BY <1>1, <1>2, <2>1 DEF TextAll, BufferInv
    <3>2. phase'[s] = IF eol THEN "take" ELSE "read"
      BY <1>1, <1>2, <2>1
    <3>3. DOMAIN buffer' = 1 .. Len(buffer) + 1 /\ buffer' # <<>> /\ Len(buffer) \in Nat
      BY <1>2, <2>3
    <3>4. \A i \in DOMAIN buffer' : buffer'[i].eol => eol /\ i = Len(buffer')
      <4> TAKE i \in DOMAIN buffer'
      <4>1. CASE i \in 1 .. Len(buffer)
        BY <2>3, <3>1, <4>1
      <4>2. CASE i = Len(buffer) + 1
        BY <2>3, <4>2
      <4> QED BY <3>3, <4>1, <4>2
    <3> QED BY <1>1, <2>1, <3>2, <3>3, <3>4 DEF BufferInv
  <2>6. TextInv'
    <3>1. PICK m \in 0 .. N : LoggedUpTo(s, m) /\ Awaits(s, SubSeq(printed[s], m + 1, N))
      BY <2>1 DEF TextAll, TextInv
    <3>2. LoggedUpTo(s, m)'
      <4>1. \A n \in 1 .. m : printed'[s][n] = printed[s][n]
        BY <2>2, <2>3
      <4>2. received' = received /\ events' = events
        BY <2>1
      <4> QED BY <3>1, <4>1, <4>2 DEF LoggedUpTo
    <3>3. buffer = SubSeq(printed[s], m + 1, N)
      BY <1>1, <2>1, <3>1 DEF Awaits
    <3>4. SubSeq(printed'[s], m + 1, N + 1) = buffer'
      <4>1. /\ Len(buffer) = N - m
            /\ \A i \in 1 .. N - m : buffer[i] = printed[s][m + i]
        BY <1>1, <1>2, <2>2, <3>3
      <4>2. /\ SubSeq(printed'[s], m + 1, N + 1) \in Seq(Chunk)
            /\ Len(SubSeq(printed'[s], m + 1, N + 1)) = N + 1 - m
            /\ \A i \in 1 .. N + 1 - m : SubSeq(printed'[s], m + 1, N + 1)[i] = printed'[s][m + i]
        <5> HIDE DEF chunk, N
        <5> QED BY <2>2, <2>3, SubSeqProperties
      <4>3. \A i \in 1 .. N + 1 - m : printed'[s][m + i] = buffer'[i]
        <5> HIDE DEF chunk, N
        <5> TAKE i \in 1 .. N + 1 - m
        <5>1. CASE i \in 1 .. N - m
          BY <2>2, <2>3, <4>1, <5>1
        <5>2. CASE i = N + 1 - m
          BY <2>2, <2>3, <4>1, <5>2
        <5> QED BY <2>2, <5>1, <5>2
      <4> HIDE DEF chunk, N
      <4>4. Len(buffer') = N + 1 - m
        BY <2>2, <2>3, <4>1
      <4> DEFINE late == SubSeq(printed'[s], m + 1, N + 1)
      <4>5. /\ late \in Seq(Chunk) /\ buffer' \in Seq(Chunk) /\ Len(late) = Len(buffer')
            /\ \A i \in 1 .. Len(late) : late[i] = buffer'[i]
        BY <2>3, <4>2, <4>3, <4>4
      <4> HIDE DEF late
      <4>6. late = buffer'
        BY <4>5, SeqEqual
      <4> QED BY <4>6 DEF late
    <3>5. Awaits(s, SubSeq(printed[s], m + 1, Len(printed[s])))'
      <4>1. phase'[s] # "log" /\ pc' = pc
        BY <1>1, <1>2, <2>1
      <4> QED BY <1>1, <2>3, <3>4, <4>1 DEF Awaits
    <3>6. \A n \in DOMAIN printed'[s] : printed'[s][n].from = s /\ printed'[s][n].n = n
      <4>1. \A n \in 1 .. N : printed[s][n].from = s /\ printed[s][n].n = n
        BY <1>1, <1>2 DEF TextAll, TextInv
      <4>2. DOMAIN printed'[s] = 1 .. N + 1 /\ chunk.from = s /\ chunk.n = N + 1
        BY <2>2, <2>3
      <4> HIDE DEF chunk, N
      <4> QED BY <2>2, <2>3, <4>1, <4>2
    <3>7. m \in 0 .. Len(printed'[s])
      <4> HIDE DEF chunk, N
      <4> QED BY <2>2, <2>3
    <3> QED BY <3>2, <3>5, <3>6, <3>7 DEF TextInv
  <2>7. SuccessInv'
    BY <1>1, <2>1 DEF TextAll, SuccessInv
  <2> QED BY <2>4, <2>5, <2>6, <2>7
<1>4. ASSUME Take(s) \/ Reset(s) \/ WriteRefused(s) \/ LineTooLong(s) \/ EndOfFile(s)
      PROVE  TypeOK' /\ TextInv' /\ BufferInv' /\ SuccessInv'
  <2>1. /\ UNCHANGED <<run, received, events, undelivered, next, cancelled, outcome, printed>>
    BY <1>4 DEF Take, Reset, WriteRefused, LineTooLong, EndOfFile
  <2>6. err' \in BOOLEAN
    BY <1>4 DEF Take, Reset, WriteRefused, LineTooLong, EndOfFile, TextAll, TypeOK
  <2>2. CASE err' = TRUE
    <3>1. ~Take(s) /\ ~Reset(s)
      BY <1>1, <2>2 DEF Take, Reset, TextAll, BatchInv
    <3>2. /\ phase' \in [Writers -> Phases]
          /\ lines' = [lines EXCEPT ![s] = <<>>] /\ buffer' \in {buffer, <<>>}
      BY <1>2, <1>4, <3>1 DEF WriteRefused, LineTooLong, EndOfFile, Writing
    <3>5. lines' \in [Writers -> Seq(Line)] /\ buffer' \in Line
      <4>1. <<>> \in Seq(Line) /\ <<>> \in Seq(Chunk)
        OBVIOUS
      <4> QED BY <1>2, <3>2, <4>1 DEF Line
    <3>3. TypeOK'
      BY <1>1, <2>1, <2>6, <3>2, <3>5 DEF TextAll, TypeOK
    <3>4. TextInv'
      BY <2>1, <2>2, TextStays
    <3> QED BY <1>1, <2>1, <2>2, <3>3, <3>4 DEF TextAll, BufferInv, SuccessInv
  <2>3. CASE Take(s) /\ ~err'
    <3>1. /\ phase[s] = "take" /\ phase' = [phase EXCEPT ![s] = "log"] /\ ~err
          /\ lines' = [lines EXCEPT ![s] = Lines(buffer)] /\ buffer' = buffer /\ err' = err
      BY <2>3 DEF Take, Writing
    <3>2. Lines(buffer) = <<buffer>> /\ buffer # <<>>
      BY <1>1, <1>2, <3>1, OneLine DEF TextAll, BufferInv
    <3>3. /\ phase' \in [Writers -> Phases]
          /\ lines' \in [Writers -> Seq(Line)]
      <4>1. <<buffer>> \in Seq(Line)
        BY <1>2 DEF Line
      <4> QED BY <1>2, <3>1, <3>2, <4>1
    <3>4. TypeOK'
      BY <1>1, <2>1, <3>1, <3>3 DEF TextAll, TypeOK
    <3>5. lines'[s] = <<buffer>> /\ phase'[s] = "log"
      BY <1>1, <1>2, <3>1, <3>2
    <3>6. \A t : Awaits(s, t) => Awaits(s, t)'
      BY <1>1, <2>1, <3>1, <3>5 DEF Awaits
    <3>7. TextInv'
      BY <2>1, <3>1, <3>6, TextStays
    <3> QED BY <1>1, <2>1, <3>1, <3>2, <3>4, <3>5, <3>7 DEF TextAll, BufferInv, SuccessInv
  <2>4. CASE (Reset(s) \/ EndOfFile(s)) /\ ~err'
    <3>1. /\ phase' = [phase EXCEPT ![s] = IF Reset(s) THEN "read" ELSE "idle"]
          /\ lines' = [lines EXCEPT ![s] = <<>>] /\ err' = err /\ ~err
          /\ Reset(s) => buffer' = <<>> /\ phase[s] = "log" /\ lines[s] = <<>>
          /\ ~Reset(s) => buffer' = buffer /\ phase[s] = "read"
      BY <2>4 DEF Reset, EndOfFile, Writing
    <3>2. /\ phase' \in [Writers -> Phases]
          /\ lines' \in [Writers -> Seq(Line)] /\ buffer' \in Line
      <4>1. <<>> \in Seq(Line) /\ <<>> \in Seq(Chunk)
        OBVIOUS
      <4> QED BY <1>2, <3>1, <4>1 DEF Line
    <3>3. TypeOK'
      BY <1>1, <2>1, <3>1, <3>2 DEF TextAll, TypeOK
    <3>4. phase'[s] \in {"read", "idle"}
      BY <1>1, <1>2, <3>1
    <3>5. \A t : Awaits(s, t) => Awaits(s, t)'
      BY <1>1, <2>1, <3>1, <3>4 DEF Awaits
    <3>6. TextInv'
      BY <2>1, <3>1, <3>5, TextStays
    <3> QED BY <1>1, <2>1, <3>1, <3>3, <3>4, <3>6 DEF TextAll, BufferInv, SuccessInv
  <2>5. CASE WriteRefused(s) \/ LineTooLong(s)
    <3>1. err' = TRUE
      BY <2>5 DEF WriteRefused, LineTooLong, TextAll, TypeOK
    <3> QED BY <2>2, <3>1
  <2> QED BY <1>4, <2>1, <2>2, <2>3, <2>4, <2>5
<1>5. ~Panics(s)
  BY DEF Panics
<1> QED BY <1>3, <1>4, <1>5 DEF Copies

\* The agent's own line.
LEMMA MessageIsOwn ==
  ASSUME launched \in Nat
  PROVE  Message \in Line /\ OwnLine(Message)
BY DEF Message, Line, Chunk, OwnLine, Writers

\* What is left of the buffer is held among the lines about a failure.
LEMMA EpiloguesHold ==
  ASSUME launched \in Nat, NEW text \in Line,
         \A i \in DOMAIN text : text[i].eol => i = Len(text),
         NEW ls, ls \in Epilogues(FALSE, Lines(text)) \/ ls = Lines(text)
                   \/ ls = Append(Lines(text), Message)
  PROVE  ls \in Seq(Line) /\ HoldsText(ls, text)
<1>1. Message \in Line /\ OwnLine(Message)
  BY MessageIsOwn
<1>2. Lines(text) = IF text = <<>> THEN <<>> ELSE <<text>>
  BY OneLine DEF Line
<1>3. ls \in {Lines(text), Append(Lines(text), Message),
             <<Message>> \o Append(Lines(text), Message)}
  BY DEF Epilogues
<1>4. CASE text = <<>>
  <2>1. ls \in {<<>>, <<Message>>, <<Message, Message>>}
    BY <1>2, <1>3, <1>4
  <2>2. ls \in Seq(Line)
    <3>1. <<>> \in Seq(Line) /\ <<Message>> \in Seq(Line) /\ <<Message, Message>> \in Seq(Line)
      BY <1>1
    <3> QED BY <2>1, <3>1
  <2>3. \A i \in DOMAIN ls : ls[i] = Message
    <3>1. CASE ls = <<>>
      BY <3>1
    <3>2. CASE ls = <<Message>>
      BY <3>2
    <3>3. CASE ls = <<Message, Message>>
      BY <3>3
    <3> QED BY <2>1, <3>1, <3>2, <3>3
  <2> QED BY <1>1, <1>4, <2>2, <2>3 DEF HoldsText
<1>5. CASE text # <<>>
  <2>1. ls \in {<<text>>, <<text, Message>>, <<Message, text, Message>>}
    BY <1>2, <1>3, <1>5
  <2>2. ls \in Seq(Line)
    <3>1. /\ <<text>> \in Seq(Line) /\ <<text, Message>> \in Seq(Line)
          /\ <<Message, text, Message>> \in Seq(Line)
      BY <1>1
    <3> QED BY <2>1, <3>1
  <2>3. \E k \in DOMAIN ls : ls[k] = text /\ \A i \in DOMAIN ls \ {k} : ls[i] = Message
    <3>1. CASE ls = <<text>>
      BY <3>1
    <3>2. CASE ls = <<text, Message>>
      BY <3>2
    <3>3. CASE ls = <<Message, text, Message>>
      <4>1. 2 \in DOMAIN ls /\ ls[2] = text /\ \A i \in DOMAIN ls \ {2} : ls[i] = Message
        BY <3>3
      <4> QED BY <4>1
    <3> QED BY <2>1, <3>1, <3>2, <3>3
  <2> QED BY <1>1, <2>2, <2>3 DEF HoldsText
<1> QED BY <1>4, <1>5

\* The main goroutine takes the text that waits as a whole, or leaves it; before an attempt
\* ends without an error it waits until all of it is logged.
LEMMA AttemptsText ==
  ASSUME NEW s, Streams = {s}, TextAll, Attempts, BatchInv'
  PROVE  TypeOK' /\ TextInv' /\ BufferInv' /\ SuccessInv'
<1> DEFINE Kept == TypeOK' /\ TextInv' /\ BufferInv' /\ SuccessInv'
<1>1. /\ phase \in [Writers -> Phases] /\ lines \in [Writers -> Seq(Line)] /\ buffer \in Line
      /\ launched \in Nat /\ try \in 0 .. MaxAttempts /\ step \in 1 .. MaxSteps
      /\ s \in Writers /\ Agent \in Writers /\ s # Agent /\ Streams = {s} /\ Shared
      /\ BatchFits' /\ <<>> \in Seq(Line) /\ <<>> \in Line
      /\ MaxAttempts \in Nat /\ MaxSteps \in Nat
  <2>1. /\ phase \in [Writers -> Phases] /\ lines \in [Writers -> Seq(Line)] /\ buffer \in Line
        /\ launched \in Nat /\ try \in 0 .. MaxAttempts /\ step \in 1 .. MaxSteps
    BY DEF TextAll, TypeOK
  <2>2. s \in Writers /\ Agent \in Writers /\ s # Agent /\ Shared
    BY SharedByOne DEF Writers
  <2>3. BatchFits' /\ <<>> \in Seq(Line) /\ <<>> \in Line
    BY DEF BatchInv, BatchFits, Line
  <2> QED BY <2>1, <2>2, <2>3, BoundsAssumption
<1>2. /\ Message \in Line /\ <<Message>> \in Seq(Line)
      /\ HoldsText(<<Message>>, <<>>) /\ HoldsText(<<>>, <<>>)
  BY <1>1, MessageIsOwn DEF HoldsText
<1>3. /\ pc \notin {"run", "panicked"} => phase[s] = "idle"
      /\ pc \notin {"announce", "flush", "unclean", "retry"} => phase[Agent] = "idle"
      /\ outcome = "succeeded" => pc = "end"
  BY <1>1 DEF TextAll, OutputInv, QuietInv, SuccessInv
<1> USE DEF TextAll, Says, Writing, Wrote, Failed
<1>4. CASE BeginAttempt
  <2> USE <1>4 DEF BeginAttempt
  <2>1. TypeOK'
    BY <1>1, <1>2 DEF TypeOK, SuccessInv
  <2>2. \A t : Awaits(s, t) => Awaits(s, t)'
    BY <1>1 DEF Awaits
  <2>3. TextInv'
    BY <2>2, TextStays
  <2>4. BufferInv'
    BY <1>1, <1>3 DEF BufferInv
  <2>5. SuccessInv'
    BY <1>1, <1>2, <1>3 DEF SuccessInv
  <2> QED BY <2>1, <2>3, <2>4, <2>5
<1>5. CASE CancelledBetween
  <2> USE <1>5 DEF CancelledBetween
  <2>1. TypeOK'
    BY <1>1 DEF TypeOK
  <2>2. \A t : Awaits(s, t) => Awaits(s, t)'
    BY <1>1 DEF Awaits
  <2>3. TextInv'
    BY <2>2, TextStays
  <2>4. BufferInv'
    BY <1>1, <1>3 DEF BufferInv
  <2>5. SuccessInv'
    BY <1>1, <1>3 DEF SuccessInv
  <2> QED BY <2>1, <2>3, <2>4, <2>5
<1>6. CASE Start
  <2> USE <1>6 DEF Start
  <2>1. TypeOK'
    BY <1>1 DEF TypeOK
  <2>2. \A t : Awaits(s, t) => Awaits(s, t)'
    BY <1>1, <1>3 DEF Awaits
  <2>3. TextInv'
    BY <2>2, TextStays
  <2>4. BufferInv'
    BY <1>1, <1>3 DEF BufferInv
  <2>5. SuccessInv'
    BY <1>1, <1>3 DEF SuccessInv
  <2> QED BY <2>1, <2>3, <2>4, <2>5
<1>7. CASE StartFails
  <2> USE <1>7 DEF StartFails
  <2>1. TypeOK'
    BY <1>1, <1>2 DEF TypeOK
  <2>2. ~err => \A t : Awaits(s, t) => Awaits(s, t)'
    <3>1. lines'[Agent] = <<Message>>
      BY <1>1
    <3>2. ~err => buffer = <<>>
      BY DEF BufferInv
    <3> QED BY <1>1, <1>2, <1>3, <3>1, <3>2 DEF Awaits
  <2>3. TextInv'
    BY <2>2, TextStays
  <2>4. BufferInv'
    BY <1>1, <1>3 DEF BufferInv
  <2>5. SuccessInv'
    BY <1>1, <1>2, <1>3 DEF SuccessInv
  <2> QED BY <2>1, <2>3, <2>4, <2>5
<1>8. CASE \E well \in BOOLEAN : Exits(well)
  <2> USE <1>8 DEF Exits
  <2>1. TypeOK'
    BY <1>1 DEF TypeOK
  <2>2. \A t : Awaits(s, t) => Awaits(s, t)'
    BY <1>1 DEF Awaits
  <2>3. TextInv'
    BY <2>2, TextStays
  <2>4. BufferInv'
    BY <1>1, <1>3 DEF BufferInv
  <2>5. SuccessInv'
    BY <1>1, <1>3 DEF SuccessInv
  <2> QED BY <2>1, <2>3, <2>4, <2>5
<1>9. ASSUME Waited \/ (Unconfirmed /\ ~err)
      PROVE  Kept
  <2>1. phase[s] = "idle" /\ pc = "run" /\ ~err /\ err' = err /\ buffer' = buffer
    <3>1. phase[s] \in {"idle", "failed"} /\ ~err
      BY <1>1, <1>9 DEF Waited, Unconfirmed, Joined
    <3> QED BY <1>9, <3>1 DEF Waited, Unconfirmed, Joined, OutputInv, ErrorInv
  <2>2. \A i \in DOMAIN buffer : buffer[i].eol => i = Len(buffer)
    BY <1>1, <2>1 DEF BufferInv
  <2>3. PICK ls : /\ \/ ls \in Epilogues(FALSE, Lines(buffer)) \/ ls = Lines(buffer)
                     \/ ls = Append(Lines(buffer), Message)
                  /\ lines' = [lines EXCEPT ![Agent] = ls]
                  /\ phase' = [phase EXCEPT ![Agent] = "log"]
    <3>1. Epilogues(ok, Lines(buffer))
            \subseteq Epilogues(FALSE, Lines(buffer)) \cup {Lines(buffer)}
      BY DEF Epilogues, TypeOK
    <3> QED BY <1>1, <1>9, <2>1, <3>1 DEF Waited, Unconfirmed
  <2>4. ls \in Seq(Line) /\ HoldsText(ls, buffer)
    BY <1>1, <2>2, <2>3, EpiloguesHold
  <2>5. /\ pc' \in {"flush", "unclean"} /\ ok' \in BOOLEAN /\ proc' = "none"
        /\ UNCHANGED <<step, try, launched, next, events, received, undelivered>>
        /\ UNCHANGED <<cancelled, outcome, printed>>
    BY <1>1, <1>9, <2>1 DEF Waited, Unconfirmed, TypeOK
  <2>6. lines' \in [Writers -> Seq(Line)] /\ phase' \in [Writers -> Phases] /\ lines'[Agent] = ls
    BY <1>1, <2>3, <2>4
  <2>7. TypeOK'
    BY <1>1, <2>1, <2>5, <2>6 DEF TypeOK
  <2>8. \A t : Awaits(s, t) => Awaits(s, t)'
    BY <1>1, <2>1, <2>4, <2>5, <2>6 DEF Awaits
  <2>9. TextInv'
    BY <2>1, <2>5, <2>8, TextStays
  <2>10. phase'[s] = "idle" /\ phase'[Agent] = "log"
    BY <1>1, <2>1, <2>3
  <2>11. BufferInv'
    BY <1>1, <2>1, <2>5, <2>10 DEF BufferInv
  <2>12. SuccessInv'
    BY <1>3, <2>1, <2>5, <2>10 DEF SuccessInv
  <2> QED BY <2>7, <2>9, <2>11, <2>12
<1>10. ASSUME WaitFails \/ (Unconfirmed /\ err)
       PROVE  Kept
  <2>1. /\ err /\ err' = err /\ pc' = "finish" /\ ok' = FALSE /\ proc' = "none"
        /\ phase' = [w \in Writers |-> "idle"] /\ pc = "run"
        /\ UNCHANGED <<step, try, launched, lines, buffer, next, events, received, undelivered,
                       cancelled, outcome, printed>>
    BY <1>10 DEF WaitFails, Unconfirmed, Joined
  <2>2. TypeOK'
    BY <1>1, <2>1 DEF TypeOK
  <2>3. TextInv'
    BY <2>1, TextStays
  <2>4. BufferInv' /\ SuccessInv'
    BY <1>1, <1>3, <2>1 DEF BufferInv, SuccessInv
  <2> QED BY <2>2, <2>3, <2>4
<1>11. CASE Flushed
  <2> USE <1>11 DEF Flushed
  <2>1. TypeOK'
    <3>1. /\ phase' \in [Writers -> Phases] /\ lines' \in [Writers -> Seq(Line)] /\ buffer' \in Line
          /\ pc' \in {"verdict", "finish"}
      BY <1>1
    <3>2. UNCHANGED <<step, try, ok, proc, launched, err, sender, cancelled, outcome, printed>>
      OBVIOUS
    <3> QED BY <1>1, <3>1, <3>2 DEF TypeOK
  <2>2. ~err
    BY DEF OutputInv, ErrorInv
  <2>3. \A t : Awaits(s, t) => t = <<>>
    BY DEF Awaits, HoldsText
  <2>4. \A t : Awaits(s, t) => Awaits(s, t)'
    BY <1>1, <1>3, <2>3 DEF Awaits
  <2>5. TextInv'
    BY <2>4, TextStays
  <2>6. BufferInv'
    BY <1>1, <1>3 DEF BufferInv
  <2>7. SuccessInv'
    BY <1>1, <1>3, <2>2 DEF SuccessInv
  <2> QED BY <2>1, <2>5, <2>6, <2>7
<1>12. CASE WriteFailed
  <2> USE <1>12 DEF WriteFailed
  <2>1. TypeOK'
    <3>1. phase' \in [Writers -> Phases] /\ lines' \in [Writers -> Seq(Line)]
      BY <1>1
    <3>2. /\ pc' = "finish" /\ ok' = FALSE
          /\ UNCHANGED <<step, try, proc, launched, buffer, err, sender>>
          /\ UNCHANGED <<cancelled, outcome, printed>>
      OBVIOUS
    <3> QED BY <1>1, <3>1, <3>2 DEF TypeOK
  <2>2. err /\ err' = err
    BY DEF SuccessInv
  <2>3. TextInv'
    BY <2>2, TextStays
  <2>4. BufferInv' /\ SuccessInv'
    BY <1>1, <1>3, <2>2 DEF BufferInv, SuccessInv
  <2> QED BY <2>1, <2>3, <2>4
<1>13. CASE NextStep
  <2> USE <1>13 DEF NextStep
  <2>1. TypeOK'
    <3>1. /\ pc' = "check" /\ step' \in 1 .. MaxSteps /\ try' \in 0 .. MaxAttempts
          /\ buffer' \in Line /\ err' = FALSE
      BY <1>1, BoundsAssumption DEF TypeOK, Line
    <3>2. UNCHANGED <<ok, proc, launched, phase, lines, sender, cancelled, outcome, printed>>
      OBVIOUS
    <3> QED BY <1>1, <3>1, <3>2 DEF TypeOK
  <2>2. ~err /\ buffer = <<>>
    BY DEF OutputInv, ErrorInv, BufferInv
  <2>3. \A t : Awaits(s, t) => Awaits(s, t)'
    BY <1>1, <2>2 DEF Awaits
  <2>4. TextInv'
    BY <2>2, <2>3, TextStays
  <2>5. BufferInv'
    BY <1>1, <1>3 DEF BufferInv
  <2>6. SuccessInv'
    BY <1>1, <1>3, BoundsAssumption DEF SuccessInv
  <2> QED BY <2>1, <2>4, <2>5, <2>6
<1>14. CASE StepsEnd
  <2> USE <1>14 DEF StepsEnd
  <2>1. TypeOK'
    BY <1>1 DEF TypeOK
  <2>2. \A t : Awaits(s, t) => Awaits(s, t)'
    BY <1>1 DEF Awaits
  <2>3. TextInv'
    BY <2>2, TextStays
  <2>4. BufferInv' /\ SuccessInv'
    BY <1>1, <1>3 DEF BufferInv, SuccessInv, OutputInv, ErrorInv
  <2> QED BY <2>1, <2>3, <2>4
<1>15. CASE Retry
  <2> USE <1>15 DEF Retry
  <2>1. TypeOK'
    BY <1>1, <1>2 DEF TypeOK
  <2>2. \A t : Awaits(s, t) => Awaits(s, t)'
    BY <1>1 DEF Awaits
  <2>3. TextInv'
    BY <2>2, TextStays
  <2>4. BufferInv'
    BY <1>1, <1>3 DEF BufferInv
  <2>5. SuccessInv'
    BY <1>1, <1>2, <1>3 DEF SuccessInv
  <2> QED BY <2>1, <2>3, <2>4, <2>5
<1>16. CASE Retried
  <2> USE <1>16 DEF Retried
  <2>1. TypeOK'
    BY <1>1 DEF TypeOK
  <2>2. \A t : Awaits(s, t) => Awaits(s, t)'
    BY <1>1 DEF Awaits
  <2>3. TextInv'
    BY <2>2, TextStays
  <2>4. BufferInv'
    BY <1>1, <1>3 DEF BufferInv
  <2>5. SuccessInv'
    BY <1>1, <1>3 DEF SuccessInv
  <2> QED BY <2>1, <2>3, <2>4, <2>5
<1>17. CASE FinalFlush
  <2>1. /\ pc = "finish" /\ pc' = "end"
        /\ UNCHANGED <<step, try, ok, proc, launched, writer, next, cancelled, printed>>
        /\ received' \cup events' = received \cup events
        /\ outcome' \in {"succeeded", "failed", "unflushed"}
        /\ outcome' = "succeeded" => ok /\ events' = {}
    BY <1>17 DEF FinalFlush
  <2>2. undelivered' \in BOOLEAN
    BY <1>17 DEF FinalFlush, TypeOK
  <2>3. received' \subseteq [seq : Nat, line : Line] /\ events' \subseteq [seq : Nat, line : Line]
    BY <2>1 DEF TypeOK
  <2>4. TypeOK'
    BY <1>1, <2>1, <2>2, <2>3 DEF TypeOK
  <2>5. \A t : Awaits(s, t) => Awaits(s, t)'
    BY <2>1 DEF Awaits
  <2>6. TextInv'
    BY <2>1, <2>5, TextStays
  <2>7. BufferInv'
    BY <1>1, <1>3, <2>1 DEF BufferInv
  <2>8. SuccessInv'
    BY <1>1, <1>3, <2>1 DEF BufferInv, SuccessInv
  <2> QED BY <2>4, <2>6, <2>7, <2>8
<1> QED
  BY <1>4, <1>5, <1>6, <1>7, <1>8, <1>9, <1>10, <1>11, <1>12, <1>13, <1>14, <1>15, <1>16, <1>17
  DEF Attempts

\* TextAll but for OutputInv and BatchInv, at the start and after a step.
LEMMA TextInit ==
  ASSUME NEW s, Streams = {s}, Init
  PROVE  TypeOK /\ TextInv /\ BufferInv /\ SuccessInv
<1>1. TypeOK
  <2>1. <<>> \in Seq(Line) /\ <<>> \in Line /\ \A S : <<>> \in Seq(S)
    BY DEF Line
  <2>2. /\ phase \in [Writers -> Phases]
        /\ lines \in [Writers -> Seq(Line)] /\ printed \in [Streams -> Line] /\ buffer \in Line
    BY <2>1 DEF Init
  <2>3. BatchFits
    BY FS_EmptySet, EventsAssumption DEF Init, BatchFits
  <2>4. /\ pc = "check" /\ step \in 1 .. MaxSteps /\ try \in 0 .. MaxAttempts /\ launched \in Nat
        /\ proc = "none" /\ next \in Nat /\ events = {} /\ received = {} /\ outcome = "none"
    BY BoundsAssumption DEF Init
  <2>5. ok = TRUE /\ err = FALSE /\ cancelled = FALSE /\ undelivered = FALSE
    BY DEF Init
  <2> QED BY <2>2, <2>3, <2>4, <2>5 DEF TypeOK
<1>2. TextInv
  <2>1. Pieces({}) = {}
    BY DEF Pieces
  <2>2. PiecesOf(s, received \cup events) = {}
    BY <2>1 DEF Init, PiecesOf
  <2>3. LoggedUpTo(s, 0)
    BY <2>2 DEF LoggedUpTo
  <2>4. Awaits(s, SubSeq(printed[s], 0 + 1, Len(printed[s])))
    BY DEF Init, Awaits, Writers
  <2>5. printed[s] = <<>> /\ 0 \in 0 .. Len(printed[s])
    BY DEF Init
  <2> QED BY <2>3, <2>4, <2>5 DEF TextInv
<1>3. BufferInv
  <2>1. buffer = <<>> /\ \A t \in Streams : phase[t] = "idle"
    BY DEF Init, Writers
  <2> QED BY <2>1 DEF BufferInv
<1>4. SuccessInv
  BY BoundsAssumption DEF Init, SuccessInv, Writers
<1> QED BY <1>1, <1>2, <1>3, <1>4

LEMMA TextStep ==
  ASSUME NEW s, Streams = {s}, TextAll, [Next]_vars, BatchInv'
  PROVE  TypeOK' /\ TextInv' /\ BufferInv' /\ SuccessInv'
<1>1. CASE Attempts
  BY <1>1, AttemptsText
<1>2. CASE Cancel \/ UNCHANGED vars
  <2>1. /\ UNCHANGED <<run, writer, next, events, received, undelivered, outcome, printed>>
        /\ cancelled' \in BOOLEAN
    BY <1>2 DEF Cancel, TextAll, TypeOK
  <2>2. TypeOK'
    BY <2>1 DEF TextAll, TypeOK, BatchFits
  <2>3. \A t : Awaits(s, t) => Awaits(s, t)'
    BY <2>1 DEF Awaits
  <2>4. TextInv'
    BY <2>1, <2>3, TextStays
  <2> QED BY <2>1, <2>2, <2>4 DEF TextAll, BufferInv, SuccessInv
<1>3. CASE pc # "panicked" /\ \E t \in Streams : Copies(t)
  BY <1>3, CopyText
<1>4. CASE \E w \in Writers : Deliver(w) \/ DeliverFails(w)
  BY <1>4, DeliverTypes, DeliverText, DeliverRest
<1> QED BY <1>1, <1>2, <1>3, <1>4 DEF Next, Over

\* It is an invariant.
LEMMA TextInvariant ==
  ASSUME NEW s, Streams = {s}
  PROVE  Spec => []TextAll
<1>2. Init => TextAll
  BY BatchInit, OutputInit, TextInit DEF TextAll
<1>3. TextAll /\ [Next]_vars => TextAll'
  <2> SUFFICES ASSUME TextAll, [Next]_vars PROVE TextAll'
    OBVIOUS
  <2>1. OutputInv'
    BY OutputStep DEF TextAll
  <2>2. BatchInv'
    BY BatchStep DEF TextAll
  <2> QED BY <2>1, <2>2, TextStep DEF TextAll
<1> HIDE DEF vars
<1> QED BY <1>2, <1>3, PTL DEF Spec

\* Every variable keeps its type and a batch fits, of a container's output: the attempts
\* stay within their bound, and lines and events are made of pieces that were read or that
\* the agent wrote (executeAttempts, logSender.Write).
THEOREM TypesAreKept == ASSUME NEW s, Streams = {s} PROVE Spec => []TypeOK
<1>1. TextAll => TypeOK
  BY DEF TextAll
<1> QED BY <1>1, TextInvariant, PTL

\* What is stored is a part of what is in the log.
LEMMA StoredPieces ==
  ASSUME NEW s PROVE PiecesOf(s, received) \subseteq PiecesOf(s, received \cup events)
BY DEF PiecesOf, Pieces

\* In the log of one stream a piece is in one place, and later ones are behind it.
LEMMA PlaceOfPiece ==
  ASSUME TypeOK, SenderInv, NEW s, NEW m, LoggedUpTo(s, m),
         NEW p \in PiecesOf(s, received), NEW q \in PiecesOf(s, received), p # q
  PROVE  p.piece.n # q.piece.n /\ (Before(p, q) => p.piece.n < q.piece.n)
<1>1. /\ p \in PiecesOf(s, received \cup events) /\ q \in PiecesOf(s, received \cup events)
  BY StoredPieces
<1>2. Before(p, q) \/ Before(q, p)
  <2>1. PICK e \in received :
          \E i \in DOMAIN e.line : p = [seq |-> e.seq, at |-> i, piece |-> e.line[i]]
    BY DEF PiecesOf, Pieces
  <2>2. PICK f \in received :
          \E j \in DOMAIN f.line : q = [seq |-> f.seq, at |-> j, piece |-> f.line[j]]
    BY DEF PiecesOf, Pieces
  <2>6. PICK i \in DOMAIN e.line : p = [seq |-> e.seq, at |-> i, piece |-> e.line[i]]
    BY <2>1
  <2>7. PICK j \in DOMAIN f.line : q = [seq |-> f.seq, at |-> j, piece |-> f.line[j]]
    BY <2>2
  <2>3. e.seq \in Nat /\ f.seq \in Nat /\ i \in Nat /\ j \in Nat
    BY DEF TypeOK, Line
  <2>4. CASE e = f
    <3>1. i # j
      BY <2>6, <2>7, <2>4
    <3> QED BY <2>6, <2>7, <2>3, <2>4, <3>1 DEF Before
  <2>5. CASE e # f
    <3>1. e.seq # f.seq
      BY <2>5 DEF SenderInv
    <3> QED BY <2>6, <2>7, <2>3, <3>1 DEF Before
  <2> QED BY <2>4, <2>5
<1>3. /\ p.piece.n \in 1 .. m /\ q.piece.n \in 1 .. m
      /\ Before(p, q) => p.piece.n < q.piece.n
      /\ Before(q, p) => q.piece.n < p.piece.n
  BY <1>1 DEF LoggedUpTo
<1> QED BY <1>2, <1>3

\* Through retries, steps and failed uploads the server holds a container's output in the
\* order in which it was printed (redactingWriter.Write, logSender.Write).
THEOREM LinesAreOrderedTheorem == ASSUME NEW s, Streams = {s} PROVE Spec => []LinesAreOrdered
<1>1. TextAll => LinesAreOrdered
  <2> SUFFICES ASSUME TextAll, NEW p \in PiecesOf(s, received), NEW q \in PiecesOf(s, received),
                      Before(p, q)
               PROVE  p.piece.n <= q.piece.n
    BY DEF LinesAreOrdered
  <2>1. PICK m \in 0 .. Len(printed[s]) : LoggedUpTo(s, m)
    BY DEF TextAll, TextInv
  <2>2. p \in PiecesOf(s, received \cup events) /\ q \in PiecesOf(s, received \cup events)
    BY StoredPieces
  <2>3. p.piece.n \in 1 .. m /\ q.piece.n \in 1 .. m /\ p.piece.n < q.piece.n
    BY <2>1, <2>2 DEF LoggedUpTo
  <2> QED BY <2>3
<1> QED BY <1>1, TextInvariant, PTL

\* A deployment of containers that ends without an error has stored all that they printed,
\* and each piece once (finishAttemptLogs, logSender.Flush).
THEOREM OutputIsCompleteTheorem == ASSUME NEW s, Streams = {s} PROVE Spec => []OutputIsComplete
<1>1. TextAll => OutputIsComplete
  <2> SUFFICES ASSUME TextAll, outcome = "succeeded"
               PROVE  /\ {p.piece : p \in PiecesOf(s, received)}
                           = {printed[s][n] : n \in DOMAIN printed[s]}
                      /\ \A p, q \in PiecesOf(s, received) : p.piece = q.piece => p = q
    BY DEF OutputIsComplete
  <2>1. /\ pc = "end" /\ ~err /\ events = {} /\ buffer = <<>> /\ SenderInv /\ TypeOK
        /\ printed[s] \in Line /\ phase[s] = "idle"
    BY DEF TextAll, SuccessInv, OutputInv, QuietInv, TypeOK
  <2>2. PICK m \in 0 .. Len(printed[s]) :
          LoggedUpTo(s, m) /\ Awaits(s, SubSeq(printed[s], m + 1, Len(printed[s])))
    BY <2>1 DEF TextAll, TextInv
  <2>3. SubSeq(printed[s], m + 1, Len(printed[s])) = <<>>
    BY <2>1, <2>2 DEF Awaits
  <2>4. m = Len(printed[s]) /\ DOMAIN printed[s] = 1 .. m /\ m \in Nat
    <3>1. /\ printed[s] \in Seq(Chunk) /\ Len(printed[s]) \in Nat
          /\ DOMAIN printed[s] = 1 .. Len(printed[s])
      BY <2>1 DEF Line
    <3>2. m + 1 \in 1 .. Len(printed[s]) + 1 /\ m \in Nat
      BY <3>1
    <3>3. m + 1 > Len(printed[s])
      <4>1. /\ m + 1 \in Int /\ Len(printed[s]) \in Int
            /\ \A i \in m + 1 .. Len(printed[s]) : printed[s][i] \in Chunk
        BY <3>1, <3>2
      <4>2. Len(SubSeq(printed[s], m + 1, Len(printed[s])))
              = IF m + 1 <= Len(printed[s]) THEN Len(printed[s]) - (m + 1) + 1 ELSE 0
        BY <4>1, SubSeqProperties
      <4>3. Len(SubSeq(printed[s], m + 1, Len(printed[s]))) = 0
        <5>1. Len(<<>>) = 0
          OBVIOUS
        <5> QED BY <2>3, <5>1, Zenon
      <4> QED BY <4>2, <4>3, <3>1, <3>2
    <3> QED BY <3>1, <3>2, <3>3
  <2>5. received \cup events = received
    BY <2>1
  <2>6. /\ \A n \in 1 .. m : \E p \in PiecesOf(s, received) : p.piece = printed[s][n]
        /\ \A p \in PiecesOf(s, received) : p.piece.n \in 1 .. m /\ p.piece = printed[s][p.piece.n]
    BY <2>2, <2>5 DEF LoggedUpTo
  <2>7. {p.piece : p \in PiecesOf(s, received)} = {printed[s][n] : n \in DOMAIN printed[s]}
    BY <2>4, <2>6
  <2>8. \A p, q \in PiecesOf(s, received) : p.piece = q.piece => p = q
    BY <2>1, <2>2, PlaceOfPiece
  <2> QED BY <2>7, <2>8
<1> QED BY <1>1, TextInvariant, PTL
=============================================================================
