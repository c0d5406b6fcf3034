------------------------------ MODULE StepOutput ------------------------------
(***************************************************************************)
(* The steps of one deployment and what they print: ExecuteSteps and the   *)
(* attempts of executor/job_execution.go, the redacting writer each step   *)
(* has, and the log sender of cmd/agent/log_sender.go that all of them     *)
(* share.  A container's client writes both streams to one writer, which   *)
(* os/exec serves with one goroutine; a host process has a writer for      *)
(* each, and so two goroutines write to one redactingWriter, which has no  *)
(* lock.  The sender has one.                                              *)
(***************************************************************************)
EXTENDS Naturals, Sequences, FiniteSets

CONSTANTS
  Streams,     \* the goroutines copying a process's output
  Agent,       \* the main goroutine, which prints lines of its own
  MaxEvents,   \* events in a batch (100 in protocol/protocol.go)
  MaxSteps, MaxAttempts, MaxChunks, MaxFaults    \* bounds

ASSUME AgentAssumption  == Agent \notin Streams
ASSUME EventsAssumption == MaxEvents \in Nat /\ MaxEvents > 1
ASSUME BoundsAssumption ==
  /\ MaxSteps \in Nat \ {0} /\ MaxAttempts \in Nat \ {0}    \* max_retries + 1
  /\ MaxChunks \in Nat /\ MaxFaults \in Nat

VARIABLES
  pc,          \* the main goroutine
  step, try,   \* the step, and the attempt at it
  ok,          \* whether the attempt's process, and what followed, went well
  proc,        \* the attempt's process: "none", "running" or "exited"
  phase,       \* of each copying goroutine, and of the main one's writes:
               \* "idle", "read", "take", "log" or "failed"
  lines,       \* what remains to be logged of the text each one took
  buffer,      \* redactingWriter.buffer
  err,         \* redactingWriter.err is set
  cancelled,   \* the heartbeat saw a cancellation, or failed: executionCtx is done
  next,        \* logSender.next
  events,      \* logSender.events
  received,    \* log events stored at the server
  outcome,     \* of executeClaim: no error, one of a step, or one of the last flush
  printed,     \* history: what was read from each stream
  launched,    \* history: how many processes were started
  undelivered, \* history: an upload failed
  faults       \* how much went wrong, bounded

run     == <<pc, step, try, ok, proc, launched>>
writer  == <<phase, lines, buffer, err>>
sender  == <<next, events, received, undelivered, faults>>
vars    == <<run, writer, sender, cancelled, outcome, printed>>

Writers == Streams \cup {Agent}
Phases  == {"idle", "read", "take", "log", "failed"}
Fault   == faults < MaxFaults /\ faults' = faults + 1

Init ==
  /\ pc = "check" /\ step = 1 /\ try = 0 /\ ok = TRUE /\ proc = "none" /\ launched = 0
  /\ phase = [w \in Writers |-> "idle"] /\ lines = [w \in Writers |-> <<>>]
  /\ buffer = <<>> /\ err = FALSE /\ cancelled = FALSE
  /\ next = 1 /\ events = {} /\ received = {} /\ undelivered = FALSE /\ faults = 0
  /\ outcome = "none" /\ printed = [s \in Streams |-> <<>>]

-----------------------------------------------------------------------------
(* logSender.  Its lock is held over an upload, so a write is one step.    *)

Event(line) == [seq |-> next, line |-> line]

\* DecodeLogBatch takes no more than MaxLogEvents.
Refused(batch) == Cardinality(batch) > MaxEvents

\* Mutant: a failed upload drops its batch.
Undelivered_Dropped(batch) ==
  /\ \/ (cancelled \/ Refused(batch)) /\ UNCHANGED faults
     \/ Fault
  /\ received' = received \/ (~Refused(batch) /\ received' = received \cup batch)
  /\ events' = {} /\ undelivered' = TRUE

\* sender.events is cleared only after an upload that was answered; a failed
\* one may have been stored.
Undelivered(batch) ==
  /\ \/ (cancelled \/ Refused(batch)) /\ UNCHANGED faults
     \/ Fault
  /\ received' = received \/ (~Refused(batch) /\ received' = received \cup batch)
  /\ events' = batch /\ undelivered' = TRUE

Delivered(batch, rest) ==
  /\ ~cancelled /\ ~Refused(batch) /\ received' = received \cup batch /\ events' = rest
  /\ UNCHANGED <<undelivered, faults>>

\* Mutant: the event that opens a new batch does not use up its number.
Logged_SameNumber(line) ==
  \/ /\ Cardinality(events) + 1 < MaxEvents
     /\ events' = events \cup {Event(line)} /\ next' = next + 1
     /\ UNCHANGED <<received, undelivered, faults>>
  \/ /\ Cardinality(events) + 1 >= MaxEvents /\ next' = next + 1
     /\ Delivered(events \cup {Event(line)}, {})
  \/ events # {} /\ Delivered(events, {Event(line)}) /\ UNCHANGED next

\* Mutant: a full batch waits for one more event.
Logged_OverLimit(line) ==
  /\ next' = next + 1
  /\ \/ /\ Cardinality(events) < MaxEvents /\ events' = events \cup {Event(line)}
        /\ UNCHANGED <<received, undelivered, faults>>
     \/ /\ Cardinality(events) >= MaxEvents
        /\ Delivered(events \cup {Event(line)}, {})
     \/ events # {} /\ Delivered(events, {Event(line)})

\* A batch is uploaded when it is full, or when the next event would make it
\* longer than MaxLogBatchBytes.
Logged(line) ==
  /\ next' = next + 1
  /\ \/ /\ Cardinality(events) + 1 < MaxEvents /\ events' = events \cup {Event(line)}
        /\ UNCHANGED <<received, undelivered, faults>>
     \/ /\ Cardinality(events) + 1 >= MaxEvents
        /\ Delivered(events \cup {Event(line)}, {})
     \/ events # {} /\ Delivered(events, {Event(line)})

LogFails(line) ==
  \/ /\ Cardinality(events) + 1 >= MaxEvents /\ Undelivered(events \cup {Event(line)})
     /\ next' = next + 1
  \/ events # {} /\ Undelivered(events) /\ UNCHANGED next

-----------------------------------------------------------------------------
(* redactingWriter.                                                        *)

\* The lines of a text: cut after every newline.
Lines(text) ==
  LET cuts   == {i \in DOMAIN text : text[i].eol \/ i = Len(text)}
      Cut(i) == CHOOSE k \in cuts : Cardinality({j \in cuts : j <= k}) = i
  IN  [i \in 1 .. Cardinality(cuts) |->
         SubSeq(text, IF i = 1 THEN 1 ELSE Cut(i - 1) + 1, Cut(i))]

Writing(w, p, ls) ==
  /\ phase' = [phase EXCEPT ![w] = p] /\ lines' = [lines EXCEPT ![w] = ls]

\* write: one line of the text after the other.  err is looked at on entry only.
Deliver(w) ==
  /\ phase[w] = "log" /\ lines[w] # <<>> /\ Logged(Head(lines[w]))
  /\ Writing(w, "log", Tail(lines[w]))
  /\ UNCHANGED <<run, buffer, err, cancelled, outcome, printed>>

\* Mutant: the writer forgets that a line could not be logged.
DeliverFails_Forgotten(w) ==
  /\ phase[w] = "log" /\ lines[w] # <<>> /\ LogFails(Head(lines[w]))
  /\ Writing(w, "failed", <<>>)
  /\ UNCHANGED <<run, buffer, err, cancelled, outcome, printed>>

\* The error of a writer is final, and ends the attempt.
DeliverFails(w) ==
  /\ phase[w] = "log" /\ lines[w] # <<>> /\ LogFails(Head(lines[w]))
  /\ Writing(w, "failed", <<>>) /\ err' = TRUE
  /\ UNCHANGED <<run, buffer, cancelled, outcome, printed>>

-----------------------------------------------------------------------------
(* The goroutines that copy a process's output: Write.                     *)

\* A piece of output, which ends a line or does not.
Read(s, eol) ==
  LET chunk == [from |-> s, n |-> Len(printed[s]) + 1, try |-> launched, eol |-> eol] IN
  /\ phase[s] = "read" /\ ~err /\ Len(printed[s]) < MaxChunks
  /\ printed' = [printed EXCEPT ![s] = Append(@, chunk)]
  /\ buffer' = Append(buffer, chunk)
  /\ phase' = [phase EXCEPT ![s] = IF eol THEN "take" ELSE "read"]
  /\ UNCHANGED <<run, lines, err, sender, cancelled, outcome>>

Take(s) ==
  /\ phase[s] = "take" /\ ~err /\ Writing(s, "log", Lines(buffer))
  /\ UNCHANGED <<run, buffer, err, sender, cancelled, outcome, printed>>

\* Mutant: a line that was logged stays in the buffer.
Reset_Kept(s) ==
  /\ phase[s] = "log" /\ lines[s] = <<>> /\ Writing(s, "read", <<>>)
  /\ UNCHANGED <<run, buffer, err, sender, cancelled, outcome, printed>>

Reset(s) ==
  /\ phase[s] = "log" /\ lines[s] = <<>> /\ Writing(s, "read", <<>>) /\ buffer' = <<>>
  /\ UNCHANGED <<run, err, sender, cancelled, outcome, printed>>

WriteRefused(s) ==
  /\ phase[s] \in {"read", "take"} /\ err /\ Writing(s, "failed", <<>>)
  /\ UNCHANGED <<run, buffer, err, sender, cancelled, outcome, printed>>

\* A line longer than maxLogLineBytes is discarded, and the attempt cancelled.
LineTooLong(s) ==
  /\ phase[s] = "read" /\ ~err /\ Fault
  /\ buffer' = <<>> /\ err' = TRUE /\ Writing(s, "failed", <<>>)
  /\ UNCHANGED <<run, next, events, received, undelivered, cancelled, outcome, printed>>

EndOfFile(s) ==
  /\ phase[s] = "read" /\ Writing(s, "idle", <<>>)
  /\ UNCHANGED <<run, buffer, err, sender, cancelled, outcome, printed>>

\* bytes.Buffer.Write finds the end of the data and then slices from there: a
\* Reset in between leaves that index out of range, and the panic ends the agent.
Panics(s) ==
  /\ pc = "run" /\ phase[s] = "read" /\ ~err /\ buffer # <<>>
  /\ \E t \in Streams \ {s} : phase[t] = "log" /\ lines[t] = <<>>
  /\ pc' = "panicked"
  /\ UNCHANGED <<step, try, ok, proc, launched, writer, sender, cancelled, outcome, printed>>

-----------------------------------------------------------------------------
(* ExecuteSteps, executeAttempts and the two runAttempt.                   *)

Shared == Cardinality(Streams) = 1    \* a container: one writer for both streams

\* A line the agent writes itself goes past the buffer.
Says(ls) == Writing(Agent, "log", ls)
Message  == <<[from |-> Agent, n |-> 0, try |-> launched, eol |-> TRUE]>>

Wrote  == phase[Agent] = "log" /\ lines[Agent] = <<>>
Failed == phase[Agent] = "failed"

\* The attempt's first line tells where it runs.
BeginAttempt ==
  /\ pc = "check" /\ ~cancelled /\ pc' = "announce" /\ try' = try + 1 /\ ok' = TRUE
  /\ Says(<<Message>>)
  /\ UNCHANGED <<step, proc, launched, buffer, err, sender, cancelled, outcome, printed>>

CancelledBetween ==
  /\ pc = "check" /\ cancelled /\ pc' = "finish" /\ ok' = FALSE
  /\ UNCHANGED <<step, try, proc, launched, writer, sender, cancelled, outcome, printed>>

\* cmd.Start refuses a context that is done.
Start ==
  /\ pc = "announce" /\ Wrote /\ ~cancelled /\ pc' = "run"
  /\ proc' = "running" /\ launched' = launched + 1
  /\ phase' = [w \in Writers |-> IF w = Agent THEN "idle" ELSE "read"]
  /\ UNCHANGED <<step, try, ok, lines, buffer, err, sender, cancelled, outcome, printed>>

StartFails ==
  /\ pc = "announce" /\ Wrote /\ pc' = "flush" /\ ok' = FALSE
  /\ Says(IF Shared THEN <<Message>> ELSE <<>>)
  /\ UNCHANGED <<step, try, proc, launched, buffer, err, sender, cancelled, outcome,
                 printed>>

\* The process exits, or is killed at its deadline or because its context is done.
Exits(well) ==
  /\ pc = "run" /\ proc = "running" /\ proc' = "exited" /\ ok' = well
  /\ UNCHANGED <<pc, step, try, launched, writer, sender, cancelled, outcome, printed>>

\* cmd.Wait joins the copying goroutines.
Joined == pc = "run" /\ proc = "exited" /\ \A s \in Streams : phase[s] \in {"idle", "failed"}

\* What is left of the buffer, and the lines about a failure: a host's follow it,
\* and a container's, unless its context is done, are around it.
Epilogues(well, rest) ==
  CASE well              -> {rest}
    [] ~well /\ ~Shared  -> {Append(rest, Message)}
    [] ~well /\ Shared   -> {Append(rest, Message), <<Message>> \o Append(rest, Message)}

\* Mutant: an unterminated last line is not flushed.
Waited_NotFlushed ==
  /\ Joined /\ ~err /\ pc' = "flush" /\ proc' = "none" /\ UNCHANGED ok
  /\ \E ls \in Epilogues(ok, <<>>) : Says(ls)
  /\ UNCHANGED <<step, try, launched, buffer, err, sender, cancelled, outcome, printed>>

Waited ==
  /\ Joined /\ ~err /\ pc' = "flush" /\ proc' = "none" /\ UNCHANGED ok
  /\ \E ls \in Epilogues(ok, Lines(buffer)) : Says(ls)
  /\ UNCHANGED <<step, try, launched, buffer, err, sender, cancelled, outcome, printed>>

\* An error of the writer is an error of Wait, and of every write after it.
WaitFails ==
  /\ Joined /\ err /\ pc' = "finish" /\ proc' = "none" /\ ok' = FALSE
  /\ phase' = [w \in Writers |-> "idle"]
  /\ UNCHANGED <<step, try, launched, lines, buffer, err, sender, cancelled, outcome,
                 printed>>

\* A supervisor that does not confirm ends the deployment with nothing flushed, a
\* container that is not removed with the rest of its output and lines about it.
Unconfirmed ==
  /\ Joined /\ Fault /\ proc' = "none" /\ ok' = FALSE
  /\ IF Shared /\ ~err
       THEN /\ pc' = "unclean"
            /\ \E ls \in IF ok THEN {Append(Lines(buffer), Message)}
                        ELSE Epilogues(FALSE, Lines(buffer)) : Says(ls)
       ELSE pc' = "finish" /\ phase' = [w \in Writers |-> "idle"] /\ UNCHANGED lines
  /\ UNCHANGED <<step, try, launched, buffer, err, next, events, received, undelivered,
                 cancelled, outcome, printed>>

Flushed ==
  /\ pc \in {"flush", "unclean"} /\ Wrote /\ buffer' = <<>> /\ Writing(Agent, "idle", <<>>)
  /\ pc' = IF pc = "flush" THEN "verdict" ELSE "finish"
  /\ UNCHANGED <<step, try, ok, proc, launched, err, sender, cancelled, outcome, printed>>

\* retryError: an undelivered log is never retried.
WriteFailed ==
  /\ pc \in {"announce", "flush", "unclean", "retry"} /\ Failed /\ ok' = FALSE /\ pc' = "finish"
  /\ Writing(Agent, "idle", <<>>)
  /\ UNCHANGED <<step, try, proc, launched, buffer, err, sender, cancelled, outcome,
                 printed>>

\* Every step has a writer of its own, and all of them the one sender.
NextStep ==
  /\ pc = "verdict" /\ ok /\ step < MaxSteps
  /\ pc' = "check" /\ step' = step + 1 /\ try' = 0 /\ buffer' = <<>> /\ err' = FALSE
  /\ UNCHANGED <<ok, proc, launched, phase, lines, sender, cancelled, outcome, printed>>

\* The last step is done, the attempts are used up, or no retry can help: the
\* interpreter is missing, the server cancelled.
StepsEnd ==
  /\ pc = "verdict" /\ (~ok \/ step = MaxSteps) /\ pc' = "finish"
  /\ UNCHANGED <<step, try, ok, proc, launched, writer, sender, cancelled, outcome, printed>>

\* A lost heartbeat stops the attempts only when the next one is about to begin.
Retry ==
  /\ pc = "verdict" /\ ~ok /\ try < MaxAttempts
  /\ pc' = "retry" /\ Says(<<Message>>)
  /\ UNCHANGED <<step, try, ok, proc, launched, buffer, err, sender, cancelled, outcome,
                 printed>>

Retried ==
  /\ pc = "retry" /\ Wrote /\ pc' = "check" /\ Writing(Agent, "idle", <<>>)
  /\ UNCHANGED <<step, try, ok, proc, launched, buffer, err, sender, cancelled, outcome,
                 printed>>

\* executeClaim flushes what is left under its own context, not executionCtx.
FinalFlush ==
  /\ pc = "finish" /\ pc' = "end"
  /\ \/ /\ ~Refused(events) /\ received' = received \cup events /\ events' = {}
        /\ outcome' = IF ok THEN "succeeded" ELSE "failed"
        /\ UNCHANGED <<undelivered, faults>>
     \/ /\ events # {} /\ outcome' = "unflushed" /\ undelivered' = TRUE /\ UNCHANGED events
        /\ \/ Refused(events) /\ UNCHANGED <<received, faults>>
           \/ ~Refused(events) /\ Fault /\ received' \in {received, received \cup events}
  /\ UNCHANGED <<step, try, ok, proc, launched, writer, next, cancelled, printed>>

\* The heartbeat reports a cancellation, or is lost.
Cancel ==
  /\ ~cancelled /\ pc \notin {"finish", "end", "panicked"} /\ Fault /\ cancelled' = TRUE
  /\ UNCHANGED <<run, writer, next, events, received, undelivered, outcome, printed>>

\* The deployment is over, or the agent is gone; in no other state may it stop.
Over == pc \in {"end", "panicked"} /\ UNCHANGED vars

-----------------------------------------------------------------------------
Copies(s) ==
  \/ \E eol \in BOOLEAN : Read(s, eol)
  \/ Take(s) \/ Reset(s) \/ WriteRefused(s) \/ LineTooLong(s) \/ EndOfFile(s) \/ Panics(s)

Attempts ==
  \/ BeginAttempt \/ CancelledBetween \/ Start \/ StartFails
  \/ \E well \in BOOLEAN : Exits(well)
  \/ Waited \/ WaitFails \/ Unconfirmed \/ Flushed \/ WriteFailed
  \/ NextStep \/ StepsEnd \/ Retry \/ Retried \/ FinalFlush

Next ==
  \/ Attempts \/ Cancel \/ Over
  \/ pc # "panicked" /\ \E s \in Streams : Copies(s)
  \/ pc # "panicked" /\ \E w \in Writers : Deliver(w) \/ DeliverFails(w)

Spec == Init /\ [][Next]_vars

-----------------------------------------------------------------------------
(* The invariant that LogIsSequence, NothingAcceptedIsLost and             *)
(* NoRepeatAfterLogFailure rest on, and, from BatchInv on, what BatchFits, *)
(* LinesAreOrdered and OutputIsComplete need of one copying goroutine.     *)

Numbers(es) == {e.seq : e \in es}

\* Every number below next is on an event that is stored or waits, on one event
\* only, and what is stored begins at 1 and has no gap.
SenderInv ==
  /\ next \in Nat \ {0}
  /\ Numbers(received \cup events) = 1 .. next - 1
  /\ \A e, f \in received \cup events : e.seq = f.seq => e = f
  /\ \E k \in 0 .. next : Numbers(received) = 1 .. k

\* The copying goroutines are at work only while a process is waited for, and the
\* main one writes only elsewhere.
QuietInv ==
  /\ phase \in [Writers -> Phases]
  /\ pc \notin {"run", "panicked"} => \A s \in Streams : phase[s] = "idle"
  /\ pc \notin {"announce", "flush", "unclean", "retry"} => phase[Agent] = "idle"

\* An undelivered log has set the error of the step's writer, which no attempt
\* gets past; only the last flush has no writer.
ErrorInv ==
  /\ \A s \in Streams : phase[s] = "failed" => err
  /\ undelivered => err \/ pc = "end"
  /\ err => pc \notin {"check", "verdict"}
  /\ err /\ pc \in {"announce", "flush", "unclean", "retry"} => phase[Agent] = "failed"
  /\ pc = "end" /\ outcome # "unflushed" => events = {}

OutputInv == SenderInv /\ QuietInv /\ ErrorInv

\* With one copying goroutine nobody logs into a writer in error, and a batch is full
\* only after the upload that put the writer in error, or in the end.
BatchInv ==
  /\ \A w \in Writers : phase[w] = "log" => ~err
  /\ IsFiniteSet(events) /\ Cardinality(events) <= MaxEvents
  /\ Cardinality(events) = MaxEvents => err \/ pc \in {"finish", "end"}

\* The places of a stream's pieces in the log.
Pieces(es) ==
  UNION {{[seq |-> e.seq, at |-> i, piece |-> e.line[i]] : i \in DOMAIN e.line} : e \in es}
PiecesOf(s, es) == {p \in Pieces(es) : p.piece.from = s}
Before(p, q)    == p.seq < q.seq \/ (p.seq = q.seq /\ p.at < q.at)

\* The first m pieces of a stream are in the log, each in one place and in order.
LoggedUpTo(s, m) ==
  LET logged == PiecesOf(s, received \cup events) IN
  /\ \A n \in 1 .. m : \E p \in logged : p.piece = printed[s][n]
  /\ \A p \in logged : p.piece.n \in 1 .. m /\ p.piece = printed[s][p.piece.n]
  /\ \A p, q \in logged : Before(p, q) => p.piece.n < q.piece.n

\* All of these lines are the agent's own, but for one that is this text.
OwnLine(line)    == \A i \in DOMAIN line : line[i].from = Agent
HoldsText(ls, t) ==
  \/ t = <<>> /\ \A i \in DOMAIN ls : OwnLine(ls[i])
  \/ \E k \in DOMAIN ls : ls[k] = t /\ \A i \in DOMAIN ls \ {k} : OwnLine(ls[i])

\* This is the text of a stream that is still to be logged: the main goroutine has taken
\* it, or the copying one has, or nobody yet.
Awaits(s, t) ==
  IF pc \in {"flush", "unclean"} THEN HoldsText(lines[Agent], t)
  ELSE t = IF phase[s] = "log" /\ lines[s] = <<>> THEN <<>> ELSE buffer

\* With one copying goroutine, and until an error, every piece is logged, or awaits it
\* behind all that are.
TextInv ==
  \A s \in Streams :
    /\ \A n \in DOMAIN printed[s] : printed[s][n].from = s /\ printed[s][n].n = n
    /\ \E m \in 0 .. Len(printed[s]) :
         /\ LoggedUpTo(s, m)
         /\ ~err => Awaits(s, SubSeq(printed[s], m + 1, Len(printed[s])))

\* The buffer is one line, which is not finished until a goroutine takes it; nothing is
\* left in it between attempts.
BufferInv ==
  ~err =>
    /\ pc \in {"check", "announce", "verdict", "retry"} \/ (pc = "finish" /\ ok) => buffer = <<>>
    /\ \A s \in Streams :
         /\ \A i \in DOMAIN buffer :
              buffer[i].eol => phase[s] \in {"take", "log"} /\ i = Len(buffer)
         /\ phase[s] \in {"take", "log"} => buffer # <<>>
         /\ phase[s] = "log" => lines[s] \in {<<>>, <<buffer>>}

\* What a success has come to, and what the main goroutine is about to do.
SuccessInv ==
  /\ ok /\ pc = "finish" => ~err
  /\ outcome = "succeeded" => pc = "end" /\ ~err /\ events = {} /\ buffer = <<>>
  /\ pc \in {"announce", "retry"} => HoldsText(lines[Agent], <<>>)
  /\ pc \in {"check", "retry"} => try < MaxAttempts
  /\ phase[Agent] = "failed" => err

-----------------------------------------------------------------------------
(* Properties.                                                             *)

Chunk == [from : Writers, n : Nat, try : Nat, eol : BOOLEAN]
Line  == Seq(Chunk)

\* No more events wait for an upload than the server takes at a time, so that a
\* failed batch can still be sent (logSender.Write; docs/agent-protocol.md:190).  The
\* two goroutines of a host process break it: one waits for the sender's lock while
\* the upload of the other's full batch fails.
BatchFits == Cardinality(events) <= MaxEvents

\* Every variable has a value the code can give it, and a batch fits.
TypeOK ==
  /\ pc \in {"check", "announce", "run", "flush", "unclean", "verdict", "retry",
             "finish", "end", "panicked"}
  /\ step \in 1 .. MaxSteps /\ try \in 0 .. MaxAttempts /\ launched \in Nat
  /\ ok \in BOOLEAN /\ err \in BOOLEAN /\ cancelled \in BOOLEAN /\ undelivered \in BOOLEAN
  /\ proc \in {"none", "running", "exited"}
  /\ phase \in [Writers -> Phases]
  /\ lines \in [Writers -> Seq(Line)] /\ buffer \in Line
  /\ next \in Nat /\ events \subseteq [seq : Nat, line : Line]
  /\ received \subseteq [seq : Nat, line : Line] /\ BatchFits
  /\ outcome \in {"none", "succeeded", "failed", "unflushed"}
  /\ printed \in [Streams -> Line]

\* Whatever uploads fail, are stored without an answer or are repeated, the
\* server holds one line for each number from 1 up, without a gap
\* (logSender.Write and flushLocked).
LogIsSequence ==
  /\ \A e, f \in received : e.seq = f.seq => e = f
  /\ Numbers(received) = 1 .. Cardinality(received)

\* A deployment whose last flush went well has stored every line that was given
\* a number, those of batches that had failed before included.
NothingAcceptedIsLost ==
  pc = "end" /\ outcome # "unflushed" => Numbers(received) = 1 .. next - 1

\* After an upload has failed no process is started, by no attempt and no step: a
\* script whose output could not be delivered is not run again (retryError).
NoRepeatAfterLogFailure == [][launched' # launched => ~undelivered]_vars

\* What the server holds of a stream is in the order in which it was printed
\* (redactingWriter.Write).
LinesAreOrdered ==
  \A s \in Streams : \A p, q \in PiecesOf(s, received) :
    Before(p, q) => p.piece.n <= q.piece.n

\* A deployment whose execution ends without an error has stored of every stream what
\* was read from it, that of failed attempts and of an unterminated last line included,
\* all of it once and nothing else (finishAttemptLogs, logSender.Flush).
OutputIsComplete ==
  outcome = "succeeded" =>
    \A s \in Streams :
      /\ {p.piece : p \in PiecesOf(s, received)} = {printed[s][n] : n \in DOMAIN printed[s]}
      /\ \A p, q \in PiecesOf(s, received) : p.piece = q.piece => p = q
=============================================================================
