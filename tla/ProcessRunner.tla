--------------------------- MODULE ProcessRunner ---------------------------
(***************************************************************************)
(* ProcessRunner.run (execution/process.py): one controlled command, its   *)
(* deadline, two reader threads that drain its pipes into one shared       *)
(* OutputBudget (execution/output.py), a writer thread that feeds it its   *)
(* input, and the shutdown of all of them.                                 *)
(*                                                                         *)
(* Time is abstract: whenever the runner looks, the deadline may have      *)
(* passed, and a wait or a join with a limit may end at its limit.  Not    *)
(* modelled: redaction, Windows, and descendants that leave the process    *)
(* group.                                                                  *)
(***************************************************************************)
EXTENDS ChildPipes, FiniteSetsExt

CONSTANTS
  ReadSize,    \* READ_SIZE: what one read asks for
  MaxOutput,   \* maximum_output_bytes, the budget of both streams together
  InputSize    \* the length of stdin_text, if there is one

ASSUME RunnerAssumption ==
  /\ ReadSize \in Nat \ {0}
  /\ MaxOutput \in Nat \ {0}
  /\ InputSize \in Nat

VARIABLES
  at,         \* where the calling thread is
  cause,      \* why the runner ends the command, if it does
  reader,     \* where each reader thread is
  held,       \* what each reader's current read has got so far
  writer,     \* where the writer thread is, if there is one
  unsent,     \* what of the input it has not written
  kept,       \* what was retained of each stream
  remaining,  \* what is left of the budget
  truncated,  \* something was not retained
  closed,     \* the streams the runner has closed
  outcome     \* what run returned

feeding == <<writer, unsent>>
threads == <<reader, held, feeding>>
budget == <<kept, remaining, truncated>>
vars == <<children, at, cause, threads, budget, closed, outcome>>

NoOutcome == [kind |-> "none", truncated |-> FALSE]

\* The command and the threads of its pipes have been started.
Started(place) ==
  /\ ChildrenInit
  /\ at = place
  /\ cause = "none"
  /\ reader = [s \in Stream |-> "reading"]
  /\ held = [s \in Stream |-> 0]
  /\ writer = IF fed THEN "writing" ELSE "none"
  /\ unsent = IF fed THEN InputSize ELSE 0
  /\ kept = [s \in Stream |-> 0]
  /\ remaining = MaxOutput
  /\ truncated = FALSE
  /\ closed = {}
  /\ outcome = NoOutcome

Init == Started("loop")

Step(here, next) == at = here /\ at' = next
-----------------------------------------------------------------------------
\* A KeyboardInterrupt in the calling thread goes to the finally clause.
Interrupt ==
  /\ at \in {"loop", "grace", "killed"}
  /\ cause # "interrupt"
  /\ at' = "finally"
  /\ cause' = "interrupt"
  /\ UNCHANGED <<children, threads, budget, closed, outcome>>
-----------------------------------------------------------------------------
(* The calling thread: the loop, the grace period and the finally clause.  *)

\* process.poll() is not None: the loop ends.
Poll ==
  /\ Step("loop", "finally")
  /\ ~Running(Leader)
  /\ UNCHANGED <<children, cause, threads, budget, closed, outcome>>

\* It was None when the runner looked: another thread has cancelled the call, or the
\* deadline has passed.  The group is asked to terminate.  If neither, the runner waits
\* for a moment and looks again.
Terminate(reason) ==
  /\ Step("loop", "grace")
  /\ cause' = reason
  /\ AskGroup
  /\ UNCHANGED <<threads, budget, closed, outcome>>

\* The command ended within the grace period.
Obeyed ==
  /\ Step("grace", "finally")
  /\ ~Running(Leader)
  /\ UNCHANGED <<children, cause, threads, budget, closed, outcome>>

\* Mutant: after the grace period the group is asked once more, not killed.
AskAgain ==
  /\ Step("grace", "killed")
  /\ Running(Leader)
  /\ AskGroup
  /\ UNCHANGED <<cause, threads, budget, closed, outcome>>

\* It did not: the group is killed.
ForceKill ==
  /\ Step("grace", "killed")
  /\ Running(Leader)
  /\ KillGroup
  /\ UNCHANGED <<cause, threads, budget, closed, outcome>>

\* process.wait() without a limit.
Reaped ==
  /\ Step("killed", "finally")
  /\ ~Running(Leader)
  /\ UNCHANGED <<children, cause, threads, budget, closed, outcome>>

\* The finally clause kills whatever command still runs.  It joins the writer and each
\* reader, but only up to a limit.
Finally ==
  /\ Step("finally", "close")
  /\ IF Running(Leader) THEN KillGroup ELSE UNCHANGED children
  /\ UNCHANGED <<cause, threads, budget, closed, outcome>>

\* A pipe that a thread is reading from is locked: close waits for that read, and
\* stderr waits for stdout.
Close(s) ==
  /\ at = "close"
  /\ s \notin closed
  /\ s = "stderr" => "stdout" \in closed
  /\ reader[s] # "reading"
  /\ closed' = closed \union {s}
  /\ UNCHANGED <<children, at, cause, threads, budget, outcome>>

\* Mutant: the readers are not looked at.
ReportPartial ==
  /\ Step("close", "done")
  /\ closed = Stream
  /\ writer # "writing"
  /\ outcome' =
       IF cause = "interrupt"
       THEN [kind |-> "raised", truncated |-> FALSE]
       ELSE [kind |-> IF cause \in {"timeout", "cancelled"} THEN cause
                      ELSE IF code = "signal" THEN "signal" ELSE "exited",
             truncated |-> truncated]
  /\ UNCHANGED <<children, cause, threads, budget, closed>>

\* Last, the input is closed, which waits for the writer as Close does for a reader.
\* A thread that is alive or failed is an error; otherwise the runner's own reason for
\* ending the command comes before its exit code.
Report ==
  /\ Step("close", "done")
  /\ closed = Stream
  /\ writer # "writing"
  /\ outcome' =
       IF \/ cause = "interrupt"
          \/ \E s \in Stream : reader[s] # "done"
          \/ writer = "ending"
       THEN [kind |-> "raised", truncated |-> FALSE]
       ELSE [kind |-> IF cause \in {"timeout", "cancelled"} THEN cause
                      ELSE IF code = "signal" THEN "signal" ELSE "exited",
             truncated |-> truncated]
  /\ UNCHANGED <<children, cause, threads, budget, closed>>
-----------------------------------------------------------------------------
(* A reader thread: _drain_pipe and OutputBudget.retain.                   *)

Go(s, place) == reader' = [reader EXCEPT ![s] = place]

\* Mutant: the readers wait until the input is written.
FillAfterInput(s) ==
  /\ reader[s] = "reading"
  /\ held[s] < ReadSize
  /\ writer # "writing"
  /\ Take(s)
  /\ held' = [held EXCEPT ![s] = @ + 1]
  /\ UNCHANGED <<at, cause, reader, feeding, budget, closed, outcome>>

\* A buffered read collects READ_SIZE bytes, or what there is before the end.
Fill(s) ==
  /\ reader[s] = "reading"
  /\ held[s] < ReadSize
  /\ Take(s)
  /\ held' = [held EXCEPT ![s] = @ + 1]
  /\ UNCHANGED <<at, cause, reader, feeding, budget, closed, outcome>>

ReadReturns(s) ==
  /\ reader[s] = "reading"
  /\ held[s] = ReadSize \/ (held[s] > 0 /\ pipe[s] = 0 /\ Ended(s))
  /\ Go(s, "retain")
  /\ UNCHANGED <<children, at, cause, held, feeding, budget, closed, outcome>>

\* Mutant: a reader stops when the budget is used up.
StopAtBudget(s) ==
  /\ reader[s] = "retain"
  /\ LET length == Min({held[s], remaining}) IN
       /\ kept' = [kept EXCEPT ![s] = @ + length]
       /\ remaining' = remaining - length
       /\ truncated' = (truncated \/ length # held[s])
       /\ Go(s, IF length # held[s] THEN "ending"
                ELSE IF s \in closed THEN "failed" ELSE "reading")
  /\ held' = [held EXCEPT ![s] = 0]
  /\ UNCHANGED <<children, at, cause, feeding, closed, outcome>>

\* What is left of the budget is retained, under its lock, and the next read
\* begins; it fails on a stream that the runner has closed.
Retain(s) ==
  /\ reader[s] = "retain"
  /\ LET length == Min({held[s], remaining}) IN
       /\ kept' = [kept EXCEPT ![s] = @ + length]
       /\ remaining' = remaining - length
       /\ truncated' = (truncated \/ length # held[s])
  /\ held' = [held EXCEPT ![s] = 0]
  /\ Go(s, IF s \in closed THEN "failed" ELSE "reading")
  /\ UNCHANGED <<children, at, cause, feeding, closed, outcome>>

\* An empty read: the loop ends, and soon after it the thread.
EndOfStream(s) ==
  /\ reader[s] = "reading"
  /\ held[s] = 0
  /\ pipe[s] = 0
  /\ Ended(s)
  /\ Go(s, "ending")
  /\ UNCHANGED <<children, at, cause, held, feeding, budget, closed, outcome>>

ReaderEnds(s) ==
  /\ reader[s] = "ending"
  /\ Go(s, "done")
  /\ UNCHANGED <<children, at, cause, held, feeding, budget, closed, outcome>>
-----------------------------------------------------------------------------
(* The writer thread: _start_stdin_writer.  It holds the lock of its pipe  *)
(* until all is written and flushed.                                       *)

\* Mutant: what one write accepts is taken for all of it.
FeedShort ==
  /\ writer = "writing"
  /\ unsent > 0
  /\ Put
  /\ unsent' = unsent - 1
  /\ writer' = "ending"
  /\ UNCHANGED <<at, cause, reader, held, budget, closed, outcome>>

Feed ==
  /\ writer = "writing"
  /\ unsent > 0
  /\ Put
  /\ unsent' = unsent - 1
  /\ UNCHANGED <<at, cause, reader, held, writer, budget, closed, outcome>>

\* All is written, or BrokenPipeError: nobody can read the rest.
Fed ==
  /\ writer = "writing"
  /\ unsent = 0 \/ listening = {}
  /\ writer' = "ending"
  /\ UNCHANGED <<children, at, cause, reader, held, unsent, budget, closed, outcome>>

\* It closes the pipe, if the runner has not, and ends.
WriterEnds ==
  /\ writer = "ending"
  /\ writer' = "done"
  /\ UNCHANGED <<children, at, cause, reader, held, unsent, budget, closed, outcome>>
-----------------------------------------------------------------------------
RunnerStep ==
  \/ Poll \/ Terminate("timeout") \/ Terminate("cancelled")
  \/ Obeyed \/ ForceKill \/ Reaped \/ Finally
  \/ \E s \in Stream : Close(s)
  \/ Report

ReaderStep(s) == Fill(s) \/ ReadReturns(s) \/ Retain(s) \/ EndOfStream(s) \/ ReaderEnds(s)

WriterStep == Feed \/ Fed \/ WriterEnds

CommandStep(p) == ProcessStep(p) /\ UNCHANGED <<at, cause, threads, budget, closed, outcome>>

Next ==
  \/ RunnerStep
  \/ \E s \in Stream : ReaderStep(s)
  \/ WriterStep
  \/ \E p \in Process : CommandStep(p)
  \/ Interrupt

\* The deadline passes, and the threads of the controller are scheduled.  The command
\* owes the controller nothing, not even to die of SIGTERM.
Fairness ==
  /\ WF_vars(Terminate("timeout"))
  /\ WF_vars(RunnerStep)
  /\ \A s \in Stream : WF_vars(ReaderStep(s))
  /\ WF_vars(WriterStep)

Spec == Init /\ [][Next]_vars /\ Fairness
-----------------------------------------------------------------------------
(* Properties.                                                             *)

TypeOK ==
  /\ ChildrenTypeOK
  /\ at \in {"loop", "grace", "killed", "finally", "close", "done"}
  /\ cause \in {"none", "timeout", "cancelled", "interrupt"}
  /\ reader \in [Stream -> {"reading", "retain", "ending", "done", "failed"}]
  /\ held \in [Stream -> 0 .. ReadSize]
  /\ writer \in {"none", "writing", "ending", "done"}
  /\ unsent \in 0 .. InputSize
  /\ kept \in [Stream -> 0 .. MaxOutput]
  /\ remaining \in 0 .. MaxOutput
  /\ truncated \in BOOLEAN
  /\ closed \subseteq Stream
  /\ outcome \in [kind : {"none", "exited", "signal", "timeout", "cancelled", "raised"},
                  truncated : BOOLEAN]

Total(f) == f["stdout"] + f["stderr"]

\* The outcomes that run returns to its caller.
Returned == at = "done" /\ outcome.kind \in {"exited", "signal", "timeout", "cancelled"}

\* An outcome that is returned is whole: whoever wrote how much to which pipe and
\* when it was ended, all of it was read, the budget was kept, the outcome is marked
\* as truncated exactly if something is missing, and no thread is left behind.  The
\* command got all of its input, unless nobody was left to read it.  One that the
\* runner ended, or tried to end, is not reported as one that exited, even if it
\* exits at that very moment.
OutcomeIsWhole ==
  Returned =>
    /\ Total(kept) = Min({Total(written), MaxOutput})
    /\ outcome.truncated <=> Total(written) > MaxOutput
    /\ unsent = 0 \/ listening = {}
    /\ outcome.kind \in {"exited", "signal"} => asked = {} /\ code # "none"

\* Whatever the command does first, to read its input or to write its output, it
\* does not wait for the runner: until the runner closes the pipes, there is a thread
\* that empties a full pipe, also when the budget is used up, and one that fills an
\* empty input, whatever another pipe is blocked by.
CommandNeverWaits ==
  at # "close" /\ at # "done" =>
    /\ \A s \in Stream : pipe[s] > 0 /\ reader[s] # "failed" => ENABLED ReaderStep(s)
    /\ listening # {} /\ unsent > 0 /\ input < Capacity => ENABLED WriterStep

-----------------------------------------------------------------------------
(* What the documents say and the code does not keep.                      *)

\* docs/security.md: the runner "enforces monotonic timeouts".
TimeoutIsEnforced == <>(at = "done")
=============================================================================
