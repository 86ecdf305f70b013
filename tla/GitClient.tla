------------------------------ MODULE GitClient ------------------------------
(***************************************************************************)
(* GitClient._execute_bounded (git/client.py), which runs every git        *)
(* command of the controller.  It has readers and closes its pipes as      *)
(* ProcessRunner does; but each stream has a limit of its own, stdout may  *)
(* go to a file, git is killed at its deadline without being asked, and an *)
(* interruption does not end it.                                           *)
(*                                                                         *)
(* A behaviour is one call, of the runner or of the git client.  Git keeps *)
(* its output open until it ends; its descendants may do as they like.     *)
(* Input is a file here, of which the client knows nothing.                *)
(***************************************************************************)
EXTENDS CommandOracle

CONSTANT GitLimit   \* maximum_output_bytes, for each stream

ASSUME GitAssumption == GitLimit \in Nat \ {0}

VARIABLE client     \* whose call it is

clientVars == <<vars, client>>

GitInit == Started("waiting") /\ ~ fed
-----------------------------------------------------------------------------
GitExits ==
  /\ Step("waiting", "close")
  /\ ~ Running(Leader)
  /\ UNCHANGED <<children, cause, threads, budget, closed, outcome>>

GitTimesOut ==
  /\ Step("waiting", "reaping")
  /\ cause' = "timeout"
  /\ KillGroup
  /\ UNCHANGED <<threads, budget, closed, outcome>>

GitReaped ==
  /\ Step("reaping", "close")
  /\ ~ Running(Leader)
  /\ UNCHANGED <<children, cause, threads, budget, closed, outcome>>

\* The finally clause of the client kills nothing.
GitInterrupted ==
  /\ at \in {"waiting", "reaping"}
  /\ at' = "close"
  /\ cause' = "interrupt"
  /\ UNCHANGED <<children, threads, budget, closed, outcome>>

\* Mutant: the errors of the readers are not looked at.
GitReportUnchecked ==
  /\ Step("close", "done")
  /\ closed = Stream
  /\ outcome' = [kind |-> IF cause # "none" \/ truncated THEN "raised" ELSE "result",
                 truncated |-> FALSE]
  /\ UNCHANGED <<children, cause, threads, budget, closed>>

\* An error that is under way goes on after the finally clause.  Otherwise what is left
\* is killed if a reader is still alive, and the errors of readers and what they had to
\* cut off are errors of the call.
GitReport ==
  /\ Step("close", "done")
  /\ closed = Stream
  /\ LET error == \/ cause # "none"
                  \/ \E s \in Stream : reader[s] # "done"
                  \/ truncated
     IN  outcome' = [kind |-> IF error THEN "raised" ELSE "result", truncated |-> FALSE]
  /\ IF cause = "none" /\ \E s \in Stream : reader[s] \notin {"done", "failed"}
     THEN KillGroup
     ELSE UNCHANGED children
  /\ UNCHANGED <<cause, threads, budget, closed>>
-----------------------------------------------------------------------------
(* _drain_git_pipe.                                                        *)

GitRetain(s) ==
  /\ reader[s] = "retain"
  /\ LET length == Min({held[s], GitLimit - kept[s]}) IN
       /\ kept' = [kept EXCEPT ![s] = @ + length]
       /\ truncated' = (truncated \/ length # held[s])
  /\ held' = [held EXCEPT ![s] = 0]
  /\ Go(s, IF s \in closed THEN "failed" ELSE "reading")
  /\ UNCHANGED <<children, at, cause, feeding, remaining, closed, outcome>>

\* The file that takes stdout accepts no more: the thread ends.
TargetFails ==
  /\ reader["stdout"] = "retain"
  /\ Go("stdout", "failed")
  /\ held' = [held EXCEPT !["stdout"] = 0]
  /\ UNCHANGED <<children, at, cause, feeding, budget, closed, outcome>>

GitReaderStep(s) ==
  \/ Fill(s) \/ ReadReturns(s) \/ GitRetain(s) \/ EndOfStream(s) \/ ReaderEnds(s)
  \/ s = "stdout" /\ TargetFails

GitStep ==
  \/ GitExits \/ GitTimesOut \/ GitReaped
  \/ \E s \in Stream : Close(s)
  \/ GitReport

GitProcessStep(p) ==
  /\ \/ \E s \in Stream : Write(p, s) \/ (p # Leader /\ CloseEnd(p, s))
     \/ \E c \in Descendant : Fork(p, c)
     \/ Exit(p)
  /\ UNCHANGED <<at, cause, threads, budget, closed, outcome>>

GitNext ==
  \/ GitStep
  \/ \E s \in Stream : GitReaderStep(s)
  \/ \E p \in Process : GitProcessStep(p)
  \/ GitInterrupted
-----------------------------------------------------------------------------
(* The calls of both.                                                      *)

ClientInit ==
  /\ client \in {"runner", "git"}
  /\ IF client = "git" THEN GitInit ELSE Init

Of(who, Action) == client = who /\ Action /\ UNCHANGED client

ClientNext == Of("runner", Next) \/ Of("git", GitNext)

\* As in ProcessRunner: deadlines pass and threads are scheduled, commands owe nothing.
ClientFairness ==
  /\ WF_clientVars(Of("runner", Terminate("timeout")))
  /\ WF_clientVars(Of("runner", RunnerStep))
  /\ \A s \in Stream : WF_clientVars(Of("runner", ReaderStep(s)))
  /\ WF_clientVars(Of("runner", WriterStep))
  /\ WF_clientVars(Of("git", GitStep))
  /\ \A s \in Stream : WF_clientVars(Of("git", GitReaderStep(s)))

ClientSpec == ClientInit /\ [][ClientNext]_clientVars /\ ClientFairness
-----------------------------------------------------------------------------
(* Properties.                                                             *)

GitTypeOK ==
  /\ ChildrenTypeOK
  /\ at \in {"waiting", "reaping", "close", "done"}
  /\ cause \in {"none", "timeout", "interrupt"}
  /\ reader \in [Stream -> {"reading", "retain", "ending", "done", "failed"}]
  /\ held \in [Stream -> 0 .. ReadSize]
  /\ writer = "none" /\ unsent = 0
  /\ kept \in [Stream -> 0 .. GitLimit]
  /\ remaining = MaxOutput
  /\ truncated \in BOOLEAN
  /\ closed \subseteq Stream
  /\ outcome \in [kind : {"none", "result", "raised"}, truncated : {FALSE}]

ClientTypeOK ==
  \/ client = "runner" /\ TypeOK
  \/ client = "git" /\ GitTypeOK

\* When a git command is over for its caller, it is over: git has exited or was killed
\* at its deadline.  An interruption does not stop git; but closing a pipe waits for
\* the thread that waits for git, so that even then only one that has written to both
\* streams can go on, and none that works in silence, as those that change the user's
\* repository do.  A result holds all that git wrote to either stream.
GitIsOver ==
  client = "git" /\ at = "done" =>
    /\ Running(Leader) => cause = "interrupt" /\ \A s \in Stream : written[s] > 0
    /\ outcome.kind = "result" =>
         \A s \in Stream : kept[s] = written[s] /\ written[s] <= GitLimit

\* If the descendants let go of the pipes in the end, the call ends: a command that
\* ignores SIGTERM, or fills a pipe, or does not read its input, or is cancelled does
\* not hold it up.  Only a git command whose controller was interrupted does, since
\* that does not end it.
CallsReturn ==
  (<>[]\A p \in Process :
        Running(p) /\ (p = Leader => client = "git" /\ cause = "interrupt")
          => ends[p] = {} /\ p \notin listening)
    => <>(at = "done")
=============================================================================
