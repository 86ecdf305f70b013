--------------------------- MODULE Investigation ---------------------------
(***************************************************************************)
(* The first half of WorkflowService.run: InvestigationService.investigate *)
(* (services/investigation.py) from the created run to its reproduced      *)
(* baseline, against the abort and clean commands of another process.      *)
(* Workflow takes over where it ends.                                      *)
(*                                                                         *)
(* The investigator's container writes a contract, an admission of failure *)
(* and reproduction assets in any order until it exits.  Evidence events   *)
(* and the changes of state next to them are one step, and so are the      *)
(* files written next to each other; each may fail as a whole, for any     *)
(* reason, a busy operation lock among them.  A contract also stands for   *)
(* the assets that match its hashes.  Once, something outside ProofPatch   *)
(* may change the stored contract, its assets or both.                     *)
(***************************************************************************)
EXTENDS RunStates

CONSTANTS
  Contract,     \* the failure contracts the investigator may write
  NoContract    \* a file or directory that does not exist

ASSUME InvestigationAssumption == NoContract \notin Contract

File == {"repository", "plan", "identity", "protection", "result"}
Event == {"configuration.resolved", "investigation.started", "environment.prepared"}

VARIABLES
  \* What the evidence says.
  state,      \* the state of the run
  events,     \* the events that later checks look for
  bound,      \* the contract that contract_submitted names
  \* What the directories of the run hold.
  files,      \* the artifacts that resume needs, besides the contract
  submitted,  \* submitted_contract
  assets,     \* reproduction_assets: the contract they match
  trees,      \* the workspaces
  altered,    \* something outside ProofPatch has changed a file
  \* The investigator's output and scratch directories.
  claim,      \* failure-contract.json
  denial,     \* not-reproduced.json exists
  scratch,    \* the reproduction assets: the contract they match
  \* The worker, its containers, and the process that gives other commands.
  at,         \* where run is
  error,      \* the kind of the exception in flight
  held,       \* the contract that was validated
  mounted,    \* the baseline-reproduction directory: the contract it matches
  container,  \* the container of the worker, if one runs
  judged,     \* history: the contract, the assets and the result of the oracle
  command,    \* where the other process is
  read        \* the state of the run that it has read

evidence == <<state, events, bound>>
disk == <<files, submitted, assets, trees, altered>>
output == <<claim, denial, scratch>>
work == <<error, held, mounted, judged>>
other == <<command, read>>
vars == <<evidence, disk, output, at, work, container, other>>

NoJudgment == [contract |-> NoContract, assets |-> NoContract, result |-> "none"]

Init ==
  /\ state = "CREATED"
  /\ events = {}
  /\ bound = NoContract
  /\ files = {}
  /\ submitted = NoContract
  /\ assets = NoContract
  /\ trees = {}
  /\ altered = FALSE
  /\ claim = NoContract
  /\ denial = FALSE
  /\ scratch = NoContract
  /\ at = "prepare"
  /\ error = "none"
  /\ held = NoContract
  /\ mounted = NoContract
  /\ container = "none"
  /\ judged = NoJudgment
  /\ command = "idle"
  /\ read = NoState

\* The worker is at a place of its call and goes on to the next.
Step(here, next) == at = here /\ at' = next

MoveTo(target) == CanTransition(state, target) /\ state' = target

\* clean holds the operation lock; every change of the evidence needs it.
Free == command # "cleaning"

\* transition: validated under the operation lock.
Transition(target) == Free /\ MoveTo(target) /\ UNCHANGED <<events, bound>>

AppendEvent(event) == Free /\ events' = events \union {event} /\ UNCHANGED <<state, bound>>
-----------------------------------------------------------------------------
(* investigate: the run and its investigator.                              *)

PrepareRun ==
  /\ Step("prepare", "plan")
  /\ Transition("PREFLIGHT")
  /\ files' = files \union {"repository"}
  /\ UNCHANGED <<submitted, assets, trees, altered, output, work, container, other>>

RecordPlan ==
  /\ Step("plan", "preparing")
  /\ AppendEvent("configuration.resolved")
  /\ files' = files \union {"plan"}
  /\ UNCHANGED <<submitted, assets, trees, altered, output, work, container, other>>

PrepareBaseline ==
  /\ Step("preparing", "clone")
  /\ Transition("BASELINE_PREPARING")
  /\ UNCHANGED <<disk, output, work, container, other>>

\* create_clone reads the state before it takes the operation lock ...
CheckClone(here, next, allowed) ==
  /\ Step(here, next)
  /\ state \in allowed
  /\ UNCHANGED <<evidence, disk, output, work, container, other>>

\* ... and the directory of workspaces is made if it is not there.
MakeClone(here, next, kind) ==
  /\ Step(here, next)
  /\ Free
  /\ trees' = trees \union {kind}
  /\ UNCHANGED <<evidence, files, submitted, assets, altered, output, work, container, other>>

Investigate ==
  /\ Step("investigate", "start")
  /\ Transition("INVESTIGATING")
  /\ UNCHANGED <<disk, output, work, container, other>>

RecordStart ==
  /\ Step("start", "probe")
  /\ AppendEvent("investigation.started")
  /\ UNCHANGED <<disk, output, work, container, other>>

\* The version of the agent's command line is probed in a container of its own.
ProbeVersion ==
  /\ Step("probe", "agent") \/ Step("probe", "reject")
  /\ UNCHANGED <<evidence, disk, output, work, container, other>>

StartAgent ==
  /\ Step("agent", "investigating")
  /\ container' = "agent"
  /\ UNCHANGED <<evidence, disk, output, work, other>>

\* The investigator does what it likes with the two directories it can write.
AgentWrites ==
  /\ container = "agent"
  /\ \/ \E c \in Contract : claim' = c /\ UNCHANGED <<denial, scratch>>
     \/ \E c \in Contract : scratch' = c /\ UNCHANGED <<claim, denial>>
     \/ denial' = TRUE /\ UNCHANGED <<claim, scratch>>
  /\ UNCHANGED <<evidence, disk, at, work, container, other>>

\* It exits normally, also when an abort asks it to stop, with its source unchanged and
\* the repository as it was.
AgentExits ==
  /\ Step("investigating", "outcome")
  /\ Free
  /\ container' = "none"
  /\ UNCHANGED <<evidence, disk, output, work, other>>

\* The backend fails, or the container was stopped, timed out or exited with an error.
AgentFails ==
  /\ Step("investigating", "reject")
  /\ container' = "none"
  /\ UNCHANGED <<evidence, disk, output, work, other>>
-----------------------------------------------------------------------------
(* _consume_outcome: the files decide, and both of them are ambiguous.     *)

NotReproduced ==
  /\ Step("outcome", "confirm")
  /\ claim = NoContract
  /\ denial
  /\ Transition("ERROR")
  /\ UNCHANGED <<disk, output, work, container, other>>

\* validate_and_capture: contract and assets are copied into controller-owned evidence.
Capture ==
  /\ Step("outcome", "submit")
  /\ claim # NoContract
  /\ ~denial
  /\ scratch = claim
  /\ submitted = NoContract
  /\ assets = NoContract
  /\ submitted' = claim
  /\ assets' = claim
  /\ held' = claim
  /\ UNCHANGED <<evidence, files, trees, altered, output, error, mounted, judged,
                 container, other>>

RecordContract ==
  /\ Step("submit", "environment")
  /\ Free
  /\ MoveTo("CONTRACT_SUBMITTED")
  /\ bound' = held
  /\ UNCHANGED <<events, disk, output, work, container, other>>

RecordEnvironment ==
  /\ Step("environment", "recheck")
  /\ AppendEvent("environment.prepared")
  /\ files' = files \union {"identity"}
  /\ UNCHANGED <<submitted, assets, trees, altered, output, work, container, other>>
-----------------------------------------------------------------------------
(* _verify_baseline: the contract is judged in a fresh clone.              *)

\* Mutant: the stored contract is read again but not compared.
RecheckNothing ==
  /\ Step("recheck", "verify")
  /\ submitted # NoContract
  /\ assets = submitted
  /\ held' = submitted
  /\ UNCHANGED <<evidence, disk, output, error, mounted, judged, container, other>>

\* The stored contract is the one that was validated, and its assets match.
Recheck ==
  /\ Step("recheck", "verify")
  /\ submitted = held
  /\ assets = held
  /\ UNCHANGED <<evidence, disk, output, work, container, other>>

VerifyBaseline ==
  /\ Step("verify", "verifying")
  /\ Transition("BASELINE_VERIFYING")
  /\ UNCHANGED <<disk, output, work, container, other>>

\* copy_approved_assets checks the stored assets once more.
CopyAssets ==
  /\ Step("copy", "oracle")
  /\ assets = held
  /\ mounted' = held
  /\ UNCHANGED <<evidence, disk, output, error, held, judged, container, other>>

StartOracle ==
  /\ Step("oracle", "judging")
  /\ Free
  /\ container' = "oracle"
  /\ UNCHANGED <<evidence, disk, output, work, other>>

\* The oracle leaves its source unchanged and meets the failure expectation or not;
\* so does a container that was stopped, if any exit code but 0 is expected.
EndOracle ==
  /\ Step("judging", "persist")
  /\ \E result \in {"passed", "failed"} :
       judged' = [contract |-> held, assets |-> mounted, result |-> result]
  /\ container' = "none"
  /\ UNCHANGED <<evidence, disk, output, error, held, mounted, other>>

\* Mutant: the assessment of the protection is not persisted.
PersistResult ==
  /\ Step("persist", "decide")
  /\ Free
  /\ files' = files \union {"result"}
  /\ UNCHANGED <<evidence, submitted, assets, trees, altered, output, work, container, other>>

Persist ==
  /\ Step("persist", "decide")
  /\ Free
  /\ files' = files \union {"protection", "result"}
  /\ UNCHANGED <<evidence, submitted, assets, trees, altered, output, work, container, other>>

Reproduced ==
  /\ Step("decide", "confirm")
  /\ judged.result = "passed"
  /\ Transition("BASELINE_REPRODUCED")
  /\ UNCHANGED <<disk, output, work, container, other>>

BaselineNotReproduced ==
  /\ Step("decide", "close")
  /\ judged.result = "failed"
  /\ Transition("BASELINE_NOT_REPRODUCED")
  /\ UNCHANGED <<disk, output, work, container, other>>

CloseBaseline ==
  /\ Step("close", "confirm")
  /\ Transition("REJECTED")
  /\ UNCHANGED <<disk, output, work, container, other>>

\* Back in WorkflowService.run, which goes on only with a reproduced baseline.
ConfirmLock ==
  /\ Step("confirm", IF judged.result = "passed" THEN "patch" ELSE "returned")
  /\ Free
  /\ UNCHANGED <<evidence, disk, output, work, container, other>>
-----------------------------------------------------------------------------
(* Failures.                                                               *)

\* The places inside the clauses that catch a failed backend, a refused contract,
\* damaged evidence or a changed repository.
Guarded ==
  {"outcome", "submit", "environment", "recheck", "verify", "verifying", "cloning",
   "copy", "oracle", "judging", "persist", "decide", "close"}

Working ==
  Guarded \union
    {"prepare", "plan", "preparing", "clone", "making", "investigate", "start", "probe", "agent",
     "investigating", "refused", "reject", "confirm"}

Place == Working \union {"failing", "erring", "sweep", "returned", "patch", "killed"}

\* A step of the guarded part raises one of those errors; damaged evidence is a hard
\* error later.
Refuse ==
  /\ at \in Guarded
  /\ at' = "refused"
  /\ error' \in {"refused", "hard"}
  /\ container' = "none"
  /\ UNCHANGED <<evidence, disk, output, held, mounted, judged, other>>

\* The state is read: before the decision the run is rejected, and the error raised again.
Catch ==
  /\ Step("refused",
          IF state \in {"INVESTIGATING", "CONTRACT_SUBMITTED", "BASELINE_VERIFYING"}
          THEN "reject" ELSE "failing")
  /\ UNCHANGED <<evidence, disk, output, work, container, other>>

\* _reject: contract.rejected and ERROR.
Reject ==
  /\ Step("reject", "failing")
  /\ Transition("ERROR")
  /\ error' = IF error = "none" THEN "refused" ELSE error
  /\ UNCHANGED <<disk, output, held, mounted, judged, container, other>>

\* Anything else, anywhere: an error the controller expects, one it does not, or an
\* interruption.  The last two can leave the container to the handler.
Raise ==
  /\ at \in Working
  /\ at' = "failing"
  /\ \/ error' \in {"refused", "hard"} /\ container' = "none"
     \/ error' \in {"hard", "interrupt"} /\ UNCHANGED container
  /\ UNCHANGED <<evidence, disk, output, held, mounted, judged, other>>

\* Docker has been asked to stop the container: it has, or it would not.
Asked == IF container = "none" THEN {"none"} ELSE {"none", "lost"}

\* Mutant: the containers are not stopped.
HandleLeaving ==
  /\ Step("failing",
          IF error = "hard" /\ CanTransition(state, "ERROR") THEN "erring" ELSE "sweep")
  /\ UNCHANGED <<evidence, disk, output, work, container, other>>

\* Mutant: an error that nobody expected moves the run nowhere.
HandleExpected ==
  /\ Step("failing", "sweep")
  /\ container' \in Asked
  /\ UNCHANGED <<evidence, disk, output, work, other>>

\* _handle_failure: the containers are stopped, a BackendError ignored, and the state
\* is read; a hard error moves the run to ERROR where that is a valid transition.
HandleFailure ==
  /\ Step("failing",
          IF error = "hard" /\ CanTransition(state, "ERROR") THEN "erring" ELSE "sweep")
  /\ container' \in Asked
  /\ UNCHANGED <<evidence, disk, output, work, other>>

\* Docker is unavailable, which is no BackendError and so ends the handler; or the
\* state cannot be read.
HandlerGivesUp ==
  /\ Step("failing", "returned")
  /\ error' = IF error = "hard" THEN "handler" ELSE error
  /\ container' \in Asked
  /\ UNCHANGED <<evidence, disk, output, held, mounted, judged, other>>

MoveToError ==
  /\ Step("erring", "sweep")
  /\ Transition("ERROR")
  /\ UNCHANGED <<disk, output, work, container, other>>

\* Workspaces of a run that ended are removed, except after an interruption.
Sweep ==
  /\ Step("sweep", "returned")
  /\ trees' = IF error # "interrupt" /\ state \in {"REJECTED", "ERROR", "ABORTED"}
              THEN {} ELSE trees
  /\ UNCHANGED <<evidence, files, submitted, assets, altered, output, work, container, other>>

\* The handler itself fails: its event finds the operation lock taken, or the run in
\* another state than it read.
HandlerFails ==
  /\ Step("erring", "returned")
  /\ error' = "handler"
  /\ UNCHANGED <<evidence, disk, output, held, mounted, judged, container, other>>

\* The controller is killed; its container runs on.
Killed ==
  /\ at \notin {"returned", "killed"}
  /\ at' = "killed"
  /\ UNCHANGED <<evidence, disk, output, work, container, other>>

\* Something outside ProofPatch changes the stored contract, its assets or both.
Alter ==
  /\ ~altered
  /\ altered' = TRUE
  /\ submitted' \in IF submitted = NoContract THEN {NoContract} ELSE Contract
  /\ assets' \in IF assets = NoContract THEN {NoContract} ELSE Contract
  /\ <<submitted', assets'>> # <<submitted, assets>>
  /\ UNCHANGED <<evidence, files, trees, output, at, work, container, other>>
-----------------------------------------------------------------------------
(* abort and clean, by another process.                                    *)

Command(here, next) == command = here /\ command' = next

BeginAbort ==
  /\ Command("idle", "abort")
  /\ read' = state
  /\ UNCHANGED <<evidence, disk, output, at, work, container>>

StopContainers ==
  /\ Command("abort", "aborting")
  /\ container' = IF container \in {"none", "lost"} THEN "none" ELSE "stopped"
  /\ UNCHANGED <<evidence, disk, output, at, work, read>>

Abortable == {"PREFLIGHT", "INVESTIGATING", "BASELINE_VERIFYING", "PATCHING", "FINAL_VERIFYING"}

\* The state that was read decides whether the run is abortable; the transition is
\* validated against the state it has by now.
ConfirmAbort ==
  /\ Command("aborting", "idle")
  /\ read \in Abortable
  /\ Transition("ABORTED")
  /\ read' = NoState
  /\ UNCHANGED <<disk, output, at, work, container>>

\* It is not, or a step of the command fails.
LeaveCommand ==
  /\ command \in {"abort", "aborting", "cleaning"}
  /\ command' = "idle"
  /\ read' = NoState
  /\ UNCHANGED <<evidence, disk, output, at, work, container>>

Completed == {"VERIFIED", "REJECTED", "ABORTED", "ERROR", "APPLIED"}

\* The operation lock is held until the run is CLEANED.
BeginClean ==
  /\ Command("idle", "cleaning")
  /\ state \in Completed
  /\ trees' = {}
  /\ UNCHANGED <<evidence, files, submitted, assets, altered, output, at, work, container, read>>

EndClean ==
  /\ Command("cleaning", "idle")
  /\ MoveTo("CLEANED")
  /\ UNCHANGED <<events, bound, disk, output, at, work, container, read>>
-----------------------------------------------------------------------------
Preparing ==
  \/ PrepareRun \/ RecordPlan \/ PrepareBaseline
  \/ CheckClone("clone", "making", {"BASELINE_PREPARING", "INVESTIGATING"})
  \/ MakeClone("making", "investigate", "investigation")
  \/ Investigate \/ RecordStart \/ ProbeVersion

Investigating == StartAgent \/ AgentWrites \/ AgentExits \/ AgentFails

Submitting == NotReproduced \/ Capture \/ RecordContract \/ RecordEnvironment

Judging ==
  \/ Recheck \/ VerifyBaseline
  \/ CheckClone("verifying", "cloning", {"BASELINE_PREPARING", "BASELINE_VERIFYING"})
  \/ MakeClone("cloning", "copy", "baseline")
  \/ CopyAssets \/ StartOracle \/ EndOracle \/ Persist
  \/ Reproduced \/ BaselineNotReproduced \/ CloseBaseline \/ ConfirmLock

Failing ==
  Refuse \/ Catch \/ Reject \/ Raise
  \/ HandleFailure \/ HandlerGivesUp \/ MoveToError \/ HandlerFails \/ Sweep

Commanding ==
  BeginAbort \/ StopContainers \/ ConfirmAbort \/ LeaveCommand \/ BeginClean \/ EndClean

Next ==
  Preparing \/ Investigating \/ Submitting \/ Judging \/ Failing \/ Killed \/ Alter \/ Commanding

Spec == Init /\ [][Next]_vars
-----------------------------------------------------------------------------
(* Properties.                                                             *)

MaybeContract == Contract \union {NoContract}

TypeOK ==
  /\ state \in RunState
  /\ events \subseteq Event
  /\ bound \in MaybeContract
  /\ files \subseteq File
  /\ submitted \in MaybeContract
  /\ assets \in MaybeContract
  /\ trees \subseteq {"investigation", "baseline"}
  /\ altered \in BOOLEAN
  /\ claim \in MaybeContract
  /\ denial \in BOOLEAN
  /\ scratch \in MaybeContract
  /\ at \in Place
  /\ error \in {"none", "refused", "hard", "interrupt", "handler"}
  /\ held \in MaybeContract
  /\ mounted \in MaybeContract
  /\ container \in {"none", "agent", "oracle", "stopped", "lost"}
  /\ judged \in [contract : MaybeContract, assets : MaybeContract,
                  result : {"none", "passed", "failed"}]
  /\ command \in {"idle", "abort", "aborting", "cleaning"}
  /\ read \in RunState \union {NoState}

\* A reproduced baseline is a checkpoint that resume can load, whenever the controller
\* was interrupted or killed before: every file and event its checks look for is
\* there, and, unless something else has changed it, the contract that was bound.
CheckpointComplete ==
  state = "BASELINE_REPRODUCED" =>
    /\ files = File
    /\ events = Event
    /\ bound # NoContract
    /\ ~altered => submitted = bound /\ assets = bound

\* No container outlives the call that started it, however the call ends, unless the
\* controller itself was killed or docker would not stop it when it was asked to:
\* ADR 0006, "terminates the active container".
ContainersEndWithCall == at \in {"returned", "patch"} => container \in {"none", "lost"}

\* ADR 0006, "An unexpected exception ... moves the run to ERROR": wherever it hits,
\* the run ends, though others abort and clean it meanwhile.  The one exception is
\* the moment between the two transitions that close a baseline not reproduced.  This
\* is about a handler that runs to its end: HandlerGivesUp and HandlerFails are not.
Ended == state \in Completed \union {"CLEANED", "BASELINE_NOT_REPRODUCED"}

UnexpectedErrorsEnd == (at = "returned" /\ error = "hard") => Ended

\* How far the run has come, and what the oracle found of the contract that is bound.
Phase ==
  IF state = "BASELINE_REPRODUCED" THEN "reproduced"
  ELSE IF state \in {"CONTRACT_SUBMITTED", "BASELINE_VERIFYING"} THEN "submitted"
  ELSE IF state \in {"CREATED", "PREFLIGHT", "BASELINE_PREPARING", "INVESTIGATING"} THEN "open"
  ELSE "closed"

Verdict == IF judged.contract = bound /\ judged.assets = bound THEN judged.result ELSE "none"

Gate == INSTANCE BaselineGate WITH phase <- Phase, contract <- bound, verdict <- Verdict

\* The gate of the investigation: only the controller's own run of the contract that
\* evidence binds, with assets that match it, reproduces a baseline, whatever the
\* investigator writes, whoever aborts, and whatever happens to the stored files.
ImplementsGate == Gate!Spec
=============================================================================
