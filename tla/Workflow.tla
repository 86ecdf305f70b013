------------------------------ MODULE Workflow ------------------------------
(***************************************************************************)
(* The life of one run from its reproduced baseline to an applied patch    *)
(* (services/workflow.py), with the commands that other processes may give *)
(* at any moment: resume, abort, clean and apply.                          *)
(*                                                                         *)
(* A full workflow holds the lifecycle lease; every change of the evidence *)
(* holds the operation lock.  Both are nonblocking: a call that finds one  *)
(* taken raises.  A single transition or appended event is atomic here,    *)
(* which is what RunCoordinator establishes; calls that keep the operation *)
(* lock for longer (clone, capture, clean, apply) take it in one action    *)
(* and release it in another.  run() after its investigation continues as  *)
(* resume() does from BASELINE_REPRODUCED, the initial state of the model. *)
(*                                                                         *)
(* A patch is identified by the attempt whose clone it was captured from.  *)
(* The plan has no setup commands and one oracle stands for the fixed      *)
(* expectation and the regressions; workspaces are not retained.           *)
(***************************************************************************)
EXTENDS Naturals, Sequences, RunStates

CONSTANTS
  Process,      \* the processes that give commands for the run
  MaxAttempts,  \* maximum_attempts of the plan
  Nobody,       \* a lock when it is free
  NoReceipt     \* receipt.json and receipt.md do not exist

Attempt == 1 .. MaxAttempts
None == 0
Receipt == [status : {"verified", "rejected"}, patch : Attempt \union {None}]

ASSUME WorkflowAssumption ==
  /\ MaxAttempts \in Nat \ {0}
  /\ Nobody \notin Process
  /\ NoReceipt \notin Receipt

VARIABLES
  \* What the evidence says.
  state,      \* the state of the run
  captured,   \* the patches named by PATCH_CAPTURED events
  bindings,   \* for each receipt.created: does it follow the decision it records
  cleared,    \* history: the patches whose oracles passed
  \* What the directories of the run hold.
  patch,      \* the patch directory: clone.json, patch.diff, changed-files.json
  clones,     \* patch clones among the workspaces
  final,      \* the patch in the final-verification workspace of each attempt
  logs,       \* attempts with a directory of oracle logs
  records,    \* how many attempt records there are
  archived,   \* attempts with a directory of archived artifacts
  receipt,    \* the receipt files
  branch,     \* the apply branch in the user's repository
  \* Processes and locks.
  lease,      \* the holder of the lifecycle lease
  op,         \* the holder of the operation lock
  at,         \* where each process is
  seen,       \* the state of the run that each process has read and still goes by
  attempt,    \* the attempt each workflow works on
  outcome,    \* the result or the error each workflow has in hand
  tip,        \* the processes whose reading of the last event is still right
  container   \* the container of each workflow; that of Nobody has lost its workflow

evidence == <<state, captured, bindings, cleared>>
workspaces == <<clones, final>>
attempts == <<logs, records, archived>>
disk == <<patch, workspaces, attempts, receipt, branch>>
locks == <<lease, op>>
notes == <<seen, attempt, outcome>>
vars == <<evidence, disk, locks, at, notes, tip, container>>

\* Where a full workflow may be, under the lifecycle lease.
Working ==
  {"dispatch", "attempts", "prepare", "clone", "checked", "cloning", "clonefile", "patching",
   "agent", "running", "capture", "captured", "capturing", "binding", "reject", "analyze",
   "final", "fresh", "verifying", "oracle", "judging", "logs", "judged", "decide", "record",
   "recorded", "archive", "archiving", "finish", "receipt", "sign", "tidy"}
Handling == {"failing", "erring", "error", "sweep"}
Commanding ==
  {"lease", "abort", "aborting", "aborted", "cleaning", "cleaned",
   "apply", "applying", "branched", "patched"}

Place == Working \union Handling \union Commanding \union {"idle"}
Outcome == {"none", "empty", "passed", "failed", "refused", "hard", "interrupt"}
-----------------------------------------------------------------------------
Init ==
  /\ state = "BASELINE_REPRODUCED"
  /\ captured = {}
  /\ bindings = <<>>
  /\ cleared = {}
  /\ patch = [clone |-> None, diff |-> None, record |-> None]
  /\ clones = {}
  /\ final = [k \in Attempt |-> None]
  /\ logs = {}
  /\ records = 0
  /\ archived = {}
  /\ receipt = NoReceipt
  /\ branch = "none"
  /\ lease = Nobody
  /\ op = Nobody
  /\ at = [p \in Process |-> "idle"]
  /\ seen = [p \in Process |-> NoState]
  /\ attempt = [p \in Process |-> None]
  /\ outcome = [p \in Process |-> "none"]
  /\ tip = {}
  /\ \E lost \in {"none", "running"} :
       container = [q \in Process \union {Nobody} |-> IF q = Nobody THEN lost ELSE "none"]

GoTo(p, place) == at' = [at EXCEPT ![p] = place]

\* p is at a place of its call and goes on to the next.
Step(p, here, next) == at[p] = here /\ GoTo(p, next)

\* An event is appended: what others know of the last event is out of date.
Appended == tip' = {}

\* append_event: a busy operation lock makes it raise.
AppendEvent ==
  /\ op = Nobody
  /\ Appended
  /\ UNCHANGED evidence

MoveTo(target) ==
  /\ CanTransition(state, target)
  /\ state' = target
  /\ Appended

\* transition, and transition_while_locked by the holder of the operation lock.
Transition(target) == op = Nobody /\ MoveTo(target) /\ UNCHANGED <<captured, bindings, cleared>>
TransitionWhileLocked(p, target) == op = p /\ MoveTo(target)

TreesRemoved == clones' = {} /\ final' = [k \in Attempt |-> None]

\* A call returns, raises to its caller, or dies: its locks are free again.
Leave(p) ==
  /\ GoTo(p, "idle")
  /\ lease' = IF lease = p THEN Nobody ELSE lease
  /\ op' = IF op = p THEN Nobody ELSE op
  /\ seen' = [seen EXCEPT ![p] = NoState]
  /\ attempt' = [attempt EXCEPT ![p] = None]
  /\ outcome' = [outcome EXCEPT ![p] = "none"]

\* The container of p has ended and is removed; or p does not wait for it any more, but
\* nobody has stopped it.
Gone(p) == [container EXCEPT ![p] = "none"]
Lost(p) ==
  [container EXCEPT ![p] = "none", ![Nobody] = IF container[p] = "running" THEN "running" ELSE @]

\* docker run; a container that was left may hold the name, so that nothing is started.
Launched(p) ==
  {[container EXCEPT ![p] = "running"]} \union IF container[Nobody] = "running" THEN {Gone(p)} ELSE {}

\* patch.diff is on disk, described by changed-files.json and bound by evidence.
PatchLoads ==
  /\ patch.diff # None
  /\ patch.record = patch.diff
  /\ patch.record \in captured

\* ReceiptService.verify accepts the receipt files.
ReceiptVerifies ==
  /\ receipt # NoReceipt
  /\ bindings = <<TRUE>>
  /\ IF receipt.status = "verified" THEN state \in {"VERIFIED", "APPLIED"}
                                    ELSE state = "REJECTED"
  /\ receipt.patch # None => patch.record = receipt.patch /\ patch.diff = receipt.patch
-----------------------------------------------------------------------------
(* resume: the state is read before the lease is taken.                    *)

BeginResume(p) ==
  /\ Step(p, "idle", "lease")
  /\ seen' = [seen EXCEPT ![p] = state]
  /\ UNCHANGED <<evidence, disk, locks, attempt, outcome, tip, container>>

TakeLease(p) ==
  /\ Step(p, "lease", "dispatch")
  /\ lease = Nobody
  /\ lease' = p
  /\ UNCHANGED <<evidence, disk, op, notes, tip, container>>

\* The state that was read decides which checkpoint is loaded, and nothing after it.
Forget(p) == seen' = [seen EXCEPT ![p] = NoState]

ResumeBaseline(p) ==
  /\ Step(p, "dispatch", "attempts")
  /\ seen[p] = "BASELINE_REPRODUCED"
  /\ Forget(p)
  /\ UNCHANGED <<evidence, disk, locks, attempt, outcome, tip, container>>

\* An interrupted agent: its clone is captured when the caller confirms.
ResumeCapture(p) ==
  /\ Step(p, "dispatch", "capture")
  /\ seen[p] = "PATCHING"
  /\ patch.clone \in clones
  /\ attempt' = [attempt EXCEPT ![p] = patch.clone]
  /\ Forget(p)
  /\ UNCHANGED <<evidence, disk, locks, outcome, tip, container>>

ResumeCaptured(p) ==
  /\ Step(p, "dispatch", "analyze")
  /\ seen[p] \in {"PATCH_CAPTURED", "FINAL_VERIFYING"}
  /\ patch.diff # None
  /\ patch.record = patch.diff
  /\ Forget(p)
  /\ UNCHANGED <<evidence, disk, locks, attempt, outcome, tip, container>>

\* Mutant: the receipt that exists is signed again.
ResumeSigning(p) ==
  /\ Step(p, "dispatch", "sign")
  /\ seen[p] = "VERIFIED"
  /\ ReceiptVerifies
  /\ receipt.status = "verified"
  /\ UNCHANGED <<evidence, disk, locks, notes, tip, container>>

\* A verified receipt is reused.
ResumeVerified(p) ==
  /\ at[p] = "dispatch"
  /\ seen[p] = "VERIFIED"
  /\ ReceiptVerifies
  /\ receipt.status = "verified"
  /\ Leave(p)
  /\ UNCHANGED <<evidence, disk, tip, container>>
-----------------------------------------------------------------------------
(* _patch_and_verify: the agent works in a fresh clone.                    *)

NextAttempt(p) ==
  /\ Step(p, "attempts", "prepare")
  /\ records < MaxAttempts
  /\ attempt' = [attempt EXCEPT ![p] = records + 1]
  /\ outcome' = [outcome EXCEPT ![p] = "none"]
  /\ UNCHANGED <<evidence, disk, locks, seen, tip, container>>

Prepare(p) ==
  /\ Step(p, "prepare", "clone")
  /\ Transition("PATCH_PREPARING")
  /\ UNCHANGED <<disk, locks, notes, container>>

\* create_clone reads the state ...
CheckClone(p) ==
  /\ Step(p, "clone", "checked")
  /\ state \in {"PATCH_PREPARING", "PATCHING"}
  /\ UNCHANGED <<evidence, disk, locks, notes, tip, container>>

\* ... before it takes the operation lock; it refuses a destination that exists.
BeginClone(p) ==
  /\ Step(p, "checked", "cloning")
  /\ op = Nobody
  /\ attempt[p] \notin clones
  /\ clones' = clones \union {attempt[p]}
  /\ op' = p
  /\ UNCHANGED <<evidence, patch, final, attempts, receipt, branch,
                 lease, notes, tip, container>>

EndClone(p) ==
  /\ Step(p, "cloning", "clonefile")
  /\ op' = Nobody
  /\ UNCHANGED <<evidence, disk, lease, notes, tip, container>>

\* clone.json is created exclusively.
WriteClone(p) ==
  /\ Step(p, "clonefile", "patching")
  /\ patch.clone = None
  /\ patch' = [patch EXCEPT !.clone = attempt[p]]
  /\ UNCHANGED <<evidence, workspaces, attempts, receipt, branch,
                 locks, notes, tip, container>>

StartPatching(p) ==
  /\ Step(p, "patching", "agent")
  /\ Transition("PATCHING")
  /\ UNCHANGED <<disk, locks, notes, container>>

StartAgent(p) ==
  /\ Step(p, "agent", "running")
  /\ AppendEvent
  /\ container' \in Launched(p)
  /\ UNCHANGED <<disk, locks, notes>>

\* The agent exits normally, also when it is asked to stop; its logs and its result
\* are recorded.
AgentSucceeds(p) ==
  /\ Step(p, "running", "capture")
  /\ container[p] # "none"
  /\ AppendEvent
  /\ container' = Gone(p)
  /\ UNCHANGED <<disk, locks, notes>>

\* The agent failed, ran out of time, or was stopped by an abort; the exit of its
\* container is recorded unless the backend itself failed, which may not have removed it.
AgentFails(p) ==
  /\ Step(p, "running", "reject")
  /\ \/ AppendEvent /\ container' = Gone(p)
     \/ UNCHANGED <<evidence, tip>> /\ container' \in {Gone(p), Lost(p)}
  /\ outcome' = [outcome EXCEPT ![p] = "refused"]
  /\ UNCHANGED <<disk, locks, seen, attempt>>
-----------------------------------------------------------------------------
(* capture and _capture_or_reject.                                         *)

\* capture reads the state before it takes the operation lock.
CheckCapture(p) ==
  /\ Step(p, "capture", "captured")
  /\ state = "PATCHING"
  /\ UNCHANGED <<evidence, disk, locks, notes, tip, container>>

\* Under the lock, patch.diff is created exclusively.
BeginCapture(p) ==
  /\ Step(p, "captured", "capturing")
  /\ op = Nobody
  /\ patch.diff = None
  /\ op' = p
  /\ patch' = [patch EXCEPT !.diff = attempt[p]]
  /\ UNCHANGED <<evidence, workspaces, attempts, receipt, branch,
                 lease, notes, tip, container>>

\* Mutant: PATCH_CAPTURED is recorded before changed-files.json is written.
BindEarly(p) ==
  /\ Step(p, "capturing", "analyze")
  /\ TransitionWhileLocked(p, "PATCH_CAPTURED")
  /\ captured' = captured \union {patch.diff}
  /\ op' = Nobody
  /\ UNCHANGED <<bindings, cleared, disk, lease, notes, container>>

\* changed-files.json is created exclusively.
WriteRecord(p) ==
  /\ Step(p, "capturing", "binding")
  /\ patch.record = None
  /\ patch' = [patch EXCEPT !.record = patch.diff]
  /\ UNCHANGED <<evidence, workspaces, attempts, receipt, branch,
                 locks, notes, tip, container>>

EndCapture(p) ==
  /\ Step(p, "binding", "analyze")
  /\ TransitionWhileLocked(p, "PATCH_CAPTURED")
  /\ captured' = captured \union {patch.record}
  /\ op' = Nobody
  /\ UNCHANGED <<bindings, cleared, disk, lease, notes, container>>

\* PatchError: the run is no longer in PATCHING; or the patch is empty or denied by
\* policy, or its artifact exists.
RefuseCapture(p) ==
  /\ \/ Step(p, "capture", "reject") /\ outcome' = [outcome EXCEPT ![p] = "refused"]
     \/ /\ Step(p, "captured", "reject")
        /\ \E result \in {"empty", "refused"} : outcome' = [outcome EXCEPT ![p] = result]
  /\ UNCHANGED <<evidence, disk, locks, seen, attempt, tip, container>>

\* _reject_patch, only in PATCHING; then an empty patch gets a receipt, and any
\* other reason is raised.
Reject(p) ==
  /\ Step(p, "reject", IF outcome[p] = "empty" THEN "finish" ELSE "failing")
  /\ IF state = "PATCHING" THEN Transition("REJECTED") ELSE UNCHANGED <<evidence, tip>>
  /\ UNCHANGED <<disk, locks, notes, container>>
-----------------------------------------------------------------------------
(* _verify_attempt: the patch is tested in another fresh clone.            *)

\* The attempt is numbered after those on record and fingerprinted.
Analyze(p) ==
  /\ Step(p, "analyze", "final")
  /\ records < MaxAttempts
  /\ AppendEvent
  /\ attempt' = [attempt EXCEPT ![p] = records + 1]
  /\ UNCHANGED <<disk, locks, seen, outcome, container>>

StartFinal(p) ==
  /\ Step(p, "final", "fresh")
  /\ state = "PATCH_CAPTURED"
  /\ Transition("FINAL_VERIFYING")
  /\ UNCHANGED <<disk, locks, notes, container>>

\* An incomplete final verification: its workspace is renamed out of the way.
Quarantine(p) ==
  /\ Step(p, "final", "fresh")
  /\ state = "FINAL_VERIFYING"
  /\ final' = [final EXCEPT ![attempt[p]] = None]
  /\ UNCHANGED <<evidence, patch, clones, attempts, receipt, branch,
                 locks, notes, tip, container>>

\* verify_application: the state is read and the patch loaded under no lock ...
CheckFinal(p) ==
  /\ Step(p, "fresh", "verifying")
  /\ state \in {"PATCH_CAPTURED", "FINAL_VERIFYING"}
  /\ PatchLoads
  /\ UNCHANGED <<evidence, disk, locks, notes, tip, container>>

\* ... and then it clones, applies the loaded patch, recaptures and compares it.
FreshClone(p) ==
  /\ Step(p, "verifying", "oracle")
  /\ final[attempt[p]] = None
  /\ final' = [final EXCEPT ![attempt[p]] = patch.diff]
  /\ UNCHANGED <<evidence, patch, clones, attempts, receipt, branch,
                 locks, notes, tip, container>>

StartOracle(p) ==
  /\ Step(p, "oracle", "judging")
  /\ AppendEvent
  /\ container' \in Launched(p)
  /\ UNCHANGED <<disk, locks, notes>>

\* The oracle passes or fails; stopped by an abort, it passes if any exit code but 0
\* is expected.
EndOracle(p) ==
  /\ Step(p, "judging", "logs")
  /\ \E result \in {"passed", "failed"} : outcome' = [outcome EXCEPT ![p] = result]
  /\ container' = Gone(p)
  /\ UNCHANGED <<evidence, disk, locks, seen, attempt, tip>>

\* mkdir(exist_ok=False) for the logs of this attempt.
MakeLogs(p) ==
  /\ Step(p, "logs", "judged")
  /\ attempt[p] \notin logs
  /\ logs' = logs \union {attempt[p]}
  /\ UNCHANGED <<evidence, patch, workspaces, records, archived, receipt, branch,
                 locks, notes, tip, container>>

OracleCompleted(p) ==
  /\ Step(p, "judged", "decide")
  /\ op = Nobody
  /\ Appended
  /\ cleared' = IF outcome[p] = "passed" THEN cleared \union ({final[attempt[p]]} \ {None})
                 ELSE cleared
  /\ UNCHANGED <<state, captured, bindings, disk, locks, notes, container>>

\* Mutant: the result of the oracle is not looked at.
DecideVerified(p) ==
  /\ Step(p, "decide", "record")
  /\ Transition("VERIFIED")
  /\ UNCHANGED <<disk, locks, notes, container>>

Decide(p) ==
  /\ Step(p, "decide", "record")
  /\ Transition(IF outcome[p] = "passed" THEN "VERIFIED" ELSE "REJECTED")
  /\ UNCHANGED <<disk, locks, notes, container>>
-----------------------------------------------------------------------------
(* The attempt is recorded; then the run ends or another attempt follows.  *)

\* AttemptStore.append: contiguous and append-only.
RecordAttempt(p) ==
  /\ Step(p, "record", "recorded")
  /\ records + 1 = attempt[p]
  /\ records' = records + 1
  /\ UNCHANGED <<evidence, patch, workspaces, logs, archived, receipt, branch,
                 locks, notes, tip, container>>

AttemptCompleted(p) ==
  /\ Step(p, "recorded",
          IF outcome[p] = "passed" \/ attempt[p] = MaxAttempts THEN "finish" ELSE "archive")
  /\ AppendEvent
  /\ UNCHANGED <<disk, locks, notes, container>>

BeginArchive(p) ==
  /\ Step(p, "archive", "archiving")
  /\ attempt[p] \notin archived
  /\ archived' = archived \union {attempt[p]}
  /\ UNCHANGED <<evidence, patch, workspaces, logs, records, receipt, branch,
                 locks, notes, tip, container>>

\* The files of the patch directory are moved one by one, in the order of their names.
ArchiveFile(p) ==
  /\ at[p] = "archiving"
  /\ patch' = IF patch.record # None THEN [patch EXCEPT !.record = None]
              ELSE IF patch.clone # None THEN [patch EXCEPT !.clone = None]
              ELSE [patch EXCEPT !.diff = None]
  /\ patch' # patch
  /\ UNCHANGED <<evidence, workspaces, attempts, receipt, branch,
                 locks, at, notes, tip, container>>

EndArchive(p) ==
  /\ Step(p, "archiving", "attempts")
  /\ patch = [clone |-> None, diff |-> None, record |-> None]
  /\ UNCHANGED <<evidence, disk, locks, notes, tip, container>>
-----------------------------------------------------------------------------
(* _finish and ReceiptService.generate.                                    *)

\* The status, with the hash of the last event, is read without a lock.
Finish(p) ==
  /\ Step(p, "finish", "receipt")
  /\ seen' = [seen EXCEPT ![p] = state]
  /\ tip' = tip \union {p}
  /\ UNCHANGED <<evidence, disk, locks, attempt, outcome, container>>

\* receipt.json and receipt.md are created exclusively.
WriteReceipt(p) ==
  /\ Step(p, "receipt", "sign")
  /\ receipt = NoReceipt
  /\ Forget(p)
  /\ receipt' = [status |-> IF seen[p] = "VERIFIED" THEN "verified" ELSE "rejected",
                 patch |-> IF outcome[p] = "empty" THEN None ELSE patch.diff]
  /\ UNCHANGED <<evidence, patch, workspaces, attempts, branch,
                 locks, attempt, outcome, tip, container>>

\* receipt.created binds the files to the chain, after whatever event is last now.
SignReceipt(p) ==
  /\ Step(p, "sign", "tidy")
  /\ op = Nobody
  /\ bindings' = Append(bindings, p \in tip)
  /\ Appended
  /\ UNCHANGED <<state, captured, cleared, disk, locks, notes, container>>

\* The workspaces are removed, between two cleanup events, and the call returns.
Tidy(p) ==
  /\ at[p] = "tidy"
  /\ AppendEvent
  /\ TreesRemoved
  /\ Leave(p)
  /\ UNCHANGED <<patch, attempts, receipt, branch, container>>
-----------------------------------------------------------------------------
(* Failures of a full workflow and _handle_failure.                        *)

\* Mutant: a workflow that failed starts its attempt again.
RaiseRetrying(p) ==
  /\ at[p] \in Working
  /\ GoTo(p, "dispatch")
  /\ op' = IF op = p THEN Nobody ELSE op
  /\ UNCHANGED <<evidence, disk, lease, notes, tip, container>>

\* Any step of a workflow may raise: an error the controller expects, a failed
\* backend, damaged evidence or an unexpected error, or an interruption.
Raise(p) ==
  /\ at[p] \in Working
  /\ GoTo(p, "failing")
  /\ \E error \in {"refused", "hard", "interrupt"} :
       outcome' = [outcome EXCEPT ![p] = error]
  /\ op' = IF op = p THEN Nobody ELSE op
  /\ Forget(p)
  /\ attempt' = [attempt EXCEPT ![p] = None]
  /\ tip' = tip \ {p}
  /\ UNCHANGED <<evidence, disk, lease, container>>

\* The containers of the run are stopped, those that were left with them, or docker will
\* not and the error is ignored; its state is read: only a hard error moves it to ERROR,
\* and only where that is a valid transition.
HandleFailure(p) ==
  /\ Step(p, "failing",
          IF outcome[p] = "hard" /\ CanTransition(state, "ERROR") THEN "erring" ELSE "sweep")
  /\ container' \in {[Gone(p) EXCEPT ![Nobody] = "none"], Lost(p)}
  /\ seen' = [seen EXCEPT ![p] = state]
  /\ attempt' = [attempt EXCEPT ![p] = None]
  /\ UNCHANGED <<evidence, disk, locks, outcome, tip>>

ErrorEvent(p) ==
  /\ Step(p, "erring", "error")
  /\ AppendEvent
  /\ UNCHANGED <<disk, locks, notes, container>>

MoveToError(p) ==
  /\ Step(p, "error", "sweep")
  /\ Transition("ERROR")
  /\ seen' = [seen EXCEPT ![p] = "ERROR"]
  /\ UNCHANGED <<disk, locks, attempt, outcome, container>>

\* Workspaces of a run that ended are removed, except after an interruption.
Sweep(p) ==
  /\ at[p] = "sweep"
  /\ IF outcome[p] # "interrupt" /\ seen[p] \in {"REJECTED", "ERROR", "ABORTED"}
     THEN TreesRemoved
     ELSE UNCHANGED workspaces
  /\ Leave(p)
  /\ UNCHANGED <<evidence, patch, attempts, receipt, branch, tip, container>>

\* A call outside the workflow proper raises, or the handling of a failure does, or
\* any process is killed; what it was doing stays half done and its container runs on.
Abandon(p) ==
  /\ at[p] # "idle"
  /\ Leave(p)
  /\ container' = Lost(p)
  /\ tip' = tip \ {p}
  /\ UNCHANGED <<evidence, disk>>
-----------------------------------------------------------------------------
(* abort, which takes no lease.                                            *)

Abortable == {"PREFLIGHT", "INVESTIGATING", "BASELINE_VERIFYING", "PATCHING", "FINAL_VERIFYING"}

BeginAbort(p) ==
  /\ Step(p, "idle", "abort")
  /\ seen' = [seen EXCEPT ![p] = state]
  /\ UNCHANGED <<evidence, disk, locks, attempt, outcome, tip, container>>

\* The containers are stopped first, whatever the state.
StopContainers(p) ==
  /\ Step(p, "abort", "aborting")
  /\ container' = [q \in Process \union {Nobody} |->
                     IF q = Nobody THEN "none"
                     ELSE IF container[q] = "running" THEN "stopped" ELSE container[q]]
  /\ UNCHANGED <<evidence, disk, locks, notes, tip>>

RequestAbort(p) ==
  /\ Step(p, "aborting", "aborted")
  /\ seen[p] \in Abortable
  /\ AppendEvent
  /\ UNCHANGED <<disk, locks, notes, container>>

ConfirmAbort(p) ==
  /\ at[p] = "aborted"
  /\ Transition("ABORTED")
  /\ Leave(p)
  /\ UNCHANGED <<disk, container>>
-----------------------------------------------------------------------------
(* clean, under the operation lock alone.                                  *)

Completed == {"VERIFIED", "REJECTED", "ABORTED", "ERROR", "APPLIED"}

\* Mutant: the operation lock is not taken.
CleanUnlocked(p) ==
  /\ Step(p, "idle", "cleaning")
  /\ state \in Completed
  /\ (state \in {"VERIFIED", "APPLIED"} \/ receipt # NoReceipt) => ReceiptVerifies
  /\ Appended
  /\ UNCHANGED <<evidence, disk, locks, notes, container>>

\* Lock, plan and cleanup.started: a receipt that exists has to verify.
BeginClean(p) ==
  /\ Step(p, "idle", "cleaning")
  /\ op = Nobody
  /\ state \in Completed
  /\ (state \in {"VERIFIED", "APPLIED"} \/ receipt # NoReceipt) => ReceiptVerifies
  /\ op' = p
  /\ Appended
  /\ UNCHANGED <<evidence, disk, lease, notes, container>>

RemoveTrees(p) ==
  /\ Step(p, "cleaning", "cleaned")
  /\ TreesRemoved
  /\ UNCHANGED <<evidence, patch, attempts, receipt, branch,
                 locks, notes, tip, container>>

EndClean(p) ==
  /\ at[p] = "cleaned"
  /\ TransitionWhileLocked(p, "CLEANED")
  /\ Leave(p)
  /\ UNCHANGED <<captured, bindings, cleared, disk, container>>
-----------------------------------------------------------------------------
(* apply_verified.                                                         *)

\* Before the lock: the receipt verifies and authorises the captured patch.
CheckApply(p) ==
  /\ Step(p, "idle", "apply")
  /\ state = "VERIFIED"
  /\ ReceiptVerifies
  /\ receipt.status = "verified"
  /\ PatchLoads
  /\ receipt.patch = patch.record
  /\ UNCHANGED <<evidence, disk, locks, notes, tip, container>>

\* Mutant: the state is not read again under the lock.
LockUnchecked(p) ==
  /\ Step(p, "apply", "applying")
  /\ op = Nobody
  /\ op' = p
  /\ UNCHANGED <<evidence, disk, lease, notes, tip, container>>

\* Under the lock the state is read again.
LockApply(p) ==
  /\ Step(p, "apply", "applying")
  /\ op = Nobody
  /\ state = "VERIFIED"
  /\ op' = p
  /\ UNCHANGED <<evidence, disk, lease, notes, tip, container>>

\* The original is clean and unchanged, and the branch does not exist.
CreateBranch(p) ==
  /\ Step(p, "applying", "branched")
  /\ branch = "none"
  /\ branch' = "created"
  /\ UNCHANGED <<evidence, patch, workspaces, attempts, receipt,
                 locks, notes, tip, container>>

PatchBranch(p) ==
  /\ Step(p, "branched", "patched")
  /\ branch' = "patched"
  /\ UNCHANGED <<evidence, patch, workspaces, attempts, receipt,
                 locks, notes, tip, container>>

\* The patch does not apply: the new branch is left and deleted.
RestoreBranch(p) ==
  /\ at[p] = "branched"
  /\ branch' = "none"
  /\ Leave(p)
  /\ UNCHANGED <<evidence, patch, workspaces, attempts, receipt, tip, container>>

EndApply(p) ==
  /\ at[p] = "patched"
  /\ TransitionWhileLocked(p, "APPLIED")
  /\ Leave(p)
  /\ UNCHANGED <<captured, bindings, cleared, disk, container>>
-----------------------------------------------------------------------------
Attempting(p) ==
  \/ NextAttempt(p) \/ Prepare(p) \/ CheckClone(p) \/ BeginClone(p) \/ EndClone(p) \/ WriteClone(p)
  \/ StartPatching(p) \/ StartAgent(p) \/ AgentSucceeds(p) \/ AgentFails(p)

Capturing(p) ==
  \/ CheckCapture(p) \/ BeginCapture(p) \/ WriteRecord(p) \/ EndCapture(p)
  \/ RefuseCapture(p) \/ Reject(p)

Verifying(p) ==
  \/ Analyze(p) \/ StartFinal(p) \/ Quarantine(p) \/ CheckFinal(p) \/ FreshClone(p)
  \/ StartOracle(p) \/ EndOracle(p) \/ MakeLogs(p) \/ OracleCompleted(p) \/ Decide(p)

Closing(p) ==
  \/ RecordAttempt(p) \/ AttemptCompleted(p) \/ BeginArchive(p) \/ ArchiveFile(p) \/ EndArchive(p)
  \/ Finish(p) \/ WriteReceipt(p) \/ SignReceipt(p) \/ Tidy(p)

Failing(p) == HandleFailure(p) \/ ErrorEvent(p) \/ MoveToError(p) \/ Sweep(p)

Resuming(p) ==
  \/ TakeLease(p) \/ ResumeBaseline(p) \/ ResumeCapture(p)
  \/ ResumeCaptured(p) \/ ResumeVerified(p)

Aborting(p) == StopContainers(p) \/ RequestAbort(p) \/ ConfirmAbort(p)
Cleaning(p) == RemoveTrees(p) \/ EndClean(p)

Applying(p) ==
  \/ LockApply(p) \/ CreateBranch(p) \/ PatchBranch(p) \/ RestoreBranch(p) \/ EndApply(p)

\* What a call does once it has begun.
Proceed(p) ==
  \/ Resuming(p) \/ Attempting(p) \/ Capturing(p) \/ Verifying(p) \/ Closing(p)
  \/ Failing(p) \/ Aborting(p) \/ Cleaning(p) \/ Applying(p)

Next ==
  \E p \in Process :
    \/ BeginResume(p) \/ BeginAbort(p) \/ BeginClean(p) \/ CheckApply(p)
    \/ Proceed(p) \/ Raise(p) \/ Abandon(p)

\* A call that has begun is scheduled until it returns, raises or dies; the
\* backend bounds every container by a timeout.
Fairness ==
  \A p \in Process : WF_vars(Proceed(p) \/ Raise(p) \/ (at[p] \notin Working /\ Abandon(p)))

Spec == Init /\ [][Next]_vars /\ Fairness
-----------------------------------------------------------------------------
(* Properties.                                                             *)

TypeOK ==
  /\ state \in RunState
  /\ captured \subseteq Attempt
  /\ bindings \in Seq(BOOLEAN)
  /\ cleared \subseteq Attempt
  /\ patch \in [clone : Attempt \union {None}, diff : Attempt \union {None},
                record : Attempt \union {None}]
  /\ clones \subseteq Attempt
  /\ final \in [Attempt -> Attempt \union {None}]
  /\ logs \subseteq Attempt
  /\ records \in 0 .. MaxAttempts
  /\ archived \subseteq Attempt
  /\ receipt \in Receipt \union {NoReceipt}
  /\ branch \in {"none", "created", "patched"}
  /\ lease \in Process \union {Nobody}
  /\ op \in Process \union {Nobody}
  /\ at \in [Process -> Place]
  /\ seen \in [Process -> RunState \union {NoState}]
  /\ attempt \in [Process -> Attempt \union {None}]
  /\ outcome \in [Process -> Outcome]
  /\ tip \subseteq Process
  /\ container \in [Process \union {Nobody} -> {"none", "running", "stopped"}]

\* A run that is VERIFIED or APPLIED holds on disk, whole and bound by evidence,
\* the very patch whose oracles passed, whatever was retried, resumed or aborted.
VerifiedPatchPassed ==
  state \in {"VERIFIED", "APPLIED"} => PatchLoads /\ patch.diff \in cleared

\* The checkpoints after a capture can always be loaded: no crash, retry or archive
\* leaves the run in one of them without the patch that resume needs.
CheckpointsLoad ==
  state \in {"PATCH_CAPTURED", "FINAL_VERIFYING"} => PatchLoads

\* Receipt files are bound once and never replaced: however often a run is resumed,
\* the evidence holds at most the one receipt.created that verify insists on.
OneReceipt ==
  bindings # <<>> => Len(bindings) = 1 /\ receipt # NoReceipt

\* The user's repository is touched only for a run that is VERIFIED at that moment
\* and whose verified receipt names a patch that passed.
ChangesAreAuthorised ==
  [][branch' \notin {branch, "none"} =>
       /\ state = "VERIFIED"
       /\ ReceiptVerifies
       /\ receipt.status = "verified"
       /\ receipt.patch \in cleared]_vars

\* clean holds no lease and takes a rejected run for a completed one even between
\* two attempts; still it never removes a workspace that a workflow's container has
\* mounted.  Not so for an aborted run: an agent that starts between the moment abort
\* stops the containers and the moment it records ABORTED outlives the abort.  And not
\* so for the container of Nobody, which clean does not look for: one whose controller
\* was killed, or that docker would not stop, runs on under whatever clean removes.
CleanSparesContainers ==
  [][\A p \in Process :
       (RemoveTrees(p) /\ state # "ABORTED") => \A q \in Process : container[q] # "running"]_vars

\* How far the run has come.
Phase ==
  IF state \in {"BASELINE_REPRODUCED", "PATCH_PREPARING", "PATCHING"} THEN "open"
  ELSE IF state \in {"PATCH_CAPTURED", "FINAL_VERIFYING"} THEN "captured"
  ELSE IF state = "VERIFIED" THEN "verified"
  ELSE IF state = "APPLIED" THEN "applied"
  ELSE IF state = "REJECTED" THEN "rejected"
  ELSE "closed"

\* The patch on disk, while the state of the run is about it.
Held == IF Phase \in {"captured", "verified", "applied"} /\ PatchLoads THEN patch.diff ELSE None

\* Each receipt.created is about the files as they are.
Bound == [i \in DOMAIN bindings |-> receipt]

Promise == INSTANCE PatchRun WITH
  Patch <- Attempt, NoPatch <- None,
  phase <- Phase, patch <- Held, tried <- captured, passed <- cleared, receipts <- Bound

\* Retries, resumes, aborts, cleanups, crashes and competing commands come to no more
\* than a run that keeps its promise: a patch is captured once for an attempt and never
\* replaced, and a receipt is bound once and ends the attempts for good.
ImplementsRun == Promise!Spec

\* Every command ends: attempts are bounded, and no lock is waited for.
CommandEnds(p) == (at[p] # "idle") ~> (at[p] = "idle")
-----------------------------------------------------------------------------
(* What the documents say and the code does not keep.                      *)

\* docs/architecture.md: "the receipt records the decision-chain hash immediately
\* before receipt.created".
ReceiptFollowsDecision ==
  [][\A p \in Process : SignReceipt(p) => p \in tip]_vars
=============================================================================
