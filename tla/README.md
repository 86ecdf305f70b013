# ProofPatch in TLA+

ProofPatch lets an agent investigate a defect, lets an independent oracle confirm
that the defect is real, lets an agent patch it, and lets oracles decide in a fresh
clone whether the patch counts. A run survives crashes, is worked on by several
commands at once, and promises that what it calls verified was verified. This
directory models the parts of the program that keep that promise, checks them with
TLC on small instances, and proves the evidence store, the run coordinator, the
workflow from the created run to the applied patch, native verification, the Docker
backend, the process runner with the git client and the oracles on it, and the capture of
a patch with its path policy correct for all instances with TLAPS.

Paths below are relative to the repository (`src/` in `PROJECT.json` is its root).

## 1. Inventory

| Component | Code | State it keeps | Operations | What makes it correct |
|---|---|---|---|---|
| Run states | `models/state.py` | none: 18 states, a table of transitions | `can_transition`, `validate_transition` | every run follows the table, and the table admits no way round a gate |
| Evidence store | `services/evidence.py` | `events.jsonl`, `chain.sha256` | `append`, `verify_event_chain` | what was acknowledged survives; what was accepted is never contradicted; damage fails closed |
| Repository locks | `services/locks.py` | one lock file per repository, one lease file per run | `acquire`, `release` | exclusive, never waited for, free when the holder dies |
| Run coordinator and index | `services/coordinator.py`, `services/run_store.py` | run directories, manifests, an SQLite row per run | `create_run`, `transition`, `append_event`, `status`, `list_runs` and the `_while_locked` forms | evidence always derives a state; the index lags, never leads |
| Workflow | `services/workflow.py` | checkpoints in the evidence and the run directory | `run`, `resume`, `abort` | only a patch whose oracles passed becomes verified; interruptions leave a checkpoint |
| Investigation and baseline gate | `services/investigation.py`, `services/contracts.py`, `services/environment.py` | contract, approved assets, logs, environment identity, baseline result | `investigate` | an independent reproduction comes before every patch |
| Native verification | `services/verification.py`, `backends/native.py` | as above, without a container | `verify_patch` | as above |
| Patches | `services/patching.py`, `git/clone.py`, `git/diff.py`, `git/apply.py` | `clone.json`, `patch.diff`, `changed-files.json`, workspaces, a branch | `prepare`, `capture`, `verify_application`, `apply_verified` | only what the policy allows is captured; the patch that is applied is the patch that was verified; the user's own work stays |
| Attempts | `services/patch_analysis.py`, `models/attempt.py` | numbered attempt records | `append`, `load` | contiguous and append-only, at most `maximum_attempts` |
| Receipts | `services/receipt.py`, `models/receipt.py` | `receipt.json`, `receipt.md` | `generate`, `verify` | one receipt, bound to the decision it reports |
| Cleanup | `services/cleanup.py` | none of its own | `clean`, `preview` | removes only what nobody uses, keeps evidence |
| Docker backend | `backends/docker.py` | containers labelled with their run | `prepare`, `run`, `terminate`, `terminate_run`, `cleanup` | no container outlives its execution or its run |
| Process runner | `execution/process.py`, `execution/output.py` | one child process, two reader threads, a writer thread, an output budget | `run` | always returns, within its limits, with what the child wrote; never lets it wait on itself |
| Git client, repository discovery | `git/client.py`, `services/repository.py` | a git process and two reader threads per command; the repository is shared with its user | queries and changes, `assert_matches` | a command that is over for its caller is over; what was looked at still holds when it is acted on |
| Oracles and agents | `oracles/`, `agents/` | none | evaluation, command templates | a verdict rests on all that the command wrote and on how it ended |
| Path, mount, secret, workspace checks | `security/` | none | predicates over the file system | |
| Configuration, policy, initialisation, diagnostics | `models/config.py`, `services/configuration.py`, ... | none that changes | validation, reporting | |
| Command line, GitHub output | `cli.py`, `integrations/github.py` | none | parsing, printing | |

The command line calls one service per command. The workflow calls the
investigation, the patch service, the backend, the oracles and the receipt service,
and they all record what they do through the coordinator, which writes the evidence
first and the index second. Processes share nothing but files: the evidence, the
locks, the index, the run directory, the workspaces, and the containers.

What is hard about it: several processes act on one run (a worker, an `abort`, a
`clean`, a second `resume`); two locks that are never waited for, the lifecycle
lease held by whole workflows and the operation lock held by single changes; every
read of the evidence without a lock races with a writer; a process may die between
any two system calls and the machine may lose power; retries reuse a directory that
an earlier attempt filled. `PROJECT.json` lists these hazards one by one, at their
lines, with the properties that cover them.

## 2. Plan

Most important first: what everything else trusts (evidence), who may change it
(coordinator), what is decided on it (workflow), and then the parts that feed the
decisions (runner, investigation, containers).

| # | Modules | Builds on | State |
|---|---|---|---|
| 1 | `EvidenceLog` (abstract), `EvidenceChain` (implements it), `EvidenceChain_proofs` | | done, proved |
| 2 | `RunStates`, `RunLifecycle` (abstract), `RunCoordinator` (implements it, uses `EvidenceLog` per run), `RunCoordinator_proofs` | 1 | done, proved |
| 3 | `PatchRun` (abstract), `Workflow` (implements it): attempts, capture, final verification, receipt, failures, resume, abort, clean, apply; `Workflow_proofs` | 2 | done, proved |
| 4 | `ChildPipes` (the operating system), `ProcessRunner` | | done, proved with 11 |
| 5 | `BaselineGate` (abstract), `Investigation` (implements it), `Investigation_proofs` | 2 | done, proved |
| 6 | `ContainerBackend`: one execution and the sweep of a run; `ContainerBackend_proofs` | 4 | done, proved |
| 7 | `PatchVerdict` (abstract), `NativeVerification` (implements it): `verify_patch`, a second way to VERIFIED, without lease or failure handler; `NativeVerification_proofs` | 2 | done, proved |
| 8 | `PatchApply`: `apply_verified` on the original repository, git command by git command, with its user; `PatchApply_proofs` | | done, proved |
| 9 | `PathPolicy` (pure), `PatchCapture`: what a capture reads, refuses and promises | | done, proved with 11 |
| 10 | `CommandOracle`: evaluation and matchers, on what the runner returns | 4 | done, proved with 11 |
| 11 | `GitClient`: one call of the git client, next to one of the runner; `Git_proofs`, of this and of 4, 9 and 10 | 4, 10 | done, proved |
| 12 | The integrity checks of a clone before a capture; redaction and the similarity of attempts against reference definitions | 4, 9 | next |

How they compose: `EvidenceChain` establishes that appends behave as the steps of
`EvidenceLog`; `RunCoordinator` uses one `EvidenceLog` per run (checked and proved as
`ImplementsLogs`) and establishes that transitions are atomic (`RunLifecycle`);
`Investigation`, `Workflow` and `NativeVerification` therefore take one transition for one step.
`Investigation` covers `WorkflowService.run` up to `BASELINE_REPRODUCED`, where `Workflow`
begins. `ProcessRunner` establishes that `run` does not report a command as exited
that it tried to end, and what it reports otherwise; `ContainerBackend` uses an outcome
of it as `exited` or `timed_out`. `Workflow` and `Investigation` have a container as one
value, whose details are `ContainerBackend`. In `Workflow` and `NativeVerification` a
capture is one step that takes what is in the workspace or refuses it, and an
application one that happens or not: `PatchCapture` and `PatchApply` are the details.
`CommandOracle` extends `ProcessRunner`, so that what is judged is what the runner returns.
`GitClient` establishes what `PatchApply` uses, that a git command ends with its call, with
two exceptions: a controller that is killed, and the interruption named in 6.

## 3. The modules and the code

`PROJECT.json` maps each definition to its lines. What follows is what those lines do
not say.

### EvidenceLog, EvidenceChain

`EvidenceLog` is what a run's evidence promises: a log that grows by whole events,
that an interrupted write may seal for good, and of which an observer sees the whole.
`EvidenceChain` is `EvidenceWriter.append` and `verify_event_chain` system call by
system call: `Acquire`, `Open` (read, verify, build the line), `WriteLine` or
`WritePart`, `Sync`, `Replace`, `Return`; a process may die or fail between any two
(`Abandon`). `ReadEvents`, `ReadCheckpoint` and `Accept`, `Retry` or `Refuse` are the
snapshots of a reader, who holds no lock. `PowerLoss` keeps at least the lines that
were flushed and one of the checkpoints in `durable`. `view`, `published`, `acked` and
`contended` are history.

A hash stands for what it commits to, which is SHA-256 without collisions. Verification
of the JSON of a line, its size and its time is the definition of a complete line.

Assumed of the file system: `fsync` of a new file also makes its name durable; a
power failure takes back a suffix of what was not flushed, and it may drop a torn line
as a whole; a rename is atomic and durable after `fsync` of the directory.

### RunStates, RunLifecycle, RunCoordinator

`RunStates` is the table. `RunLifecycle` is the promise: a run is created once and then
makes valid transitions. `RunCoordinator` has the three stores of a run (directory,
evidence, index row) and processes that call `create_run`, `transition` and
`append_event`, each call from `Begin` (lock) to `Finish` (unlock), with `Fail` between
any two steps. An append either commits or fails, and then it may seal the log, which is
`EvidenceLog` and nothing more. A checkpoint in place whose directory was not flushed, by this
call or one that gave up before, is `unflushed`: a power failure may take it back and seal the
log. SQLite runs with WAL and `synchronous=NORMAL`, so
`PowerLoss` brings back any row that was not checkpointed (`saved`). All runs belong to one
repository, so all calls contend for one lock; with several repositories there would be
less of it. `list_runs` reads directory after directory without a lock.

### PatchRun, Workflow

`PatchRun` is the promise of a run once its baseline is reproduced: a patch is captured once
for an attempt, and never after a receipt; one that passed is verified; one receipt is bound,
of what the run has become; the branch is made for the verified patch that the receipt names,
and no other. It knows no processes, locks or files. `Phase`, `Held` and `Bound` map the
state, the patch directory and the receipt files to it: the patch that a run holds is what its
files and its evidence agree on, so that a file moved or written too early breaks the promise.

In `Workflow`, a process runs a workflow (`resume`, under the lease), or one of the commands `abort`,
`clean` and `apply`. `at[p]` is where it is; each place is the gap between two effects
other processes can see. `run` after its investigation does what `resume` does from
`BASELINE_REPRODUCED`, so the model starts there and has `resume` only. `seen` is the
state that a process has read earlier and still goes by; `tip` is the set of processes
whose reading of the last event hash is still current. A patch is the number of the
attempt whose clone it comes from, which is what tells a stale patch from the right one.

There are no setup commands, as `WorkflowPlan` refuses them (workflow.py:166-176). Left
out: regressions (one oracle stands for the fixed expectation and
all of them, as all have to pass); `retain_workspaces`; what prompts, logs and records
contain; reads of the evidence that fail, other than as an error anywhere (`Raise`,
`Abandon`).

`container` has the container of each workflow, and that of `Nobody`, which has lost its
workflow: a kill leaves it running (`Abandon`), and so does a docker that will not stop it,
which the handler of a failure ignores (workflow.py:487, `Lost`). The next sweep that docker
carries out removes it; until then it may write to the workspace that
`resume --capture-surviving-patch` captures, `clean` removes workspaces under it, as it looks
for no containers, and it may hold the name a resumed oracle asks for (`Launched`). What it
writes is no more than what any agent may have left in the clone, which `PatchCapture` takes as
any; but `CleanSparesContainers` is about the containers of workflows, and not about it.

### ChildPipes, ProcessRunner

`ChildPipes` is external: a leader and its descendants, who hold the writing ends of two
pipes and the reading end of a third, if there is an input, and write, read, fork, close,
exit, and die of SIGTERM or of a signal of somebody else, or ignore it. `ProcessRunner` is
`ProcessRunner.run`: the polling loop, termination at the deadline or on cancellation,
the grace period, the forced kill, the joins and closes; the two threads of `_drain_pipe`
with their `OutputBudget`; and the thread of `_start_stdin_writer`. A thread holds the lock
of its pipe's buffer while it reads or writes, and `close` needs that lock. The loop's poll
and its decision are one place, but the decision does not ask whether the command still
runs: it may have ended since.

Left out: redaction, Windows, descendants that leave the process group,
and exact times: a deadline may fire at any moment and a limited wait may end at its
limit. An interruption comes once, and not in the `finally` clause.

### CommandOracle

`evaluate` and the matchers as functions of what `run` has returned, for every expectation
of one matcher for the exit code and one for a text. A text is the unit of output with
which it is complete, so that a text that was cut off is told from one that never came.
`VerdictIsEarned` compares the verdict with what the command did, in the state of the
pipes, and not with the outcome. Left out: several matchers of a kind (they are conjoined),
and what a regular expression means; one may fail for being overtaxed.

### GitClient

`GitClient._execute_bounded`, which runs every git command, without its arguments and its
environment. It does not use `ProcessRunner`, but drains and closes its pipes in the same way,
so that the module takes those steps from there and has its own for what differs: each stream
has a limit of its own, and to exceed it is an error of the call; stdout may go to a file,
which may be full (`TargetFails`); git is killed at its deadline and never asked; an
interruption kills nothing (`GitInterrupted`). `client` says whose call a behaviour is.
A reader that ends with an error empties its pipe no more, so that git, if it writes on, is
blocked until its deadline. Git is taken to keep its output open until it ends; what it
forks (hooks, filters) may close it or keep it. Input is a file, of which the client
knows nothing.

### PatchApply

`PatchService.apply_verified` on the original repository. `Begin` stands for the checks
before the lock; then each git command is one step: `CheckClean` and `CheckHead`
(`assert_matches`, which asks for the status first), `CheckApplies`, `CheckCollision`,
`CreateBranch`, `ApplyPatch`, `StagePatch`, `Record`, and on failure `Examine`,
`RestoreBranch`, `RemoveBranch` (`_restore_branch_if_clean`). `GiveUp` is a check that does not
hold, an error or a kill at any place; a git command may also fail in the middle of what it
does (`ApplyFails`, the second disjuncts of `CreateBranch` and `StagePatch`). The user edits,
commits, switches and deletes branches between any two steps. Git itself is external:
a commit is its tree and the user's commits in its past, `git switch` carries changes along
or refuses, `git branch -D` does not look at what is lost.

`disturbed`, `commits` and `hasty` are history: whether the user acted since the holder of
the lock began to look, how many commits there are, and which of them were trusted to the
branch of an apply that was under way. Assumed: a git command ends with its controller, the
user does nothing within a git command, and the bytes of `patch.diff` stay what they were
when they were verified. All runs have the same baseline.

### PathPolicy, PatchCapture

`PathPolicy` has the policy twice: as the code has it, a pattern translated to a regular
expression character by character (`Compiled`) that has to match the text of a path
(`FullMatch`), and as what it means, segment by segment (`Globs`). `PatchCapture` is
`capture_binary_patch` from `git add` on: git's report with any pairing of deleted and added
files as renames, the parser of `--name-status -z`, the limit on files, the policy, the
modes of the staged objects, the patch. Git is asked for the modes by the paths of the changes
(git/diff.py:316-317), which it takes for pathspecs: `Listings` is what it may answer, and a
path that begins with a colon may make it leave out any file. Every state begins with a choice
of what the agent left in the clone; the rest is a function of it and of git's answers. Left out:
the limits on bytes and lines (a number against a limit), the integrity of the clone before the
capture, and paths and patterns that the code rejects as not canonical; names have no newlines.

### BaselineGate, Investigation

`BaselineGate` is the promise of docs/architecture.md: one contract is submitted, the
controller judges that contract, and only if it passed is the baseline reproduced.
`Investigation` is `InvestigationService.investigate` from `PREFLIGHT` on, with its two
levels of exception handling (`Refuse`, `Catch`, `Reject` in the investigation; `Raise`,
`HandleFailure`, `HandlerGivesUp`, `MoveToError`, `Sweep` in the workflow), an agent that
writes its output directory in any order, an abort and a clean by another process, a
kill at any step, and one change of the stored contract or its assets by something else.

An event and the transition next to it are one step, and so are the files written
next to each other. A contract also stands for the assets that match its hashes. A busy
operation lock is one of the errors of `Refuse` and `Raise`. `resume` is in `Workflow`.

### PatchVerdict, NativeVerification

`PatchVerdict` is the promise: the failure is observed without the patch, one patch is
captured, every required oracle passes on what it is meant for, and only then it is verified.
`NativeVerification` is `VerificationService.verify_patch` step by step, with `CommandOracle`
as its oracle, against `abort`, `resume` and `clean` of another process. No lease keeps those
away: `resume` of a native run finds no protected checkpoint, and its handler moves the run
to ERROR and removes the workspaces. `Raise` is an error or a crash anywhere; nobody handles
it. `tip` tells whether the event hash that `_finish` has read is still the last one. Once,
something else may change the candidate, the stored contract or `patch.diff`; twice in a row
it could show a candidate to `git apply` that the two hashes around it do not see.

The command of an oracle is reduced to its result, which the timeout and the output limit
may decide, and to what it leaves in its workspace, which may be any tree: native commands
are no sandbox (docs/security.md:130-131), and the fixed reproduction and all regressions run
in one writable workspace (verification.py:261-281), which nothing compares in between. `ran`
is history, what each oracle found and what it left, and `Meant` is what it was meant to find:
the baseline, the bound patch, or what the required oracle before it left of that. So the
properties promise of the fix that it ran on the captured patch, and of the regressions no
more than that nothing but the oracles before them changed it.
`apply` of a verified run is in `Workflow`.

### ContainerBackend

`DockerBackend.run` with its `except` and `finally` clauses, `terminate`, `cleanup`, and
`terminate_run`, which both the controller (after a failure) and an `abort` execute.
Each docker command is one step; `place[p]` is the next command of a process and
`found[p]` the identifier it got from the last inspection. Between commands, containers
exit, are removed by the daemon (`--rm`) or by the other process. A command may fail
with or without effect (`Mishap`). A container of somebody else may have the name that
an execution needs. `KillController` leaves the container behind.

The controller is single-threaded and runs any executions of the run one after the
other, again and again, so that `Execution` covers the resumed ones too: a resumed
execution has the identifier, and so the name, of the one it repeats. `doctor` is
reduced to healthy or not, image resolution and the environment file are left out.
Assumed of docker: names are unique; a client that was killed, or whose controller was,
makes no container after that.

## 4. Runs

Twelve runs. States are distinct states, times are for two workers on a small machine.

| Run | Instance | States | Shows |
|---|---|---|---|
| `evidence_chain` | 2 writers, 1 reader, 2 kinds of events, chains up to 3, 3 snapshot attempts | 266,842, 55 s | acknowledged and accepted events survive, the checkpoint is never ahead, damage fails closed, quiet reads succeed, reads end, `EvidenceLog` is implemented |
| `coordinator` | 2 controllers, 2 runs, targets PREFLIGHT and ABORTED, 3 events | 230,988, 188 s | evidence derives a state, index never ahead and reconciled, `RunLifecycle` and `EvidenceLog` are implemented |
| `workflow` | 2 processes, 2 attempts | 384,222, 170 s | a verified run has the patch that passed, checkpoints load, `PatchRun` is implemented (each patch captured once, one receipt, which ends the attempts), only authorised patches are applied, no workspace is removed under the container of a workflow, commands end |
| `process_runner` (`MCGitClient`) | a call of the runner or of the git client; 1 descendant, pipes of 1, reads of 2, a budget of 2, a limit of 1 for each stream of git; no input and 3 units to stdout and 1 to stderr, or an input of 2 and 1 unit to stdout | 320,772, 54 s | outcomes are whole and honest, the command is never kept waiting, oracles judge all that it wrote, git is over with its call, calls end once the pipes are released |
| `investigation` | 2 contracts | 76,614, 4 s | the gate, complete checkpoints, no container left, unexpected errors end the run |
| `native_verification` | 2 patches, 2 regressions | 3,151,410, 67 s | VERIFIED needs the failure, the fix on the captured patch and every regression on what the oracles before it left, a receipt that verifies is true and backs the outcome |
| `container_backend` | 2 executions, 2 containers, any of them of somebody else | 1,900,242, 55 s | a result means the container is gone; three mishaps to leave one; abort removes what it listed; others' containers are untouched |
| `patch_apply` | 2 processes, 2 runs with a file each, one of them staged, 1 commit of the user | 1,662,094, 61 s | what is recorded as applied is what was verified, patches do not mix, the user's edits and commits survive |
| `patch_capture` | 4 files in every state, 395 policies with one or two allowed and at most one denied pattern, at most 2 changed files | 618,726, 9 s | the list of git is read as it was written, a captured patch is in scope, and of files unless a path begins with a colon, a denied one is not in scope |
| `receipt_race` | as `workflow` | | violated, see 6 |
| `process_timeout` | as `process_runner` | | violated, see 6 |
| `container_conflict` | 1 execution, 2 containers | | violated, see 6 |

Why the bounds are enough:

- Two processes are what two locks and one run can tell apart: a third would meet the
  same lock taken. The proofs remove the bound.
- Three events let one append follow an acknowledged one and precede another; three is
  also the code's `SNAPSHOT_ATTEMPTS`, so a reader can meet a different append in
  every snapshot. In `RunCoordinator` PREFLIGHT is valid from CREATED only and ABORTED
  from both, so that two competing transitions may both be valid, or the second not.
- Two attempts are one retry: everything that a second retry would find on disk, the
  first finds too. The safety of the workflow is proved for any number.
- In `ProcessRunner` the pipes hold less than a process writes, a read asks for more
  than a pipe holds, and stdout exceeds the budget alone or
  with stderr, by enough for a read after the one that is cut: every way to block, to read
  short and to be cut off occurs, and in git to stay within the limit or exceed it. A command with an
  input need write one unit more than is read to block on both sides.
- Two runs that change a file each are two patches that both apply to the baseline, also
  one after the other; one commit of the user is one to lose. The proofs remove both bounds.
- The files of `patch_capture` are what patterns tell apart: an existing one that is called
  as a status letter is, one deeper down whose path begins with a colon, one in a directory of
  ProofPatch; the patterns are
  all of up to two segments and some of three.
- Two contracts, or patches, are enough to take one for another; two regressions to tell
  "all" from the first and the last; two containers for a leftover
  or foreign one next to one's own. `mishaps` counts to three because that is what the
  property tells apart. Containers are interchangeable and no liveness is checked there,
  so `container_backend` uses symmetry.

Deadlock is checked in every run except those of `ProcessRunner`, `GitClient`, `PatchApply` and
`PatchCapture`: a call ends, and the processes it left, or the user, need not do anything.

Type invariants are in no run of their own right: each module's is proved, as the first
theorem about it or, for `PatchCapture`, as part of the inductive invariant.

`PROJECT.json` has for every property of every passing run a mutant, a change of one
mapped definition as a plausible bug would make it (`SkipSync`, `RecheckNothing`,
`LockUnchecked`, ...), which makes TLC find the property violated.

## 5. Fairness

- `EvidenceChain`, `RunCoordinator`: a call that has begun is scheduled until it ends. No
  call has to begin, and no crash has to happen.
- `Workflow`: a command that has begun goes on or raises; nothing in it waits for a lock,
  and the backend bounds each container by a timeout (weak fairness of the next step).
- `ProcessRunner`, `GitClient`: the deadline of a command that still runs passes in the end, and the
  threads of the controller are scheduled. The command itself owes nothing: it may run,
  block, leave its input or ignore signals for ever.
- `Investigation`, `NativeVerification`, `ContainerBackend`, `PatchApply`, `PatchCapture` and
  `CommandOracle` have no liveness properties of their own and no fairness.

## 6. Where code and documents disagree

Each is a run that TLC ends with a counterexample; `PROJECT.json` quotes both sides.

1. `receipt_race`: `_finish` reads the last event hash without a lock. An event that
   `abort` or `clean` appends before `receipt.created` makes the receipt name the wrong
   decision, and it never verifies.
2. `process_timeout`: a descendant that holds a pipe open keeps `ProcessRunner.run` from
   returning, whatever the deadline: `close` waits for the lock of the blocked reader.
   The git client closes its pipes in the same way.
3. `container_conflict`: a container that a killed controller left has the name that the
   resumed execution needs; `docker run` fails with 125, and 125 counts as the exit
   code of the oracle. A good patch is rejected, or an oracle that expects "not 0" is met.

Reachable in the models, and stated by no property here:

- An interruption while a clone is prepared leaves the run in PATCH_PREPARING, which
  neither `resume` nor `abort` nor `clean` accepts (`Raise` in `Workflow`);
  docs/decisions/0006-terminal-failure-transitions.md:11-12 keeps the checkpoint "so the
  explicit resume or abort command remains possible".
- A final verification that is interrupted after its oracle's log directory was made finds
  that directory in its way when it is resumed, and the run ends in ERROR
  (docs/architecture.md:153-154: "incomplete final verification is quarantined and
  recreated").
- The user may act between the checks of `apply` and its effects: then APPLIED may stand for
  something other than baseline and patch, which `RecordedIsApplied` excepts with `disturbed`
  (docs/architecture.md:61-63 names a clean tree and a matching HEAD as requirements).
- A commit that the user makes on the branch of a failing `apply` before it removes
  that branch is on no branch any more (`hasty`): `git branch -D` does not look.
- The restoration goes to the branch of the snapshot, wherever it is by then;
  `assert_matches` compares the commit of HEAD and not its branch.
- `git switch -c` is outside of the `try`: if it dies after it made the branch, the branch
  stays, and a later apply of the run meets it as a collision. A kill between `git apply` and
  the transition leaves a VERIFIED run whose patch is in the tree, and apply refuses it.

- An interrupted `git` may go on after its call: nothing kills it, and if it has written to
  both streams, both pipes may be closed between two reads (`GitInterrupted`).
- All three snapshots of a reader can fall into one slow append; it then reports
  corruption of a healthy run (`Refuse` in `EvidenceChain`), which
  docs/architecture.md:40-41 excludes.
- `list_runs` fails as a whole on one half-made or sealed run (`ListFail` in
  `RunCoordinator`), although coordinator.py:249 speaks of every valid run.
- `resume` acts on a state that it read before it had the lease: a run that was
  BASELINE_REPRODUCED and has been rejected since, without a record, is retried, which
  ADR 0005 excludes.
- VERIFIED without a receipt (a crash in between) is final: every command wants a
  receipt that verifies.
- `abort` stops the containers first and records ABORTED later; an agent that starts in
  between goes on in an aborted run. `CleanSparesContainers` excepts aborted runs.
- A container whose controller was killed, or that docker would not stop, runs on: `resume`
  from a baseline sweeps nothing, and neither it nor `clean` looks for it (`Lost` in
  `Workflow`). `CleanSparesContainers` excepts it.
- The paths that an agent chose are given to `git ls-files` as pathspecs. Next to one that
  begins with a colon, a patch may bring in something other than files (`Listings` in
  `PatchCapture`); `VerdictIsScope` excepts such patches.
- An oracle of a native run may change the tree that the next ones judge (`EndOracle` in
  `NativeVerification`).
- BASELINE_NOT_REPRODUCED leads to REJECTED only; an error or a kill between the two
  transitions leaves the run there for good. `UnexpectedErrorsEnd` excepts that state.
- An error the controller expects leaves a run where it was, also in a state that no
  command accepts (BASELINE_PREPARING, for one).
- When docker is unavailable, the handler of a failure raises `DockerUnavailableError`,
  which it does not suppress, before it moves the run to ERROR (`HandlerGivesUp` in
  `Investigation`).
- `verify_patch` has no handler for failures: an error leaves a native run where it is
  (`Raise` in `NativeVerification`). In BASELINE_PREPARING, PATCH_PREPARING and a few more
  neither `abort` nor `clean` accepts it; only `resume`, which cannot load it, moves it to
  ERROR. `resume` does so with a run that is being verified, too, and removes its
  workspaces, as `verify_patch` takes no lease.
- A busy operation lock while the candidate is captured rejects it with
  PP_PATCH_APPLY_FAILED although it applies (`RefuseCandidate`).
- Clones of a run may be made after an abort and a clean, and stay.
- `docker kill` of a container that has just exited, or `docker rm` of one that the
  daemon is removing, is an error of the backend although nothing is wrong
  (`Confirm`, `Settle` in `ContainerBackend`).

## 7. Proofs

The modules named `..._proofs` hold for all values of the constants, under the assumptions
named in the modules they are about: `EvidenceAssumption` (at least one snapshot attempt;
the values for "free" and "absent" are not among the others), `CoordinatorAssumption`
(targets are states), `WorkflowAssumption` (at least one attempt; "free" is no process and
"absent" no receipt), `InvestigationAssumption` and `NativeAssumption` ("absent" is no
contract, and no patch, and there is a natural number of regressions),
`ContainerAssumption` ("none" is no container), `ApplyAssumption` (patches change
files of the repository, and branches, contents and the absence of a run are told apart),
`PipesAssumption`, `RunnerAssumption`, `OracleAssumption` and `GitAssumption` (a pipe and a
read take at least one unit, limits are positive, and exit codes are natural numbers, to which
Python adds the negative ones of signals; the configuration admits no other limits),
`PathAssumption` (what the translation writes for stars is not taken for a character of a
name), and `CaptureAssumption` (finitely many files, whose paths are canonical, and policies of
patterns that are; `_normalized_git_path` and `_normalized_policy_path` reject all others).
Nothing is assumed that is not checked by TLC on every run, and no step is left out.
Each module follows one line: an inductive invariant `IInv`, a conjunction of named parts,
one lemma per part with one case per action or two, and the theorems from it.

**Evidence store.** `IInv == TypeOK /\ StageInv /\ Linked /\ DurableInv /\ ReaderInv`.
`CheckpointNeverAhead` and its neighbours are not inductive. `StageInv` says what each
stage of `append` has established (only the holder of the lock is past `idle`; the
line is last in the file, then flushed, before the checkpoint names it). `Linked` says
that every line links to all before it, so that what verifies is what was written.
`DurableInv` says that every checkpoint that may be found after a power failure was
published, that all that was published is flushed, and that what was acknowledged is in
each of them. `ReaderInv` carries what a reader holds from its reading of the checkpoint
to its verdict. One lemma per kind of step (`WriterIInv`, `ReaderIInv`, `PowerLossIInv`)
shows that `IInv` is preserved; the safety properties follow from it, and with it
every step is one of `EvidenceLog` or a stutter (`Implements`). `QuietReads` needs one thing
more: by `QuietInv`, a call that no change of the files has overlapped has read what they still
hold, and no append is under way. Files that agree verify (`AgreeingVerify`, from `LinksVerify`:
each line links to the hash of the lines before it, as verification computes it), so that such a
call refuses only what an interruption damaged, or what nothing has been published of.
`ReadsAreBounded` is the part of `ReadersReturn` that needs no fairness: `ReadsLeft(r)`, three
for each attempt that is left and the rest of the one under way, falls with every step of the
call, a retry included, and rises with no append, no other reader and no crash.

**Coordinator.** `IInv == TypeOK /\ EvidenceInv /\ CallsInv /\ IndexesInv`. `EvidenceInv`
says that a committed chain begins with its creation and that each transition starts
from the state derived before it; `CallsInv` that the holder of the lock has seen the
current state and what it may still do; `IndexesInv` that each row, also one that a
power failure may bring back, is the record of a prefix. From it follow `TypeOK`,
`EvidenceStaysDerivable`, `IndexNeverAhead`, `SuccessReconcilesIndex`, and that every step
implements `RunLifecycle` and, per run, `EvidenceLog`.

**Workflow.** `IInv == TypeOK /\ LockInv /\ AttemptInv /\ StateInv /\ PatchInv /\ ReceiptInv /\
ContainerInv`. `LockInv` says that whoever works or handles a failure holds the lease, and
whoever is inside a clone, a capture, a cleanup or an apply the operation lock; all else
rests on it, because it is why one process at a time changes the patch. `StateInv` says
which states a call can still meet, as other commands may have aborted or cleaned the run
since: an agent meets PATCHING or a stopped run, an oracle FINAL_VERIFYING or a stopped
run, an archive a rejected run, an apply past its lock VERIFIED. `PatchInv` carries the
patch from its capture over the fresh clone to the oracles; `VerifiedPatchPassed` and
`CheckpointsLoad` are parts of it, and neither is inductive without the archive being held
to rejected runs. `ReceiptInv` says that a receipt about to be bound is the first and that
the receipt an apply has checked, before it took the lock, still names the patch while the
run is VERIFIED. `ContainerInv` says where the container of a workflow may run. The theorems
are `TypeCorrect`, `VerifiedPassed`, `CheckpointsLoadable`, `ReceiptBoundOnce`, and for steps
`Authorised` and `ContainersSpared`.

The refinement needs more: `RunInv == IInv /\ NumberInv /\ CaptureInv /\ StageInv /\ SpentInv /\
BindInv /\ BranchInv`. A resume goes by a state it read before it had the lease, and takes the
clone that clone.json names; `NumberInv` says that where it gets as far as a capture, this is
the clone of the attempt after those on record. `CaptureInv` then says that nothing has been
captured of that attempt before: if it has, patch.diff is still there and refuses another.
`SpentInv` is why a receipt ends the attempts: a rejected run that has one has no attempt left,
or still has a clone.json, which the next clone would have to create; so the run may get back to
PATCH_PREPARING, by a resume that is late enough, but not to PATCHING. `BindInv` says that the
status in a receipt about to be bound is still that of the run, as nobody can clean or apply it
before it is. `RunImplemented`: every step is one of `PatchRun` or a stutter.

`CommandsAreBounded` is the part of `CommandOfSomeoneEnds` that needs no fairness.
`StepsLeft(p)` counts forty for each attempt not yet on record, the steps from where the
command is to its next attempt or to its end, and the files an archive has still to move. Every
step of a command makes it smaller, and no step of another command makes it larger: an attempt
another resume puts on record is one less to make, and `LockInv` keeps the files of an archive
under way from everyone else. So a command that goes on ends after at most
`40 * (MaxAttempts + 1)` steps of its own; that it goes on is what `Fairness` adds, and TLC
checks.

**Investigation.** `IInv == TypeOK /\ StateInv /\ ContractInv /\ FilesInv /\
CheckpointComplete /\ ContainerInv /\ ErrorInv`. `ContractInv` follows one contract through
the places of the call: validated and stored, bound, mounted, judged; it gives the refinement.
`FilesInv` says what each place has added to files and events, which makes
`CheckpointComplete` inductive; `StateInv` that the checks meet no state but their own or that
of a stopped run, so that BASELINE_REPRODUCED comes from "decide" alone. `ContainerInv`
says that a container is waited for or about to be stopped, `ErrorInv` that an error
in flight is on its way out and that a hard one has ended the run. The theorems are
`TypeCorrect`, `CheckpointIsComplete`, `ContainersEnd`, `ErrorsEndRuns` and
`GateImplemented`: every step is one of `BaselineGate` or a stutter.

**Native verification.** `IInv == TypeOK /\ StateInv /\ PlaceInv /\ ResultInv /\ CandidateInv /\
DecisionInv /\ ReceiptInv`. `PlaceInv` says what is bound and what is in the workspace in
each part of the call; `ResultInv` that the oracles are executed in order, each on what it is
meant for, and recorded before the next. `CandidateInv` is what the hash is compared for:
the file may have been changed before it was applied or after, but as something changes it at
most once, a file that still has its hash when it is compared had it when it was applied.
`DecisionInv` says what a verified and a rejected run rest on, `ReceiptInv` that the
receipt repeats it. The theorems are `TypeCorrect`, `ReceiptTrue`, `OutcomeBacked` and
`VerdictImplemented`: every step is one of `PatchVerdict` or a stutter.

**Docker backend.** `IInv == TypeOK /\ DaemonInv /\ PlaceInv /\ FoundInv /\ MishapInv /\
ReturnInv /\ AbortInv`. `DaemonInv` says that names are unique among the containers that
exist, which is the daemon's one promise, and that those of somebody else run on. `FoundInv`
says that a command is only ever about a container with the labels of the run and, in a call
of `run`, that nothing else has the name of its execution; `ReturnInv`, the end of that call,
follows. `MishapInv` counts: it says for each place what a container that still runs there has
cost, one mishap where a stop has failed, two where the kill has failed too, one more in the
handler, which makes three where `run` gives up. `AbortInv` divides what abort has listed into
what is gone, what is in hand and what is still to be looked at. The theorems are
`TypeCorrect`, `ConfirmedGone`, `TwoMishaps`, `AbortStops` and, for steps, `ForeignSafe`.

**Application.** `IInv == TypeOK /\ LockInv /\ QuietInv /\ HeadInv /\ BranchInv /\
CommitsReachable`. `LockInv` says that the holder of the lock is the one process past it and
that its run is VERIFIED. `QuietInv` is the chain of what each question to git has
established, place by place, as long as the user has not acted: `RecordedIsApplied` is its
last link, and is not inductive without the others. `HeadInv` says that HEAD is on a branch
that exists. `BranchInv` says that whatever the branch of an apply under way has in its past
is `hasty` or on another branch, which is what allows `git branch -D`: without it
`CommitsReachable` is not inductive. The theorems are `TypeCorrect`, `Recorded`, `Reachable`,
`NoMix` and `EditsSurvive`; the last two are action properties, which follow from `IInv` at
each kind of step.

**Runner, oracles and git client.** `Git_proofs` proves them together, as a call of either
client: `IInv` is `RunnerInv` in one of the runner and `GitInv` in one of the git client.
`FlowInv` accounts for every unit of each stream: retained, in a reader's hand, in the pipe, or
lost where the mark says so, and a reader is done only when its pipe is empty and nobody holds
it. `BudgetInv` is what makes the budget of two threads one: what remains and what is kept are
always the whole, and as long as nothing is marked as cut nothing is missing; once it is, the
budget is used up. `WriterInv` says that the writer ends only with all written or nobody there
to read it, `LeaderInv` and `CallInv` that a call reports when the command is over and asked it
to end only for a reason. In a call of git, `GitFlowInv` adds that a reader which has not failed
has lost nothing, and `GitCallInv` at which places git may still run. None of
`OutcomeIsWhole`, `VerdictIsEarned` and `GitIsOver` is inductive without the accounts of
`FlowInv`. The theorems are `ClientTypeCorrect`, `OutcomesAreWhole` (and `RunnerIsWhole`, for
the runner alone), `VerdictsAreEarned`, `GitCallsAreOver` and `CommandsAreServed`.
The last is `CommandNeverWaits` without ENABLED: `CommandIsServed` asks for the guard of the
step that drains the pipe at which the command waits, or feeds the one it reads.

**Path policy.** `MatchesAsMeant`: for any pattern and path, over any characters, the regular
expression that the code writes and what the pattern means say the same. The code's side works
on characters, its meaning on segments. `TextLayout` says where each segment of a path lies in
its text. `MatchWalks` turns the match into a walk along the text of the pattern, in which a set
of positions in the text of the path is carried from one atom to the next; the lemmas `Leaves...`
say where each atom leads from a position within a segment, and `AtomInName`, `AtomAtSlash` and
`AtomAtTwoStars` which atom the translation has there, for which a segment may not hold two
stars beside other characters. `NameWalk` carries the set through one segment of the pattern, in
step with `NameGlobs`; `AlignedThroughout` from segment to segment, in step with `Globs`: where
the pattern's next segment starts, the positions reached are the starts of just the segments that
`Globs` has reached. `AtTheEnd` and the cases of the last atom finish it. `PolicyAsMeant`
follows for `validate_changed_paths`.

The functions that are compared are recursive. As a theorem with an operator for a parameter
cannot be cited, induction is over sets of numbers (`SetInduction`, from the well-foundedness of
the natural numbers), and that a recursive function exists, which is what its `CHOOSE` needs,
is proved for steps that are functions themselves (`ForwardRecursion`, `BackwardRecursion`).
What is proved this way is what the recursion computes for every input, not only small ones.

**Capture.** `ParsesBack` says that the parser makes of the list that git writes the very
changes it was written from, for all of them: it goes through the list backwards, in step with
the places where each change's tokens start. `ReportTypes` and `ReportPaths` say that, however
git pairs files as renamed, the changes name the files that have changed and no others, and
that each that is not a file is named by one that is not a deletion, so that git lists it unless
some path begins with a colon. `CaptureInv` says what each
verdict rests on: what was reported and written, what was read, and which tests it has passed.
It is inductive because of `ParsesBack`; `ListsAreRead` and `PatchesAreInScope` follow, the
latter with `PolicyAsMeant`.

**Only model-checked.** Liveness (`ReadersReturn`, `CommandOfSomeoneEnds`, `CallsReturn`) and
`CommandNeverWaits`, which speaks of ENABLED, are out of the prover's reach; the latter is
proved in its form with guards, and of the first two that a call or a command has only so many
steps to take (`ReadsAreBounded`, `CommandsAreBounded`). What a pattern with two stars beside
other characters in a segment means is the code's alone, so that nothing is proved of it.

## 8. Not modelled

- Repository discovery is its question and its answer in `PatchApply`; what git does is modelled
  where it matters, in `PatchApply` and `PatchCapture`. The arguments and the environment of
  git commands are not modelled.
- Agent templates, path, mount, secret and workspace checks: predicates without a state that
  changes, whose results are choices in the models.
- Configuration, policy files, initialisation and diagnostics: validation and reporting.
- Similarity of attempts, fingerprints and redaction: pure functions over texts, whose
  results no modelled step depends on.
- The command line and the GitHub output: parsing and printing.

Of the parts modelled in part, `PROJECT.json` says what is left out.
