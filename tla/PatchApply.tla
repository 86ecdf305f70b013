----------------------------- MODULE PatchApply -----------------------------
(***************************************************************************)
(* The apply command (services/patching.py: apply_verified) on the one     *)
(* thing it shares with people: the original repository.  Under the        *)
(* operation lock of the repository it looks whether the tree is clean and *)
(* HEAD is the baseline, whether the patch applies and its branch is free; *)
(* then it makes the branch, applies the patch, stages it on request and   *)
(* records APPLIED.  When the patch fails it goes back, if the tree is     *)
(* clean, and removes its branch.                                          *)
(*                                                                         *)
(* Each git command is one step.  The user, whom no lock keeps out, edits, *)
(* commits, switches and deletes branches in between; a git command may    *)
(* fail with or without effect, and apply may be killed anywhere.  Several *)
(* runs with the same baseline may be applied, by several processes.       *)
(*                                                                         *)
(* Git is external (git/client.py runs it): a commit is its tree and the   *)
(* user's commits in its past; a file has a content, which is all that the *)
(* patches and the user tell apart.                                        *)
(***************************************************************************)
EXTENDS Naturals, FiniteSets, Functions

CONSTANTS
  Process,     \* the apply commands that may run at a time
  Run,         \* the verified runs of the repository; each names its branch
  File,        \* the files of the repository
  Touches,     \* the files that the patch of a run changes
  Staged,      \* the runs whose apply is asked to stage the patch
  MaxCommits,  \* bound: how many commits the user makes
  Main,        \* the user's own branch
  Detached,    \* HEAD is on no branch
  NoRun

ASSUME ApplyAssumption ==
  /\ Touches \in [Run -> SUBSET File]
  /\ Staged \subseteq Run
  /\ MaxCommits \in Nat
  /\ Main \notin Run /\ Detached \notin Run \union {Main} /\ NoRun \notin Run
  /\ Run \cap {"base", "user"} = {}

Branch == Run \union {Main}
Content == Run \union {"base", "user"}
Tree == [File -> Content]
Commit == [tree: Tree, past: SUBSET (1 .. MaxCommits)]

Baseline == [tree |-> [f \in File |-> "base"], past |-> {}]

VARIABLES
  \* The original repository.
  head,       \* the branch HEAD is on, or Detached, which is at the baseline
  refs,       \* the commit of each branch
  work,       \* the working tree
  index,      \* the staged tree
  \* The evidence of the runs and the operation lock.
  state,      \* the state of each run
  holder,     \* the process that holds the lock, as the set of it
  \* The apply commands.
  origin,     \* the branch, or Detached, in the snapshot of the runs
  place,      \* what a process does next
  run,        \* the run it applies
  \* History.
  commits,    \* how many commits the user has made
  hasty,      \* those trusted to the branch of an apply that was under way
  disturbed   \* the user has acted since the holder began to look

repository == <<head, refs, work, index>>
records == <<state, origin>>
history == <<commits, hasty>>
vars == <<repository, records, holder, place, run, history, disturbed>>

Init ==
  /\ head \in {Main, Detached}
  /\ refs = [b \in {Main} |-> Baseline]
  /\ work = Baseline.tree
  /\ index = Baseline.tree
  /\ state = [r \in Run |-> "VERIFIED"]
  /\ holder = {}
  /\ origin = head
  /\ place = [p \in Process |-> "idle"]
  /\ run = [p \in Process |-> NoRun]
  /\ commits = 0
  /\ hasty = {}
  /\ disturbed = FALSE
-----------------------------------------------------------------------------
(* What git tells of the repository, and what it does to it.               *)

HeadCommit == IF head = Detached THEN Baseline ELSE refs[head]
IsClean == work = HeadCommit.tree /\ index = HeadCommit.tree
Exists(b) == b \in DOMAIN refs

\* git apply --check: it looks at the working tree only.
Applies(r) == \A f \in Touches[r] : work[f] = "base"
Patched(tree, r, files) == [f \in File |-> IF f \in files THEN r ELSE tree[f]]

\* git switch refuses to touch a file with changes, and keeps the others' changes.
CommitOf(target) == IF target = Detached THEN Baseline ELSE refs[target]
Moves(target) == {f \in File : CommitOf(target).tree[f] # HeadCommit.tree[f]}
MaySwitch(target) ==
  /\ target = Detached \/ Exists(target)
  /\ \A f \in Moves(target) : work[f] = HeadCommit.tree[f] /\ index[f] = work[f]
SwitchTo(target) ==
  LET Carry(tree) ==
        [f \in File |-> IF f \in Moves(target) THEN CommitOf(target).tree[f] ELSE tree[f]]
  IN  /\ MaySwitch(target)
      /\ head' = target
      /\ work' = Carry(work)
      /\ index' = Carry(index)
      /\ UNCHANGED refs

\* git switch -c: the branch begins where HEAD is.
StartBranch(b) == ~ Exists(b) /\ refs' = [x \in DOMAIN refs \union {b} |->
                                            IF x = b THEN HeadCommit ELSE refs[x]]
DropBranch(b) ==
  /\ Exists(b)
  /\ head # b
  /\ refs' = Restrict(refs, DOMAIN refs \ {b})
  /\ UNCHANGED <<head, work, index>>
-----------------------------------------------------------------------------
(* apply_verified: one action for each git command.                        *)

At(p, here) == place[p] = here
GoTo(p, there) ==
  /\ place' = [place EXCEPT ![p] = there]
  /\ UNCHANGED <<holder, run, disturbed>>
Leave(p) ==
  /\ place' = [place EXCEPT ![p] = "idle"]
  /\ holder' = holder \ {p}
  /\ run' = [run EXCEPT ![p] = NoRun]
  /\ disturbed' = (disturbed /\ p \notin holder)

\* The checks before the lock: the run is VERIFIED and its receipt and patch are too.
Begin(p, r) ==
  /\ At(p, "idle")
  /\ state[r] = "VERIFIED"
  /\ run' = [run EXCEPT ![p] = r]
  /\ place' = [place EXCEPT ![p] = "lock"]
  /\ UNCHANGED <<repository, records, holder, history, disturbed>>

\* Mutant: the lock is one of the run and not of the repository.
LockRun(p) ==
  /\ At(p, "lock")
  /\ \A q \in holder : run[q] # run[p]
  /\ holder' = holder \union {p}
  /\ place' = [place EXCEPT ![p] = "clean"]
  /\ disturbed' = FALSE
  /\ UNCHANGED <<repository, records, run, history>>

\* Under the lock the state is read again.  A lock that is held is an error (GiveUp).
Lock(p) ==
  /\ At(p, "lock")
  /\ holder = {}
  /\ state[run[p]] = "VERIFIED"
  /\ holder' = {p}
  /\ place' = [place EXCEPT ![p] = "clean"]
  /\ disturbed' = FALSE
  /\ UNCHANGED <<repository, records, run, history>>

\* A question to git, and where the answer leads.
Ask(p, here, answer, there) ==
  /\ At(p, here)
  /\ answer
  /\ GoTo(p, there)
  /\ UNCHANGED <<repository, records, history>>

\* assert_matches discovers the repository again, which asks for its status first,
\* and compares the commit of HEAD with that of the snapshot, not the branch.
\* Mutant: any commit will do.
HeadUnchecked(p) == Ask(p, "head", TRUE, "check")
CheckClean(p) == Ask(p, "clean", IsClean, "head")
CheckHead(p) == Ask(p, "head", HeadCommit = Baseline, "check")
CheckApplies(p) == Ask(p, "check", Applies(run[p]), "collide")

\* Mutant: a branch that exists is taken for one to be removed.
CollideRestoring(p) ==
  Ask(p, "collide", TRUE, IF Exists(run[p]) THEN "restore" ELSE "branch")
CheckCollision(p) == Ask(p, "collide", ~ Exists(run[p]), "branch")

\* git switch -c, outside of the try block.  It may die with the branch made and HEAD
\* not moved; when it dies later, GiveUp follows.
CreateBranch(p) ==
  /\ At(p, "branch")
  /\ StartBranch(run[p])
  /\ \/ head' = run[p] /\ GoTo(p, "patch")
     \/ head' = head /\ Leave(p)
  /\ UNCHANGED <<work, index, records, history>>

\* git apply writes file by file, once it has found that all of the patch applies.
ApplyPatch(p) ==
  /\ At(p, "patch")
  /\ Applies(run[p])
  /\ work' = Patched(work, run[p], Touches[run[p]])
  /\ GoTo(p, IF run[p] \in Staged THEN "stage" ELSE "record")
  /\ UNCHANGED <<head, refs, index, records, history>>

\* It fails before, within or after that, with the process or without.
ApplyFails(p) ==
  /\ At(p, "patch")
  /\ \E files \in SUBSET Touches[run[p]] :
       /\ files # {} => Applies(run[p])
       /\ work' = Patched(work, run[p], files)
  /\ GoTo(p, "examine") \/ Leave(p)
  /\ UNCHANGED <<head, refs, index, records, history>>

\* git add -A takes all there is, done or not when it fails.
StagePatch(p) ==
  /\ At(p, "stage")
  /\ \/ index' = work /\ GoTo(p, "record")
     \/ index' \in {index, work} /\ GoTo(p, "examine")
  /\ UNCHANGED <<head, refs, work, records, history>>

\* The transition to APPLIED.
Record(p) ==
  /\ At(p, "record")
  /\ state' = [state EXCEPT ![run[p]] = "APPLIED"]
  /\ Leave(p)
  /\ UNCHANGED <<repository, origin, history>>
-----------------------------------------------------------------------------
(* _restore_branch_if_clean, after a failed application.                   *)

Examine(p) == Ask(p, "examine", IsClean, "restore")

\* Mutant: git switch --discard-changes.
RestoreForced(p) ==
  LET target == origin
  IN  /\ At(p, "restore")
      /\ target = Detached \/ Exists(target)
      /\ head' = target
      /\ work' = CommitOf(target).tree
      /\ index' = CommitOf(target).tree
      /\ GoTo(p, "remove")
      /\ UNCHANGED <<refs, records, history>>

\* Back to the branch of the snapshot, wherever that is by now.
RestoreBranch(p) ==
  /\ At(p, "restore")
  /\ SwitchTo(origin)
  /\ GoTo(p, "remove")
  /\ UNCHANGED <<records, history>>

RemoveBranch(p) ==
  /\ At(p, "remove")
  /\ DropBranch(run[p])
  /\ Leave(p)
  /\ UNCHANGED <<records, history>>

\* A check that does not hold, an error nobody handles, or a kill.  What a git command
\* did before it died has been done by its action.
GiveUp(p) ==
  /\ ~ At(p, "idle")
  /\ Leave(p)
  /\ UNCHANGED <<repository, records, history>>
-----------------------------------------------------------------------------
(* The user.                                                               *)

Disturb == disturbed' = (holder # {})
UnderWay(b) == \E p \in holder : run[p] = b

Edit(f) ==
  /\ work[f] # "user"
  /\ work' = [work EXCEPT ![f] = "user"]
  /\ Disturb
  /\ UNCHANGED <<head, refs, index, records, holder, place, run, history>>

\* git commit -a, on a branch.
CommitAll ==
  /\ commits < MaxCommits
  /\ head # Detached
  /\ work # HeadCommit.tree
  /\ commits' = commits + 1
  /\ refs' = [refs EXCEPT ![head] = [tree |-> work, past |-> @.past \union {commits + 1}]]
  /\ index' = work
  /\ hasty' = hasty \union (IF UnderWay(head) THEN {commits + 1} ELSE {})
  /\ Disturb
  /\ UNCHANGED <<head, work, records, holder, place, run>>

Switch(target) ==
  /\ head # target
  /\ SwitchTo(target)
  /\ Disturb
  /\ UNCHANGED <<records, holder, place, run, history>>

\* git branch -d: only a branch that HEAD includes.
Delete(r) ==
  /\ Exists(r)
  /\ refs[r].past \subseteq HeadCommit.past
  /\ DropBranch(r)
  /\ hasty' = hasty \union (IF UnderWay(head) THEN refs[r].past ELSE {})
  /\ Disturb
  /\ UNCHANGED <<records, holder, place, run, commits>>

Applying(p) ==
  \/ Lock(p) \/ CheckClean(p) \/ CheckHead(p) \/ CheckApplies(p) \/ CheckCollision(p)
  \/ CreateBranch(p) \/ ApplyPatch(p) \/ ApplyFails(p) \/ StagePatch(p) \/ Record(p)
  \/ Examine(p) \/ RestoreBranch(p) \/ RemoveBranch(p) \/ GiveUp(p)

User ==
  \/ \E f \in File : Edit(f)
  \/ CommitAll
  \/ \E target \in Branch \union {Detached} : Switch(target)
  \/ \E r \in Run : Delete(r)

Next ==
  \/ \E p \in Process : Applying(p) \/ \E r \in Run : Begin(p, r)
  \/ User

Spec == Init /\ [][Next]_vars
-----------------------------------------------------------------------------
(* Properties.                                                             *)

Place == {"idle", "lock", "clean", "head", "check", "collide", "branch", "patch", "stage",
          "record", "examine", "restore", "remove"}

TypeOK ==
  /\ head \in Branch \union {Detached}
  /\ DOMAIN refs \subseteq Branch /\ \A b \in DOMAIN refs : refs[b] \in Commit
  /\ work \in Tree /\ index \in Tree
  /\ state \in [Run -> {"VERIFIED", "APPLIED"}]
  /\ holder \in SUBSET Process
  /\ origin \in {Main, Detached}
  /\ place \in [Process -> Place]
  /\ run \in [Process -> Run \union {NoRun}]
  /\ commits \in 0 .. MaxCommits
  /\ hasty \subseteq 1 .. MaxCommits
  /\ disturbed \in BOOLEAN

(* What is about to be recorded as applied is what was verified: as long as the     *)
(* user let the repository be since apply looked at it, HEAD is on the new branch   *)
(* at the baseline, the tree is the baseline with the patch and nothing else, the   *)
(* patch is staged if and only if that was asked for, and the run is VERIFIED.      *)
RecordedIsApplied ==
  \A p \in Process : At(p, "record") /\ ~ disturbed =>
    /\ head = run[p] /\ HeadCommit = Baseline
    /\ work = Patched(Baseline.tree, run[p], Touches[run[p]])
    /\ index = (IF run[p] \in Staged THEN work ELSE Baseline.tree)
    /\ state[run[p]] = "VERIFIED"

(* No apply, successful, failed or killed, adds its patch to a tree that has the    *)
(* patch of another run in it, unless the user acted while it worked.               *)
PatchesDoNotMix ==
  [][\A r \in Run : r \in Range(work') \ Range(work) /\ head' = head /\ ~ disturbed
       => Range(work') \subseteq {"base", r}]_vars

(* Whatever apply does, finished or not, an edit of the user stays in the working   *)
(* tree, or is in the commit of a branch.                                           *)
UserEditsSurvive ==
  [][\A f \in File : work[f] = "user" =>
       \/ work'[f] = "user"
       \/ \E b \in DOMAIN refs' : refs'[b].tree[f] = "user"]_vars

(* Every commit of the user stays on a branch, also when it is on the branch of an  *)
(* earlier apply; only one trusted to that of an apply under way may be lost.       *)
CommitsReachable ==
  \A c \in 1 .. commits : c \in hasty \/ \E b \in DOMAIN refs : c \in refs[b].past
=============================================================================
