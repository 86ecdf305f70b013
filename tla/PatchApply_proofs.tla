-------------------------- MODULE PatchApply_proofs --------------------------
(***************************************************************************)
(* The properties of PatchApply for any processes, runs, files and patches *)
(* and any number of commits.                                              *)
(***************************************************************************)
EXTENDS PatchApply, TLAPS

USE ApplyAssumption

(* One process at a time is past the lock, and the run it applies is VERIFIED. *)
LockInv ==
  /\ \A p, q \in holder : p = q
  /\ \A p \in Process : p \in holder <=> place[p] \notin {"idle", "lock"}
  /\ \A p \in Process : run[p] \in Run <=> place[p] # "idle"
  /\ \A p \in holder : state[run[p]] = "VERIFIED"

(* What the holder of the lock has established at each place, as long as the user  *)
(* has not acted.                                                                  *)
OnNewBranch(p) == head = run[p] /\ HeadCommit = Baseline
PatchInWork(p) == work = Patched(Baseline.tree, run[p], Touches[run[p]])

Established(p) ==
  /\ place[p] = "head" => IsClean
  /\ place[p] \in {"check", "collide", "branch"} => IsClean /\ HeadCommit = Baseline
  /\ place[p] = "patch" =>
       OnNewBranch(p) /\ work = Baseline.tree /\ index = Baseline.tree
  /\ place[p] = "stage" =>
       OnNewBranch(p) /\ PatchInWork(p) /\ index = Baseline.tree /\ run[p] \in Staged
  /\ place[p] = "record" =>
       /\ OnNewBranch(p)
       /\ PatchInWork(p)
       /\ index = (IF run[p] \in Staged THEN work ELSE Baseline.tree)

QuietInv == ~ disturbed => \A p \in holder : Established(p)

(* HEAD is on a branch that exists, and what the branch of an apply under way has  *)
(* of the user is hasty or on another branch.                                      *)
HeadInv == head = Detached \/ head \in DOMAIN refs

Branched == {"patch", "stage", "record", "examine", "restore", "remove"}

Elsewhere(c, b) == c \in hasty \/ \E x \in DOMAIN refs \ {b} : c \in refs[x].past

BranchInv ==
  \A p \in holder : place[p] \in Branched /\ run[p] \in DOMAIN refs =>
    \A c \in refs[run[p]].past : Elsewhere(c, run[p])

IInv == TypeOK /\ LockInv /\ QuietInv /\ HeadInv /\ BranchInv /\ CommitsReachable
-----------------------------------------------------------------------------
(* Lemmas about what git does.                                             *)

\* A commit is a tree and commits of the user.
LEMMA CommitParts ==
  ASSUME NEW c \in Commit
  PROVE  /\ c.tree \in Tree /\ c.past \subseteq 1 .. MaxCommits
         /\ c = [tree |-> c.tree, past |-> c.past]
BY DEF Commit

LEMMA BaselineTypes == Baseline \in Commit /\ Baseline.tree \in Tree /\ Baseline.past = {}
BY DEF Baseline, Commit, Tree, Content

LEMMA HeadCommitType ==
  ASSUME TypeOK, HeadInv
  PROVE  HeadCommit \in Commit
BY BaselineTypes DEF TypeOK, HeadInv, HeadCommit

LEMMA PatchedType ==
  ASSUME NEW tree \in Tree, NEW r \in Run, NEW files
  PROVE  Patched(tree, r, files) \in Tree
BY DEF Patched, Tree, Content

\* git switch changes neither the branches nor the types, and leads to a branch.
LEMMA SwitchTypes ==
  ASSUME TypeOK, HeadInv, NEW target \in Branch \union {Detached}, SwitchTo(target)
  PROVE  /\ head' = target /\ refs' = refs
         /\ work' \in Tree /\ index' \in Tree
         /\ HeadInv'
<1>1. CommitOf(target) \in Commit
  BY BaselineTypes DEF SwitchTo, MaySwitch, CommitOf, Exists, TypeOK
<1>2. CommitOf(target).tree \in Tree
  BY <1>1, CommitParts
<1>. QED
  BY <1>2 DEF SwitchTo, MaySwitch, Exists, TypeOK, Tree, HeadInv

\* A switch to where HEAD is changes no file.
LEMMA SwitchToHead ==
  ASSUME TypeOK, SwitchTo(head)
  PROVE  work' = work
<1>1. CommitOf(head) = HeadCommit
  BY DEF CommitOf, HeadCommit
<1>2. Moves(head) = {}
  BY <1>1 DEF Moves
<1>. QED
  BY <1>2 DEF SwitchTo, TypeOK, Tree

\* Removing a branch keeps the others, and HEAD's own.
LEMMA DropTypes ==
  ASSUME TypeOK, HeadInv, NEW b, DropBranch(b)
  PROVE  /\ DOMAIN refs' = DOMAIN refs \ {b}
         /\ \A x \in DOMAIN refs' : refs'[x] = refs[x]
         /\ UNCHANGED <<head, work, index>> /\ head # b
         /\ HeadInv'
BY DEF DropBranch, Restrict, HeadInv
-----------------------------------------------------------------------------
(* Types.                                                                  *)

\* The types hold at first, and HEAD is on a branch.
LEMMA TypeInit == Init => TypeOK /\ HeadInv
<1>. SUFFICES ASSUME Init PROVE TypeOK /\ HeadInv
  OBVIOUS
<1>. USE DEF Init
<1>1. DOMAIN refs = {Main} /\ refs[Main] = Baseline
  OBVIOUS
<1>2. head \in Branch \union {Detached} /\ DOMAIN refs \subseteq Branch /\ HeadInv
  BY <1>1 DEF Branch, HeadInv
<1>3. /\ work \in Tree /\ index \in Tree
      /\ \A b \in DOMAIN refs : refs[b] \in Commit
  BY <1>1, BaselineTypes
<1>4. /\ state \in [Run -> {"VERIFIED", "APPLIED"}]
      /\ place \in [Process -> Place]
      /\ run \in [Process -> Run \union {NoRun}]
  BY DEF Place
<1>5. /\ holder \in SUBSET Process /\ origin \in {Main, Detached}
      /\ hasty \subseteq 1 .. MaxCommits /\ disturbed \in BOOLEAN
  OBVIOUS
<1>6. commits \in 0 .. MaxCommits
  BY DEF ApplyAssumption
<1>. QED
  BY <1>2, <1>3, <1>4, <1>5, <1>6 DEF TypeOK

\* Every step keeps the types, and HEAD on a branch.
LEMMA TypeStep ==
  ASSUME TypeOK, LockInv, HeadInv, [Next]_vars
  PROVE  TypeOK' /\ HeadInv'
<1>1. ASSUME NEW p \in Process, NEW r \in Run, Begin(p, r)
      PROVE  TypeOK' /\ HeadInv'
  BY <1>1 DEF Begin, TypeOK, HeadInv, Place, repository, records, history
<1>2. ASSUME NEW p \in Process, Lock(p)
      PROVE  TypeOK' /\ HeadInv'
  BY <1>2 DEF Lock, TypeOK, HeadInv, Place, repository, records, history
<1>3. ASSUME NEW p \in Process, NEW here, NEW answer, NEW there \in Place,
             Ask(p, here, answer, there)
      PROVE  TypeOK' /\ HeadInv'
  BY <1>3 DEF Ask, GoTo, TypeOK, HeadInv, repository, records, history
<1>4. ASSUME NEW p \in Process,
             \/ CheckClean(p) \/ CheckHead(p) \/ CheckApplies(p)
             \/ CheckCollision(p) \/ Examine(p)
      PROVE  TypeOK' /\ HeadInv'
  BY <1>3, <1>4 DEF CheckClean, CheckHead, CheckApplies, CheckCollision, Examine, Place
<1>5. ASSUME NEW p \in Process, CreateBranch(p)
      PROVE  TypeOK' /\ HeadInv'
  <2>1. run[p] \in Run
    BY <1>5 DEF CreateBranch, At, LockInv
  <2>2. /\ DOMAIN refs' = DOMAIN refs \union {run[p]}
        /\ \A x \in DOMAIN refs' : refs'[x] \in Commit
    BY <1>5, HeadCommitType DEF CreateBranch, StartBranch, TypeOK
  <2>3. HeadInv' /\ head' \in Branch \union {Detached}
    BY <1>5, <2>1, <2>2 DEF CreateBranch, HeadInv, TypeOK, Branch
  <2>4. /\ place' \in [Process -> Place] /\ run' \in [Process -> Run \union {NoRun}]
        /\ holder' \in SUBSET Process /\ disturbed' \in BOOLEAN
    BY <1>5 DEF CreateBranch, GoTo, Leave, TypeOK, Place
  <2>. QED
    BY <1>5, <2>1, <2>2, <2>3, <2>4 DEF CreateBranch, TypeOK, Branch, records, history
<1>6. ASSUME NEW p \in Process, ApplyPatch(p) \/ ApplyFails(p)
      PROVE  TypeOK' /\ HeadInv'
  <2>1. run[p] \in Run
    BY <1>6 DEF ApplyPatch, ApplyFails, At, LockInv
  <2>2. work' \in Tree
    BY <1>6, <2>1, PatchedType DEF ApplyPatch, ApplyFails, TypeOK
  <2>3. /\ place' \in [Process -> Place] /\ run' \in [Process -> Run \union {NoRun}]
        /\ holder' \in SUBSET Process /\ disturbed' \in BOOLEAN
    BY <1>6 DEF ApplyPatch, ApplyFails, GoTo, Leave, TypeOK, Place
  <2>. QED
    BY <1>6, <2>2, <2>3 DEF ApplyPatch, ApplyFails, TypeOK, HeadInv, records, history
<1>7. ASSUME NEW p \in Process, StagePatch(p)
      PROVE  TypeOK' /\ HeadInv'
  BY <1>7 DEF StagePatch, GoTo, TypeOK, HeadInv, Place, records, history
<1>8. ASSUME NEW p \in Process, Record(p)
      PROVE  TypeOK' /\ HeadInv'
  BY <1>8 DEF Record, Leave, TypeOK, HeadInv, Place, repository, history
<1>9. ASSUME NEW p \in Process, RestoreBranch(p)
      PROVE  TypeOK' /\ HeadInv'
  <2>1. SwitchTo(origin) /\ origin \in Branch \union {Detached}
    BY <1>9 DEF RestoreBranch, TypeOK, Branch
  <2>2. /\ head' \in Branch \union {Detached} /\ refs' = refs
        /\ work' \in Tree /\ index' \in Tree
        /\ HeadInv'
    BY <2>1, SwitchTypes
  <2>. QED
    BY <1>9, <2>2 DEF RestoreBranch, GoTo, TypeOK, Place, records, history
<1>10. ASSUME NEW p \in Process, RemoveBranch(p)
       PROVE  TypeOK' /\ HeadInv'
  <2>. DropBranch(run[p])
    BY <1>10 DEF RemoveBranch
  <2>. QED
    BY <1>10, DropTypes DEF RemoveBranch, Leave, TypeOK, Place, records, history
<1>11. ASSUME NEW p \in Process, GiveUp(p)
       PROVE  TypeOK' /\ HeadInv'
  BY <1>11 DEF GiveUp, Leave, TypeOK, HeadInv, Place, repository, records, history
<1>12. ASSUME NEW f \in File, Edit(f)
       PROVE  TypeOK' /\ HeadInv'
  <2>. work' \in Tree
    BY <1>12 DEF Edit, TypeOK, Tree, Content
  <2>. QED
    BY <1>12 DEF Edit, Disturb, TypeOK, HeadInv, records, history
<1>13. CASE CommitAll
  <2>1. head \in DOMAIN refs
    BY <1>13 DEF CommitAll, HeadInv
  <2>2. commits + 1 \in 1 .. MaxCommits
    BY <1>13 DEF CommitAll, TypeOK
  <2>3. [tree |-> work, past |-> refs[head].past \union {commits + 1}] \in Commit
    BY <2>1, <2>2, CommitParts DEF TypeOK, Commit
  <2>4. /\ DOMAIN refs' = DOMAIN refs
        /\ \A x \in DOMAIN refs' : refs'[x] \in Commit
    BY <1>13, <2>3 DEF CommitAll, TypeOK
  <2>5. hasty' \subseteq 1 .. MaxCommits
    BY <1>13, <2>2 DEF CommitAll, TypeOK
  <2>6. commits' \in 0 .. MaxCommits
    BY <1>13, <2>2 DEF CommitAll, TypeOK
  <2>7. work' \in Tree /\ index' \in Tree /\ disturbed' \in BOOLEAN /\ HeadInv'
    BY <1>13, <2>4 DEF CommitAll, Disturb, TypeOK, HeadInv
  <2>. QED
    BY <1>13, <2>4, <2>5, <2>6, <2>7 DEF CommitAll, TypeOK, records
<1>14. ASSUME NEW target \in Branch \union {Detached}, Switch(target)
       PROVE  TypeOK' /\ HeadInv'
  <2>1. /\ head' = target /\ refs' = refs
        /\ work' \in Tree /\ index' \in Tree
        /\ HeadInv'
    BY <1>14, SwitchTypes DEF Switch
  <2>. QED
    BY <1>14, <2>1 DEF Switch, Disturb, TypeOK, records, history
<1>15. ASSUME NEW r \in Run, Delete(r)
       PROVE  TypeOK' /\ HeadInv'
  <2>1. DropBranch(r) /\ refs[r].past \subseteq 1 .. MaxCommits
    BY <1>15, CommitParts DEF Delete, Exists, TypeOK
  <2>. QED
    BY <1>15, <2>1, DropTypes DEF Delete, Disturb, TypeOK, records
<1>16. CASE UNCHANGED vars
  BY <1>16 DEF vars, repository, records, history, TypeOK, HeadInv
<1>17. ASSUME NEW p \in Process, Applying(p)
       PROVE  TypeOK' /\ HeadInv'
  BY <1>2, <1>4, <1>5, <1>6, <1>7, <1>8, <1>9, <1>10, <1>11, <1>17 DEF Applying
<1>18. CASE User
  BY <1>12, <1>13, <1>14, <1>15, <1>18 DEF User
<1>. QED
  BY <1>1, <1>16, <1>17, <1>18 DEF Next
-----------------------------------------------------------------------------
(* The operation lock.                                                     *)

\* Who is past the lock holds it, and alone.
LEMMA Alone ==
  ASSUME TypeOK, LockInv, NEW p \in Process, place[p] \notin {"idle", "lock"}
  PROVE  holder = {p} /\ run[p] \in Run /\ state[run[p]] = "VERIFIED"
<1>1. p \in holder /\ \A q \in holder : q = p
  BY DEF LockInv
<1>2. holder = {p}
  BY <1>1
<1>. QED
  BY <1>1, <1>2 DEF LockInv

\* Going on to another place keeps the lock.
LEMMA GoToKeepsLock ==
  ASSUME TypeOK, LockInv, NEW p \in Process, place[p] \notin {"idle", "lock"},
         NEW there \in Place \ {"idle", "lock"}, GoTo(p, there), UNCHANGED state
  PROVE  LockInv'
<1>1. /\ \A q \in Process \ {p} : place'[q] = place[q]
      /\ place'[p] = there
      /\ UNCHANGED <<holder, run>>
  BY DEF GoTo, TypeOK
<1>. QED
  BY <1>1 DEF LockInv

\* Leaving gives the lock up.
LEMMA LeaveGivesUp ==
  ASSUME TypeOK, LockInv, NEW p \in Process, Leave(p),
         \A q \in holder \ {p} : state'[run[q]] = state[run[q]]
  PROVE  LockInv' /\ holder' = holder \ {p}
<1>1. /\ \A q \in Process \ {p} : place'[q] = place[q] /\ run'[q] = run[q]
      /\ place'[p] = "idle" /\ run'[p] = NoRun
      /\ holder' = holder \ {p}
  BY DEF Leave, TypeOK
<1>2. holder \subseteq Process
  BY DEF TypeOK
<1>3. \A q \in holder' : state'[run'[q]] = "VERIFIED"
  BY <1>1, <1>2 DEF LockInv
<1>. QED
  BY <1>1, <1>2, <1>3 DEF LockInv, ApplyAssumption

\* No process holds the lock at first.
LEMMA LockInit == Init => LockInv
BY DEF Init, LockInv, ApplyAssumption

\* Every step keeps the lock with one process, and its run VERIFIED.
LEMMA LockStep ==
  ASSUME TypeOK, LockInv, [Next]_vars
  PROVE  LockInv'
<1>1. ASSUME NEW p \in Process, NEW r \in Run, Begin(p, r)
      PROVE  LockInv'
  <2>1. /\ \A q \in Process \ {p} : place'[q] = place[q] /\ run'[q] = run[q]
        /\ place'[p] = "lock" /\ run'[p] = r /\ place[p] = "idle"
        /\ UNCHANGED <<holder, state>>
    BY <1>1 DEF Begin, At, TypeOK, records
  <2>2. holder \subseteq Process /\ p \notin holder
    BY <2>1 DEF LockInv, TypeOK
  <2>. QED
    BY <2>1, <2>2 DEF LockInv
<1>2. ASSUME NEW p \in Process, Lock(p)
      PROVE  LockInv'
  <2>1. /\ \A q \in Process \ {p} : place'[q] = place[q]
        /\ place'[p] = "clean" /\ place[p] = "lock"
        /\ holder = {} /\ holder' = {p}
        /\ UNCHANGED <<run, state>> /\ state[run[p]] = "VERIFIED"
    BY <1>2 DEF Lock, At, TypeOK, records
  <2>. QED
    BY <2>1 DEF LockInv
<1>3. ASSUME NEW p \in Process, NEW here \in Place \ {"idle", "lock"}, NEW answer,
             NEW there \in Place \ {"idle", "lock"}, Ask(p, here, answer, there)
      PROVE  LockInv'
  BY <1>3, GoToKeepsLock DEF Ask, At, records
<1>4. ASSUME NEW p \in Process,
             \/ CheckClean(p) \/ CheckHead(p) \/ CheckApplies(p)
             \/ CheckCollision(p) \/ Examine(p)
      PROVE  LockInv'
  BY <1>3, <1>4 DEF CheckClean, CheckHead, CheckApplies, CheckCollision, Examine, Place
<1>5. ASSUME NEW p \in Process,
             \/ CreateBranch(p) \/ ApplyPatch(p) \/ ApplyFails(p) \/ StagePatch(p)
             \/ RestoreBranch(p) \/ RemoveBranch(p)
      PROVE  LockInv'
  <2>1. place[p] \notin {"idle", "lock"} /\ UNCHANGED state
    BY <1>5 DEF CreateBranch, ApplyPatch, ApplyFails, StagePatch, RestoreBranch,
                RemoveBranch, At, records
  <2>2. \/ \E there \in Place \ {"idle", "lock"} : GoTo(p, there)
        \/ Leave(p)
    BY <1>5 DEF CreateBranch, ApplyPatch, ApplyFails, StagePatch, RestoreBranch,
                RemoveBranch, Place
  <2>. QED
    BY <2>1, <2>2, GoToKeepsLock, LeaveGivesUp
<1>6. ASSUME NEW p \in Process, Record(p)
      PROVE  LockInv'
  <2>1. holder = {p}
    BY <1>6, Alone DEF Record, At
  <2>. QED
    BY <1>6, <2>1, LeaveGivesUp DEF Record
<1>7. ASSUME NEW p \in Process, GiveUp(p)
      PROVE  LockInv'
  BY <1>7, LeaveGivesUp DEF GiveUp, records
<1>8. CASE User
  <2>. UNCHANGED <<holder, place, run, state>>
    BY <1>8 DEF User, Edit, CommitAll, Switch, Delete, records
  <2>. QED
    BY DEF LockInv
<1>9. CASE UNCHANGED vars
  BY <1>9 DEF vars, records, LockInv
<1>10. ASSUME NEW p \in Process, Applying(p)
       PROVE  LockInv'
  BY <1>2, <1>4, <1>5, <1>6, <1>7, <1>10 DEF Applying
<1>. QED
  BY <1>1, <1>8, <1>9, <1>10 DEF Next
-----------------------------------------------------------------------------
(* What the holder of the lock has established.                            *)

\* A process that leaves was the only one that held the lock, if it did.
LEMMA LeaveIsLast ==
  ASSUME TypeOK, LockInv, NEW p \in Process, place[p] \notin {"idle", "lock"}, Leave(p)
  PROVE  holder' = {}
BY Alone DEF Leave

\* A patch changes the files it touches and no other.
LEMMA PatchedParts ==
  ASSUME NEW r, NEW files
  PROVE  Patched(Baseline.tree, r, files) \in [File -> {"base", r}]
BY DEF Patched, Baseline

\* There is no holder at first.
LEMMA QuietInit == Init => QuietInv
BY DEF Init, QuietInv

\* Every check and git command of apply establishes what the next place says.
LEMMA QuietStep ==
  ASSUME TypeOK, LockInv, QuietInv, HeadInv, [Next]_vars
  PROVE  QuietInv'
<1>. SUFFICES ASSUME ~ disturbed', NEW h \in holder'
              PROVE  Established(h)'
  BY DEF QuietInv
<1>1. ASSUME NEW p \in Process, NEW r \in Run, Begin(p, r)
      PROVE  Established(h)'
  <2>1. h \in holder /\ h # p /\ Established(h)
    BY <1>1 DEF Begin, At, LockInv, QuietInv, TypeOK
  <2>2. place'[h] = place[h] /\ run'[h] = run[h] /\ UNCHANGED repository
    BY <1>1, <2>1 DEF Begin, TypeOK
  <2>. QED
    BY <2>1, <2>2 DEF Established, OnNewBranch, PatchInWork, IsClean, HeadCommit, repository
<1>2. ASSUME NEW p \in Process, Lock(p)
      PROVE  Established(h)'
  <2>. h = p /\ place'[p] = "clean"
    BY <1>2 DEF Lock, TypeOK
  <2>. QED
    BY DEF Established
<1>3. ASSUME NEW p \in Process, place[p] \notin {"idle", "lock"}, Leave(p)
      PROVE  FALSE
  BY <1>3, LeaveIsLast
<1>4. ASSUME NEW p \in Process, place[p] \notin {"idle", "lock"},
             NEW there \in Place, GoTo(p, there)
      PROVE  h = p /\ Established(p) /\ place'[p] = there /\ UNCHANGED run
  <2>1. holder = {p} /\ holder' = holder /\ ~ disturbed
    BY <1>4, Alone DEF GoTo
  <2>. QED
    BY <1>4, <2>1 DEF GoTo, TypeOK, QuietInv
<1>5. ASSUME NEW p \in Process,
             \/ CheckClean(p) \/ CheckHead(p) \/ CheckApplies(p)
             \/ CheckCollision(p) \/ Examine(p)
      PROVE  Established(h)'
  <2>1. ASSUME NEW here \in Place \ {"idle", "lock"}, NEW answer, NEW there \in Place,
               Ask(p, here, answer, there)
        PROVE  /\ h = p /\ Established(p) /\ place[p] = here /\ place'[p] = there
               /\ answer /\ UNCHANGED <<repository, run>>
    BY <2>1, <1>4 DEF Ask, At
  <2>2. CASE CheckClean(p)
    BY <2>1, <2>2 DEF CheckClean, Place, Established, IsClean, HeadCommit, repository
  <2>3. CASE CheckHead(p)
    BY <2>1, <2>3 DEF CheckHead, Place, Established, IsClean, HeadCommit, repository
  <2>4. CASE CheckApplies(p)
    BY <2>1, <2>4 DEF CheckApplies, Place, Established, IsClean, HeadCommit, repository
  <2>5. CASE CheckCollision(p)
    BY <2>1, <2>5 DEF CheckCollision, Place, Established, IsClean, HeadCommit, repository
  <2>6. CASE Examine(p)
    BY <2>1, <2>6 DEF Examine, Place, Established
  <2>. QED
    BY <1>5, <2>2, <2>3, <2>4, <2>5, <2>6
<1>6. ASSUME NEW p \in Process, CreateBranch(p)
      PROVE  Established(h)'
  <2>1. head' = run[p] /\ GoTo(p, "patch")
    BY <1>3, <1>6 DEF CreateBranch, At
  <2>2. h = p /\ Established(p) /\ place'[p] = "patch" /\ run' = run
    BY <1>4, <1>6, <2>1 DEF CreateBranch, At, Place
  <2>3. IsClean /\ HeadCommit = Baseline
    BY <1>6, <2>2 DEF CreateBranch, At, Established
  <2>4. run[p] # Detached /\ refs'[run[p]] = HeadCommit
    BY <1>6, Alone DEF CreateBranch, At, StartBranch, ApplyAssumption
  <2>. QED
    BY <1>6, <2>1, <2>2, <2>3, <2>4
    DEF CreateBranch, Established, OnNewBranch, IsClean, HeadCommit
<1>7. ASSUME NEW p \in Process, ApplyPatch(p)
      PROVE  Established(h)'
  <2>1. h = p /\ Established(p) /\ run' = run
        /\ place'[p] = IF run[p] \in Staged THEN "stage" ELSE "record"
    BY <1>4, <1>7 DEF ApplyPatch, At, Place
  <2>2. OnNewBranch(p) /\ work = Baseline.tree /\ index = Baseline.tree
    BY <1>7, <2>1 DEF ApplyPatch, At, Established
  <2>3. OnNewBranch(p)' /\ PatchInWork(p)' /\ index' = Baseline.tree
    BY <1>7, <2>1, <2>2 DEF ApplyPatch, OnNewBranch, PatchInWork, HeadCommit
  <2>. QED
    BY <2>1, <2>3 DEF Established
<1>8. ASSUME NEW p \in Process, ApplyFails(p)
      PROVE  Established(h)'
  BY <1>3, <1>4, <1>8 DEF ApplyFails, At, Place, Established
<1>9. ASSUME NEW p \in Process, StagePatch(p)
      PROVE  Established(h)'
  <2>1. h = p /\ Established(p) /\ run' = run
        /\ \/ place'[p] = "record" /\ index' = work
           \/ place'[p] = "examine"
    BY <1>4, <1>9 DEF StagePatch, At, Place
  <2>2. OnNewBranch(p) /\ PatchInWork(p) /\ run[p] \in Staged
    BY <1>9, <2>1 DEF StagePatch, At, Established
  <2>3. OnNewBranch(p)' /\ PatchInWork(p)' /\ work' = work
    BY <1>9, <2>1, <2>2 DEF StagePatch, OnNewBranch, PatchInWork, HeadCommit
  <2>. QED
    BY <2>1, <2>2, <2>3 DEF Established
<1>10. ASSUME NEW p \in Process, RestoreBranch(p)
       PROVE  Established(h)'
  BY <1>4, <1>10 DEF RestoreBranch, At, Place, Established
<1>11. ASSUME NEW p \in Process, Record(p) \/ RemoveBranch(p)
       PROVE  Established(h)'
  BY <1>3, <1>11 DEF Record, RemoveBranch, At
<1>12. ASSUME NEW p \in Process, GiveUp(p)
       PROVE  Established(h)'
  <2>. place[p] = "lock"
    BY <1>3, <1>12 DEF GiveUp, At
  <2>1. h \in holder /\ h # p /\ ~ disturbed
    BY <1>12 DEF GiveUp, Leave, LockInv
  <2>2. place'[h] = place[h] /\ run'[h] = run[h] /\ UNCHANGED repository
    BY <1>12, <2>1 DEF GiveUp, Leave, TypeOK
  <2>3. Established(h)
    BY <2>1 DEF QuietInv
  <2>. QED
    BY <2>2, <2>3 DEF Established, OnNewBranch, PatchInWork, IsClean, HeadCommit, repository
<1>13. CASE User
  <2>. disturbed' = (holder # {}) /\ holder' = holder
    BY <1>13 DEF User, Edit, CommitAll, Switch, Delete, Disturb
  <2>. QED
    OBVIOUS
<1>14. CASE UNCHANGED vars
  BY <1>14 DEF vars, repository, QuietInv, Established, OnNewBranch, PatchInWork, IsClean,
               HeadCommit
<1>15. ASSUME NEW p \in Process, Applying(p)
       PROVE  Established(h)'
  BY <1>2, <1>5, <1>6, <1>7, <1>8, <1>9, <1>10, <1>11, <1>12, <1>15 DEF Applying
<1>. QED
  BY <1>1, <1>13, <1>14, <1>15 DEF Next
-----------------------------------------------------------------------------
(* Where the commits of the user are.                                      *)

\* No apply is under way at first.
LEMMA BranchInit == Init => BranchInv
BY DEF Init, BranchInv

\* An action that leaves the branches alone, and no process at a later place.
LEMMA BranchesKept ==
  ASSUME BranchInv, UNCHANGED <<refs, hasty>>,
         \A p \in holder' : /\ p \in holder /\ run'[p] = run[p]
                            /\ place'[p] \in Branched => place[p] \in Branched
  PROVE  BranchInv'
BY DEF BranchInv, Elsewhere

\* HEAD has no commit of the user unless it is on a branch.
LEMMA HeadIsBranch ==
  ASSUME HeadInv, NEW c \in HeadCommit.past
  PROVE  head \in DOMAIN refs /\ HeadCommit = refs[head]
BY BaselineTypes DEF HeadInv, HeadCommit

\* Every step leaves what the branch of an apply holds of the user elsewhere too.
LEMMA BranchStep ==
  ASSUME TypeOK, LockInv, HeadInv, BranchInv, [Next]_vars
  PROVE  BranchInv'
<1>1. ASSUME NEW p \in Process, NEW r \in Run, Begin(p, r)
      PROVE  BranchInv'
  <2>1. \A q \in holder' : q \in holder /\ q # p
    BY <1>1 DEF Begin, At, LockInv, TypeOK
  <2>. QED
    BY <1>1, <2>1, BranchesKept DEF Begin, TypeOK, repository, history
<1>2. ASSUME NEW p \in Process, Lock(p)
      PROVE  BranchInv'
  <2>. holder' = {p} /\ place'[p] = "clean"
    BY <1>2 DEF Lock, TypeOK
  <2>. QED
    BY DEF BranchInv, Branched
<1>3. ASSUME NEW p \in Process, place[p] \notin {"idle", "lock"}, Leave(p)
      PROVE  BranchInv'
  BY <1>3, LeaveIsLast DEF BranchInv
<1>4. ASSUME NEW p \in Process, place[p] \in Branched, NEW there, GoTo(p, there),
             UNCHANGED <<refs, hasty>>
      PROVE  BranchInv'
  BY <1>4, BranchesKept DEF GoTo, TypeOK
<1>5. ASSUME NEW p \in Process, NEW here, NEW answer, NEW there, there \notin Branched,
             Ask(p, here, answer, there)
      PROVE  BranchInv'
  BY <1>5, BranchesKept DEF Ask, GoTo, TypeOK, repository, history
<1>6. ASSUME NEW p \in Process,
             CheckClean(p) \/ CheckHead(p) \/ CheckApplies(p) \/ CheckCollision(p)
      PROVE  BranchInv'
  BY <1>5, <1>6 DEF CheckClean, CheckHead, CheckApplies, CheckCollision, Branched
<1>7. ASSUME NEW p \in Process,
             Examine(p) \/ ApplyPatch(p) \/ ApplyFails(p) \/ StagePatch(p) \/ RestoreBranch(p)
      PROVE  BranchInv'
  <2>1. place[p] \in Branched /\ UNCHANGED <<refs, hasty>>
    BY <1>7 DEF Examine, Ask, ApplyPatch, ApplyFails, StagePatch, RestoreBranch, SwitchTo,
                At, Branched, repository, history
  <2>2. place[p] \notin {"idle", "lock"}
    BY <2>1 DEF Branched
  <2>3. Leave(p) \/ \E there : GoTo(p, there)
    BY <1>7 DEF Examine, Ask, ApplyPatch, ApplyFails, StagePatch, RestoreBranch
  <2>. QED
    BY <1>3, <1>4, <2>1, <2>2, <2>3
<1>8. ASSUME NEW p \in Process, CreateBranch(p)
      PROVE  BranchInv'
  <2>1. CASE Leave(p)
    BY <1>3, <1>8, <2>1 DEF CreateBranch, At
  <2>2. CASE GoTo(p, "patch")
    <3>1. holder' = {p} /\ run' = run /\ hasty' = hasty
      BY <1>8, <2>2, Alone DEF CreateBranch, At, GoTo, history
    <3>2. /\ run[p] \notin DOMAIN refs
          /\ DOMAIN refs \subseteq DOMAIN refs' /\ refs'[run[p]] = HeadCommit
          /\ \A x \in DOMAIN refs : refs'[x] = refs[x]
      BY <1>8 DEF CreateBranch, StartBranch, Exists
    <3>3. ASSUME NEW c \in refs'[run[p]].past
          PROVE  Elsewhere(c, run[p])'
      <4>1. head \in DOMAIN refs /\ c \in refs[head].past
        BY <3>2, <3>3, HeadIsBranch
      <4>. QED
        BY <3>1, <3>2, <4>1 DEF Elsewhere
    <3>. QED
      BY <3>1, <3>3 DEF BranchInv
  <2>. QED
    BY <1>8, <2>1, <2>2 DEF CreateBranch
<1>9. ASSUME NEW p \in Process, Record(p) \/ RemoveBranch(p)
      PROVE  BranchInv'
  BY <1>3, <1>9 DEF Record, RemoveBranch, At
<1>10. ASSUME NEW p \in Process, GiveUp(p)
       PROVE  BranchInv'
  BY <1>10, BranchesKept DEF GiveUp, Leave, TypeOK, repository, history
<1>11. ASSUME (\E f \in File : Edit(f)) \/ \E target : Switch(target)
       PROVE  BranchInv'
  BY <1>11, BranchesKept DEF Edit, Switch, SwitchTo, history
<1>12. CASE CommitAll
  <2>1. /\ head \in DOMAIN refs /\ DOMAIN refs' = DOMAIN refs
        /\ \A x \in DOMAIN refs : refs[x].past \subseteq refs'[x].past
        /\ \A x \in DOMAIN refs \ {head} : refs'[x] = refs[x]
        /\ refs'[head].past = refs[head].past \union {commits + 1}
    BY <1>12 DEF CommitAll, HeadInv
  <2>2. UNCHANGED <<holder, place, run>> /\ hasty \subseteq hasty'
    BY <1>12 DEF CommitAll
  <2>3. ASSUME NEW p \in holder, run[p] = head
        PROVE  commits + 1 \in hasty'
    BY <1>12, <2>3 DEF CommitAll, UnderWay
  <2>. QED
    BY <2>1, <2>2, <2>3 DEF BranchInv, Elsewhere
<1>13. ASSUME NEW r \in Run, Delete(r)
       PROVE  BranchInv'
  <2>1. /\ DOMAIN refs' = DOMAIN refs \ {r} /\ \A x \in DOMAIN refs' : refs'[x] = refs[x]
        /\ head # r /\ refs[r].past \subseteq HeadCommit.past
        /\ UNCHANGED <<holder, place, run>> /\ hasty \subseteq hasty'
    BY <1>13, DropTypes DEF Delete
  <2>. SUFFICES ASSUME NEW p \in holder, place[p] \in Branched, run[p] \in DOMAIN refs',
                       NEW c \in refs[run[p]].past, c \notin hasty'
                PROVE  \E x \in DOMAIN refs' \ {run[p]} : c \in refs'[x].past
    BY <2>1 DEF BranchInv, Elsewhere
  <2>2. PICK x \in DOMAIN refs \ {run[p]} : c \in refs[x].past
    BY <2>1 DEF BranchInv, Elsewhere
  <2>3. CASE x = r
    <3>1. head \in DOMAIN refs /\ c \in refs[head].past
      BY <2>1, <2>2, <2>3, HeadIsBranch
    <3>2. head # run[p]
      BY <1>13, <2>2, <2>3 DEF Delete, UnderWay
    <3>. QED
      BY <2>1, <3>1, <3>2
  <2>. QED
    BY <2>1, <2>2, <2>3
<1>14. CASE UNCHANGED vars
  BY <1>14, BranchesKept DEF vars, repository, history
<1>15. ASSUME NEW p \in Process, Applying(p)
       PROVE  BranchInv'
  BY <1>2, <1>6, <1>7, <1>8, <1>9, <1>10, <1>15 DEF Applying
<1>16. CASE User
  BY <1>11, <1>12, <1>13, <1>16 DEF User
<1>. QED
  BY <1>1, <1>14, <1>15, <1>16 DEF Next

\* The user has no commit at first.
LEMMA CommitsInit == Init => CommitsReachable
BY DEF Init, CommitsReachable

\* Every step leaves each commit of the user on a branch, or it is a hasty one.
LEMMA CommitsStep ==
  ASSUME TypeOK, LockInv, HeadInv, BranchInv, CommitsReachable, [Next]_vars
  PROVE  CommitsReachable'
<1>1. ASSUME UNCHANGED <<commits, hasty>>, DOMAIN refs \subseteq DOMAIN refs',
             \A x \in DOMAIN refs : refs'[x] = refs[x]
      PROVE  CommitsReachable'
  BY <1>1 DEF CommitsReachable
<1>2. ASSUME NEW p \in Process, CreateBranch(p)
      PROVE  CommitsReachable'
  BY <1>1, <1>2 DEF CreateBranch, StartBranch, Exists, history
<1>3. ASSUME NEW p \in Process, RemoveBranch(p)
      PROVE  CommitsReachable'
  <2>1. /\ DOMAIN refs' = DOMAIN refs \ {run[p]}
        /\ \A x \in DOMAIN refs' : refs'[x] = refs[x]
        /\ UNCHANGED <<commits, hasty>>
    BY <1>3, DropTypes DEF RemoveBranch, history
  <2>2. p \in holder /\ place[p] \in Branched
    BY <1>3 DEF RemoveBranch, At, LockInv, Branched
  <2>. QED
    BY <2>1, <2>2 DEF CommitsReachable, BranchInv, Elsewhere
<1>4. CASE CommitAll
  <2>1. /\ head \in DOMAIN refs /\ DOMAIN refs' = DOMAIN refs
        /\ \A x \in DOMAIN refs : refs[x].past \subseteq refs'[x].past
        /\ commits + 1 \in refs'[head].past
        /\ commits' = commits + 1 /\ hasty \subseteq hasty'
    BY <1>4 DEF CommitAll, HeadInv
  <2>2. \A c \in 1 .. commits' : c \in 1 .. commits \/ c = commits + 1
    BY <2>1 DEF TypeOK
  <2>. QED
    BY <2>1, <2>2 DEF CommitsReachable
<1>5. ASSUME NEW r \in Run, Delete(r)
      PROVE  CommitsReachable'
  <2>1. /\ DOMAIN refs' = DOMAIN refs \ {r} /\ \A x \in DOMAIN refs' : refs'[x] = refs[x]
        /\ head # r /\ refs[r].past \subseteq HeadCommit.past
        /\ commits' = commits /\ hasty \subseteq hasty'
    BY <1>5, DropTypes DEF Delete
  <2>. QED
    BY <2>1, HeadIsBranch DEF CommitsReachable
<1>6. ASSUME UNCHANGED <<refs, commits, hasty>>
      PROVE  CommitsReachable'
  BY <1>1, <1>6
<1>7. ASSUME NEW p \in Process, NEW r \in Run, Begin(p, r)
      PROVE  CommitsReachable'
  BY <1>6, <1>7 DEF Begin, repository, history
<1>8. ASSUME NEW p \in Process,
             \/ CheckClean(p) \/ CheckHead(p) \/ CheckApplies(p) \/ CheckCollision(p)
             \/ Examine(p)
      PROVE  CommitsReachable'
  BY <1>6, <1>8 DEF CheckClean, CheckHead, CheckApplies, CheckCollision, Examine, Ask,
                    repository, history
<1>9. ASSUME NEW p \in Process,
             \/ Lock(p) \/ ApplyPatch(p) \/ ApplyFails(p) \/ StagePatch(p)
             \/ RestoreBranch(p) \/ Record(p) \/ GiveUp(p)
      PROVE  CommitsReachable'
  BY <1>6, <1>9 DEF Lock, ApplyPatch, ApplyFails, StagePatch, RestoreBranch, SwitchTo, Record,
                    GiveUp, repository, history
<1>10. ASSUME (\E f \in File : Edit(f)) \/ \E target : Switch(target)
       PROVE  CommitsReachable'
  BY <1>6, <1>10 DEF Edit, Switch, SwitchTo, history
<1>11. CASE UNCHANGED vars
  BY <1>6, <1>11 DEF vars, repository, history
<1>12. ASSUME NEW p \in Process, Applying(p)
       PROVE  CommitsReachable'
  BY <1>2, <1>3, <1>8, <1>9, <1>12 DEF Applying
<1>13. CASE User
  BY <1>4, <1>5, <1>10, <1>13 DEF User
<1>. QED
  BY <1>7, <1>11, <1>12, <1>13 DEF Next
-----------------------------------------------------------------------------
(* The theorems.                                                           *)

(* The inductive invariant: all that the properties below rest on.                *)
THEOREM Inductive == Spec => []IInv
<1>1. Init => IInv
  BY TypeInit, LockInit, QuietInit, BranchInit, CommitsInit DEF IInv
<1>2. IInv /\ [Next]_vars => IInv'
  BY TypeStep, LockStep, QuietStep, BranchStep, CommitsStep DEF IInv
<1>. QED
  BY <1>1, <1>2, PTL DEF Spec

(* Every variable stays within its type, HEAD on a branch or detached among them. *)
THEOREM TypeCorrect == Spec => []TypeOK
<1>1. IInv => TypeOK
  BY DEF IInv
<1>. QED
  BY <1>1, Inductive, PTL

(* apply_verified records APPLIED only for the patch, the whole patch and nothing  *)
(* but the patch on the baseline, on the branch of the run, unless the user acted. *)
THEOREM Recorded == Spec => []RecordedIsApplied
<1>1. IInv => RecordedIsApplied
  <2>. SUFFICES ASSUME IInv, NEW p \in Process, At(p, "record"), ~ disturbed
                PROVE  /\ head = run[p] /\ HeadCommit = Baseline
                       /\ work = Patched(Baseline.tree, run[p], Touches[run[p]])
                       /\ index = (IF run[p] \in Staged THEN work ELSE Baseline.tree)
                       /\ state[run[p]] = "VERIFIED"
    BY DEF RecordedIsApplied
  <2>1. p \in holder /\ state[run[p]] = "VERIFIED"
    BY Alone DEF IInv, At
  <2>2. Established(p)
    BY <2>1 DEF IInv, QuietInv
  <2>. QED
    BY <2>1, <2>2 DEF At, Established, OnNewBranch, PatchInWork
<1>. QED
  BY <1>1, Inductive, PTL

(* _restore_branch_if_clean and the user's own git branch -d keep every commit on *)
(* a branch, except those made on the branch of an apply under way.               *)
THEOREM Reachable == Spec => []CommitsReachable
<1>1. IInv => CommitsReachable
  BY DEF IInv
<1>. QED
  BY <1>1, Inductive, PTL

(* A patch is written into the baseline, and never into the patch of another run.  *)
THEOREM NoMix == Spec => PatchesDoNotMix
<1>1. ASSUME IInv, [Next]_vars, NEW r \in Run, r \in Range(work') \ Range(work),
             head' = head, ~ disturbed
      PROVE  Range(work') \subseteq {"base", r}
  <2>. USE <1>1 DEF IInv
  <2>1. work' # work
    OBVIOUS
  <2>2. ASSUME NEW p \in Process, ApplyPatch(p) \/ ApplyFails(p)
        PROVE  Range(work') \subseteq {"base", r}
    <3>1. p \in holder /\ place[p] = "patch" /\ run[p] \in Run
      BY <2>2, Alone DEF ApplyPatch, ApplyFails, At
    <3>2. work = Baseline.tree
      BY <3>1 DEF QuietInv, Established
    <3>3. work' \in [File -> {"base", run[p]}]
      BY <2>2, <3>2, PatchedParts DEF ApplyPatch, ApplyFails
    <3>4. r # "base"
      BY DEF ApplyAssumption
    <3>. QED
      BY <3>3, <3>4 DEF Range
  <2>3. ASSUME NEW p \in Process, RestoreBranch(p)
        PROVE  FALSE
    <3>1. SwitchTo(head)
      BY <2>3 DEF RestoreBranch, SwitchTo
    <3>. QED
      BY <2>1, <3>1, SwitchToHead
  <2>4. ASSUME NEW f \in File, Edit(f)
        PROVE  FALSE
    <3>1. r # "user"
      BY DEF ApplyAssumption
    <3>. QED
      BY <2>4, <3>1 DEF Edit, Range, TypeOK, Tree
  <2>5. ASSUME NEW target, Switch(target)
        PROVE  FALSE
    BY <2>5 DEF Switch, SwitchTo
  <2>6. ASSUME NEW p \in Process, Applying(p)
        PROVE  ApplyPatch(p) \/ ApplyFails(p) \/ RestoreBranch(p)
    BY <2>1, <2>6 DEF Applying, Lock, CheckClean, CheckHead, CheckApplies, CheckCollision, Ask,
                      CreateBranch, StagePatch, Record, Examine, RemoveBranch, DropBranch,
                      GiveUp, repository
  <2>7. ASSUME NEW p \in Process, NEW q \in Run, Begin(p, q)
        PROVE  FALSE
    BY <2>1, <2>7 DEF Begin, repository
  <2>8. CASE User
    BY <2>1, <2>4, <2>5, <2>8 DEF User, CommitAll, Delete, DropBranch
  <2>. QED
    BY <2>1, <2>2, <2>3, <2>6, <2>7, <2>8 DEF Next, vars, repository
<1>2. IInv /\ [Next]_vars =>
        [\A r \in Run : r \in Range(work') \ Range(work) /\ head' = head /\ ~ disturbed
           => Range(work') \subseteq {"base", r}]_vars
  BY <1>1
<1>. QED
  BY <1>2, Inductive, PTL DEF Spec, PatchesDoNotMix

(* No step of apply, finished, failed or killed, loses what the user has edited:    *)
(* git apply touches no such file, and git switch only one that is in a commit.     *)
THEOREM EditsSurvive == Spec => UserEditsSurvive
<1>1. ASSUME IInv, [Next]_vars, NEW f \in File, work[f] = "user"
      PROVE  work'[f] = "user" \/ \E b \in DOMAIN refs' : refs'[b].tree[f] = "user"
  <2>. USE <1>1 DEF IInv
  <2>1. ASSUME NEW target \in Branch \union {Detached}, SwitchTo(target)
        PROVE  work'[f] = "user" \/ \E b \in DOMAIN refs' : refs'[b].tree[f] = "user"
    <3>1. CASE f \in Moves(target)
      <4>1. HeadCommit.tree[f] = "user"
        BY <2>1, <3>1 DEF SwitchTo, MaySwitch
      <4>2. head \in DOMAIN refs /\ refs[head].tree[f] = "user"
        BY <4>1 DEF HeadCommit, Baseline, HeadInv
      <4>. QED
        BY <2>1, <4>2 DEF SwitchTo
    <3>2. CASE f \notin Moves(target)
      BY <2>1, <3>2 DEF SwitchTo
    <3>. QED
      BY <3>1, <3>2
  <2>2. ASSUME NEW p \in Process, ApplyPatch(p) \/ ApplyFails(p)
        PROVE  work'[f] = "user"
    <3>1. PICK files \in SUBSET Touches[run[p]] :
                 /\ files # {} => Applies(run[p])
                 /\ work' = Patched(work, run[p], files)
      BY <2>2 DEF ApplyPatch, ApplyFails
    <3>2. f \notin files
      BY <3>1 DEF Applies
    <3>. QED
      BY <3>1, <3>2 DEF Patched
  <2>3. ASSUME NEW p \in Process, Applying(p)
        PROVE  work'[f] = "user" \/ \E b \in DOMAIN refs' : refs'[b].tree[f] = "user"
    <3>1. CASE RestoreBranch(p)
      BY <2>1, <3>1 DEF RestoreBranch, TypeOK, Branch
    <3>2. CASE ApplyPatch(p) \/ ApplyFails(p)
      BY <2>2, <3>2
    <3>3. CASE \/ Lock(p) \/ CheckClean(p) \/ CheckHead(p) \/ CheckApplies(p)
               \/ CheckCollision(p) \/ CreateBranch(p) \/ StagePatch(p) \/ Record(p)
               \/ Examine(p) \/ RemoveBranch(p) \/ GiveUp(p)
      BY <3>3 DEF Lock, CheckClean, CheckHead, CheckApplies, CheckCollision, Ask, CreateBranch,
                  StagePatch, Record, Examine, RemoveBranch, DropBranch, GiveUp, repository
    <3>. QED
      BY <2>3, <3>1, <3>2, <3>3 DEF Applying
  <2>4. ASSUME NEW p \in Process, NEW r \in Run, Begin(p, r)
        PROVE  work'[f] = "user"
    BY <2>4 DEF Begin, repository
  <2>5. ASSUME NEW g \in File, Edit(g)
        PROVE  work'[f] = "user"
    BY <2>5 DEF Edit, TypeOK, Tree
  <2>6. CASE CommitAll \/ \E r \in Run : Delete(r)
    BY <2>6 DEF CommitAll, Delete, DropBranch
  <2>7. CASE User
    BY <2>1, <2>5, <2>6, <2>7 DEF User, Switch
  <2>. QED
    BY <2>3, <2>4, <2>7 DEF Next, vars, repository
<1>2. IInv /\ [Next]_vars =>
        [\A f \in File : work[f] = "user" =>
           \/ work'[f] = "user"
           \/ \E b \in DOMAIN refs' : refs'[b].tree[f] = "user"]_vars
  BY <1>1
<1>. QED
  BY <1>2, Inductive, PTL DEF Spec, UserEditsSurvive
=============================================================================
