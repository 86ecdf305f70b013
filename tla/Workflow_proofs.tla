--------------------------- MODULE Workflow_proofs ---------------------------
(***************************************************************************)
(* The properties of Workflow for any processes and number of attempts.    *)
(***************************************************************************)
EXTENDS Workflow, TLAPS

USE WorkflowAssumption DEF WorkflowAssumption

(* Where a call holds the operation lock. *)
Locked ==
  {"cloning", "capturing", "binding", "cleaning", "cleaned", "applying", "branched", "patched"}

(* Where the patch is tested, and what only other commands make of the run meanwhile. *)
Testing == {"fresh", "verifying", "oracle", "judging", "logs", "judged", "decide"}
Stopped == {"ABORTED", "CLEANED"}

(* One workflow at a time, and one holder of the operation lock. *)
LockInv ==
  \A p \in Process :
    /\ at[p] \in Working \union Handling => lease = p
    /\ at[p] \in Locked => op = p

(* From its preparation or its analysis on, a workflow has an attempt in hand. *)
AttemptInv ==
  \A p \in Process :
    at[p] \in Working \ {"dispatch", "attempts", "analyze"} => attempt[p] # None

(* The states that each call can still meet, whatever other commands have done. *)
StateInv ==
  \A p \in Process :
    /\ at[p] \in {"agent", "running"} => state \in {"PATCHING"} \union Stopped
    /\ at[p] \in Testing => state \in {"FINAL_VERIFYING"} \union Stopped
    /\ at[p] \in {"record", "recorded"} /\ outcome[p] # "passed" =>
         state \in {"REJECTED", "CLEANED"}
    /\ at[p] \in {"archive", "archiving"} => state \in {"REJECTED", "CLEANED"}
    /\ at[p] \in {"cleaning", "cleaned"} => state \in Completed
    /\ at[p] = "apply" => state \in {"VERIFIED", "APPLIED", "CLEANED"}
    /\ at[p] \in {"applying", "branched", "patched"} => state = "VERIFIED"

(* The patch on disk, what evidence says of it, and what the oracles are given. *)
PatchInv ==
  /\ CheckpointsLoad
  /\ VerifiedPatchPassed
  /\ \A p \in Process :
       /\ at[p] \in {"capturing", "binding"} => patch.diff # None
       /\ at[p] = "binding" => patch.record = patch.diff
       /\ at[p] \in {"oracle", "judging", "logs", "judged"} /\ state = "FINAL_VERIFYING" =>
            final[attempt[p]] = patch.diff
       /\ at[p] = "decide" /\ outcome[p] = "passed" /\ state = "FINAL_VERIFYING" =>
            patch.diff \in cleared

(* The receipt that is about to be bound is the first; the one that an apply goes by *)
(* stays the one it has checked.                                                     *)
Unbound == <<>>
InTime == <<TRUE>>
Late == <<FALSE>>

ReceiptInv ==
  /\ bindings # Unbound => receipt # NoReceipt /\ bindings \in {InTime, Late}
  /\ \A p \in Process :
       /\ at[p] = "sign" => bindings = Unbound /\ receipt # NoReceipt
       /\ at[p] \in {"apply", "applying", "branched", "patched"} =>
            /\ receipt # NoReceipt /\ bindings = InTime /\ receipt.status = "verified"
            /\ state \in {"VERIFIED", "APPLIED"} => receipt.patch = patch.diff

(* A container runs only where its workflow waits for it or has yet to stop it. *)
ContainerInv ==
  \A p \in Process : container[p] = "running" =>
    /\ at[p] \in {"running", "judging", "failing"}
    /\ state \in {"PATCHING", "FINAL_VERIFYING"} \union Stopped

IInv == TypeOK /\ LockInv /\ AttemptInv /\ StateInv /\ PatchInv /\ ReceiptInv /\ ContainerInv

(* What one process may do next. *)
Acts(p) ==
  \/ BeginResume(p) \/ BeginAbort(p) \/ BeginClean(p) \/ CheckApply(p)
  \/ Proceed(p) \/ Raise(p) \/ Abandon(p)
-----------------------------------------------------------------------------
(* Types.                                                                  *)

\* The process that goes on is somewhere else, and the others are where they were.
LEMMA Goes ==
  ASSUME TypeOK, NEW p \in Process, NEW place, GoTo(p, place)
  PROVE  at'[p] = place /\ \A q \in Process : q # p => at'[q] = at[q]
BY DEF TypeOK, GoTo

\* The notes of the processes, and what there is for each attempt.
LEMMA Functions ==
  TypeOK => /\ attempt \in [Process -> Attempt \union {None}]
            /\ outcome \in [Process -> Outcome]
            /\ container \in [Process \union {Nobody} -> {"none", "running", "stopped"}]
            /\ final \in [Attempt -> Attempt \union {None}]
BY DEF TypeOK

\* A workflow that goes on without its container leaves those of the others as they were.
LEMMA Containers ==
  ASSUME TypeOK, NEW p \in Process
  PROVE  /\ {Gone(p), Lost(p), [Gone(p) EXCEPT ![Nobody] = "none"]} \union Launched(p)
              \subseteq [Process \union {Nobody} -> {"none", "running", "stopped"}]
         /\ \A next \in {Gone(p), Lost(p), [Gone(p) EXCEPT ![Nobody] = "none"]} :
              next[p] = "none" /\ \A q \in Process : q # p => next[q] = container[q]
         /\ \A next \in Launched(p) :
              \A q \in Process : q # p => next[q] = container[q]
BY WorkflowAssumption, Functions DEF Gone, Lost, Launched

\* The next attempt is one, and so is every clone.
LEMMA Numbers ==
  /\ None \notin Attempt
  /\ TypeOK => /\ clones \subseteq Attempt
               /\ records < MaxAttempts => records + 1 \in Attempt
BY DEF TypeOK, Attempt, None

\* Where the transitions of this module come from.
LEMMA Origins ==
  ASSUME NEW current, NEW target, CanTransition(current, target)
  PROVE  /\ current \in RunState /\ target \in RunState
         /\ target = "PATCH_PREPARING" => current \in {"BASELINE_REPRODUCED", "REJECTED"}
         /\ target = "PATCHING" => current = "PATCH_PREPARING"
         /\ target = "PATCH_CAPTURED" => current = "PATCHING"
         /\ target = "FINAL_VERIFYING" => current = "PATCH_CAPTURED"
         /\ target = "VERIFIED" => current = "FINAL_VERIFYING"
         /\ target = "APPLIED" => current = "VERIFIED"
         /\ target = "CLEANED" => current \in Completed
         /\ target \in {"ABORTED", "ERROR"} => current \notin Completed \union {"CLEANED"}
         /\ current \in {"VERIFIED", "APPLIED", "CLEANED"} => target \in {"APPLIED", "CLEANED"}
BY DEF CanTransition, ValidTransitions, Progress, Interruptible, RunState, Completed

\* The three parts of the patch directory change one at a time.
LEMMA Parts ==
  ASSUME TypeOK, NEW k
  PROVE  /\ [patch EXCEPT !.clone = k] =
              [clone |-> k, diff |-> patch.diff, record |-> patch.record]
         /\ [patch EXCEPT !.diff = k] =
              [clone |-> patch.clone, diff |-> k, record |-> patch.record]
         /\ [patch EXCEPT !.record = k] =
              [clone |-> patch.clone, diff |-> patch.diff, record |-> k]
BY DEF TypeOK

\* No receipt and one bound in time are told apart.
LEMMA BindingsDiffer == Unbound # InTime
BY DEF Unbound, InTime

\* The first receipt.created is bound in time or late.
LEMMA FirstBinding ==
  ASSUME NEW b \in BOOLEAN
  PROVE  Append(Unbound, b) \in {InTime, Late}
<1>1. Append(<<>>, b) = <<b>>
  OBVIOUS
<1>2. CASE b = TRUE
  BY <1>1, <1>2 DEF Unbound, InTime
<1>3. CASE b = FALSE
  BY <1>1, <1>3 DEF Unbound, Late
<1>. QED
  BY <1>2, <1>3

\* Where a process goes is a place.
LEMMA Stays ==
  ASSUME TypeOK, NEW p \in Process, NEW place \in Place, GoTo(p, place)
  PROVE  at' \in [Process -> Place]
BY DEF TypeOK, GoTo

\* Another receipt.created: in time or not.
LEMMA Appending ==
  ASSUME NEW b \in Seq(BOOLEAN), NEW x \in BOOLEAN
  PROVE  Append(b, x) \in Seq(BOOLEAN)
OBVIOUS

\* Every step leads from place to place.
LEMMA PlaceStep ==
  ASSUME TypeOK, NEW p \in Process, Acts(p)
  PROVE  at' \in [Process -> Place]
<1>. USE DEF Step, Leave, Place, Working, Handling, Commanding, Transition,
   TransitionWhileLocked
<1>1. CASE BeginResume(p) \/ TakeLease(p)
  BY <1>1, Stays DEF BeginResume, TakeLease
<1>2. CASE ResumeBaseline(p) \/ ResumeCapture(p)
  BY <1>2, Stays DEF ResumeBaseline, ResumeCapture
<1>3. CASE ResumeCaptured(p) \/ ResumeVerified(p)
  BY <1>3, Stays DEF ResumeCaptured, ResumeVerified
<1>4. CASE NextAttempt(p) \/ Prepare(p)
  BY <1>4, Stays DEF NextAttempt, Prepare
<1>5. CASE CheckClone(p) \/ BeginClone(p) \/ EndClone(p)
  BY <1>5, Stays DEF CheckClone, BeginClone, EndClone
<1>6. CASE WriteClone(p) \/ StartPatching(p)
  BY <1>6, Stays DEF WriteClone, StartPatching
<1>7. CASE StartAgent(p) \/ AgentSucceeds(p)
  BY <1>7, Stays DEF StartAgent, AgentSucceeds
<1>8. CASE AgentFails(p)
  BY <1>8, Stays DEF AgentFails
<1>9. CASE CheckCapture(p) \/ BeginCapture(p)
  BY <1>9, Stays DEF CheckCapture, BeginCapture
<1>10. CASE WriteRecord(p) \/ EndCapture(p)
  BY <1>10, Stays DEF WriteRecord, EndCapture
<1>11. CASE RefuseCapture(p) \/ Reject(p)
  BY <1>11, Stays DEF RefuseCapture, Reject
<1>12. CASE Analyze(p) \/ StartFinal(p)
  BY <1>12, Stays DEF Analyze, StartFinal
<1>13. CASE Quarantine(p) \/ CheckFinal(p)
  BY <1>13, Stays DEF Quarantine, CheckFinal
<1>14. CASE FreshClone(p) \/ StartOracle(p)
  BY <1>14, Stays DEF FreshClone, StartOracle
<1>15. CASE EndOracle(p) \/ MakeLogs(p)
  BY <1>15, Stays DEF EndOracle, MakeLogs
<1>16. CASE OracleCompleted(p) \/ Decide(p)
  BY <1>16, Stays DEF OracleCompleted, Decide
<1>17. CASE RecordAttempt(p) \/ AttemptCompleted(p)
  BY <1>17, Stays DEF RecordAttempt, AttemptCompleted
<1>18. CASE BeginArchive(p) \/ ArchiveFile(p) \/ EndArchive(p)
  BY <1>18, Stays DEF BeginArchive, ArchiveFile, EndArchive, TypeOK
<1>19. CASE Finish(p) \/ WriteReceipt(p)
  BY <1>19, Stays DEF Finish, WriteReceipt
<1>20. CASE SignReceipt(p) \/ Tidy(p)
  BY <1>20, Stays DEF SignReceipt, Tidy
<1>21. CASE HandleFailure(p) \/ ErrorEvent(p)
  BY <1>21, Stays DEF HandleFailure, ErrorEvent
<1>22. CASE MoveToError(p) \/ Sweep(p)
  BY <1>22, Stays DEF MoveToError, Sweep
<1>23. CASE Raise(p) \/ Abandon(p)
  BY <1>23, Stays DEF Raise, Abandon
<1>24. CASE BeginAbort(p) \/ StopContainers(p)
  BY <1>24, Stays DEF BeginAbort, StopContainers
<1>25. CASE RequestAbort(p) \/ ConfirmAbort(p)
  BY <1>25, Stays DEF RequestAbort, ConfirmAbort
<1>26. CASE BeginClean(p) \/ RemoveTrees(p)
  BY <1>26, Stays DEF BeginClean, RemoveTrees
<1>27. CASE EndClean(p)
  BY <1>27, Stays DEF EndClean
<1>28. CASE CheckApply(p) \/ LockApply(p)
  BY <1>28, Stays DEF CheckApply, LockApply
<1>29. CASE CreateBranch(p) \/ PatchBranch(p)
  BY <1>29, Stays DEF CreateBranch, PatchBranch
<1>30. CASE RestoreBranch(p) \/ EndApply(p)
  BY <1>30, Stays DEF RestoreBranch, EndApply
<1>. QED
  BY <1>1, <1>2, <1>3, <1>4, <1>5, <1>6, <1>7, <1>8, <1>9, <1>10, <1>11, <1>12, <1>13, <1>14,
     <1>15, <1>16, <1>17, <1>18, <1>19, <1>20, <1>21, <1>22, <1>23, <1>24, <1>25, <1>26,
     <1>27, <1>28, <1>29, <1>30
  DEF Resuming, Attempting, Capturing, Verifying, Closing, Failing, Aborting, Cleaning,
     Applying, Proceed, Acts

\* Every step keeps the types.
LEMMA TypeStep ==
  ASSUME TypeOK, AttemptInv, PatchInv, NEW p \in Process, Acts(p)
  PROVE  TypeOK'
<1>. USE DEF TypeOK, AttemptInv, Step, Leave, Working, Outcome, evidence, disk, workspaces,
   attempts, locks, notes, Transition, TransitionWhileLocked, MoveTo, AppendEvent,
   Appended, Forget, TreesRemoved
<1>1. CASE BeginResume(p) \/ TakeLease(p)
  BY <1>1, PlaceStep DEF BeginResume, TakeLease
<1>2. CASE ResumeBaseline(p) \/ ResumeCapture(p)
  BY <1>2, PlaceStep, Numbers DEF ResumeBaseline, ResumeCapture
<1>3. CASE ResumeCaptured(p) \/ ResumeVerified(p)
  BY <1>3, PlaceStep DEF ResumeCaptured, ResumeVerified
<1>4. CASE NextAttempt(p) \/ Prepare(p)
  <2>1. CASE NextAttempt(p)
    <3>1. attempt' \in [Process -> Attempt \union {None}]
      BY <2>1, Numbers DEF NextAttempt
    <3>. QED
      BY <2>1, <3>1, PlaceStep DEF NextAttempt
  <2>2. CASE Prepare(p)
    BY <2>2, PlaceStep, Origins DEF Prepare
  <2>. QED
    BY <1>4, <2>1, <2>2
<1>5. CASE CheckClone(p) \/ BeginClone(p) \/ EndClone(p)
  BY <1>5, PlaceStep, Numbers DEF CheckClone, BeginClone, EndClone
<1>6. CASE WriteClone(p) \/ StartPatching(p)
  BY <1>6, PlaceStep, Origins, Numbers DEF WriteClone, StartPatching
<1>7. CASE StartAgent(p) \/ AgentSucceeds(p)
  BY <1>7, PlaceStep, Containers DEF StartAgent, AgentSucceeds
<1>8. CASE AgentFails(p)
  BY <1>8, PlaceStep, Containers DEF AgentFails
<1>9. CASE CheckCapture(p) \/ BeginCapture(p)
  BY <1>9, PlaceStep, Numbers DEF CheckCapture, BeginCapture
<1>10. CASE WriteRecord(p) \/ EndCapture(p)
  <2>1. CASE WriteRecord(p)
    BY <2>1, PlaceStep DEF WriteRecord
  <2>2. CASE EndCapture(p)
    <3>1. captured' \subseteq Attempt
      BY <2>2, Numbers DEF EndCapture, PatchInv
    <3>. QED
      BY <2>2, <3>1, PlaceStep, Origins DEF EndCapture
  <2>. QED
    BY <1>10, <2>1, <2>2
<1>11. CASE RefuseCapture(p) \/ Reject(p)
  <2>1. CASE RefuseCapture(p)
    BY <2>1, PlaceStep DEF RefuseCapture
  <2>2. CASE Reject(p)
    BY <2>2, PlaceStep, Origins DEF Reject
  <2>. QED
    BY <1>11, <2>1, <2>2
<1>12. CASE Analyze(p) \/ StartFinal(p)
  BY <1>12, PlaceStep, Origins, Numbers DEF Analyze, StartFinal
<1>13. CASE Quarantine(p) \/ CheckFinal(p)
  BY <1>13, PlaceStep DEF Quarantine, CheckFinal
<1>14. CASE FreshClone(p) \/ StartOracle(p)
  BY <1>14, PlaceStep, Containers DEF FreshClone, StartOracle
<1>15. CASE EndOracle(p) \/ MakeLogs(p)
  <2>1. CASE EndOracle(p)
    BY <2>1, PlaceStep, Containers DEF EndOracle
  <2>2. CASE MakeLogs(p)
    <3>1. logs' \subseteq Attempt
      BY <2>2, Numbers DEF MakeLogs
    <3>. QED
      BY <2>2, <3>1, PlaceStep DEF MakeLogs
  <2>. QED
    BY <1>15, <2>1, <2>2
<1>16. CASE OracleCompleted(p) \/ Decide(p)
  BY <1>16, PlaceStep, Origins DEF OracleCompleted, Decide
<1>17. CASE RecordAttempt(p) \/ AttemptCompleted(p)
  <2>1. CASE RecordAttempt(p)
    <3>1. records' \in 0 .. MaxAttempts
      BY <2>1, Numbers DEF RecordAttempt, Attempt, None
    <3>. QED
      BY <2>1, <3>1, PlaceStep DEF RecordAttempt
  <2>2. CASE AttemptCompleted(p)
    BY <2>2, PlaceStep DEF AttemptCompleted
  <2>. QED
    BY <1>17, <2>1, <2>2
<1>18. CASE BeginArchive(p) \/ ArchiveFile(p) \/ EndArchive(p)
  BY <1>18, PlaceStep, Numbers DEF BeginArchive, ArchiveFile, EndArchive
<1>19. CASE Finish(p) \/ WriteReceipt(p)
  <2>1. CASE Finish(p)
    BY <2>1, PlaceStep DEF Finish
  <2>2. CASE WriteReceipt(p)
    <3>1. receipt' \in Receipt
      BY <2>2, Numbers DEF WriteReceipt, Receipt
    <3>. QED
      BY <2>2, <3>1, PlaceStep DEF WriteReceipt
  <2>. QED
    BY <1>19, <2>1, <2>2
<1>20. CASE SignReceipt(p) \/ Tidy(p)
  <2>1. CASE SignReceipt(p)
    <3>1. bindings' \in Seq(BOOLEAN)
      BY <2>1, Appending DEF SignReceipt
    <3>. QED
      BY <2>1, <3>1, PlaceStep DEF SignReceipt
  <2>2. CASE Tidy(p)
    BY <2>2, PlaceStep DEF Tidy
  <2>. QED
    BY <1>20, <2>1, <2>2
<1>21. CASE HandleFailure(p) \/ ErrorEvent(p)
  <2>1. CASE HandleFailure(p)
    <3>1. container' \in [Process \union {Nobody} -> {"none", "running", "stopped"}]
      BY <2>1, Containers DEF HandleFailure
    <3>. QED
      BY <2>1, <3>1, PlaceStep DEF HandleFailure
  <2>2. CASE ErrorEvent(p)
    BY <2>2, PlaceStep DEF ErrorEvent
  <2>. QED
    BY <1>21, <2>1, <2>2
<1>22. CASE MoveToError(p) \/ Sweep(p)
  <2>1. CASE MoveToError(p)
    BY <2>1, PlaceStep, Origins DEF MoveToError
  <2>2. CASE Sweep(p)
    BY <2>2, PlaceStep DEF Sweep
  <2>. QED
    BY <1>22, <2>1, <2>2
<1>23. CASE Raise(p) \/ Abandon(p)
  <2>1. CASE Raise(p)
    BY <2>1, PlaceStep, Containers DEF Raise
  <2>2. CASE Abandon(p)
    BY <2>2, PlaceStep, Containers DEF Abandon
  <2>. QED
    BY <1>23, <2>1, <2>2
<1>24. CASE BeginAbort(p) \/ StopContainers(p)
  <2>1. CASE BeginAbort(p)
    BY <2>1, PlaceStep DEF BeginAbort
  <2>2. CASE StopContainers(p)
    <3>1. container' \in [Process \union {Nobody} -> {"none", "running", "stopped"}]
      BY <2>2, Functions DEF StopContainers
    <3>. QED
      BY <2>2, <3>1, PlaceStep DEF StopContainers
  <2>. QED
    BY <1>24, <2>1, <2>2
<1>25. CASE RequestAbort(p) \/ ConfirmAbort(p)
  <2>1. CASE RequestAbort(p)
    BY <2>1, PlaceStep DEF RequestAbort
  <2>2. CASE ConfirmAbort(p)
    BY <2>2, PlaceStep, Origins DEF ConfirmAbort
  <2>. QED
    BY <1>25, <2>1, <2>2
<1>26. CASE BeginClean(p) \/ RemoveTrees(p)
  BY <1>26, PlaceStep DEF BeginClean, RemoveTrees
<1>27. CASE EndClean(p)
  BY <1>27, PlaceStep, Origins DEF EndClean
<1>28. CASE CheckApply(p) \/ LockApply(p)
  BY <1>28, PlaceStep DEF CheckApply, LockApply
<1>29. CASE CreateBranch(p) \/ PatchBranch(p)
  BY <1>29, PlaceStep DEF CreateBranch, PatchBranch
<1>30. CASE RestoreBranch(p) \/ EndApply(p)
  <2>1. CASE RestoreBranch(p)
    BY <2>1, PlaceStep DEF RestoreBranch
  <2>2. CASE EndApply(p)
    BY <2>2, PlaceStep, Origins DEF EndApply
  <2>. QED
    BY <1>30, <2>1, <2>2
<1>. QED
  BY <1>1, <1>2, <1>3, <1>4, <1>5, <1>6, <1>7, <1>8, <1>9, <1>10, <1>11, <1>12, <1>13, <1>14,
     <1>15, <1>16, <1>17, <1>18, <1>19, <1>20, <1>21, <1>22, <1>23, <1>24, <1>25, <1>26,
     <1>27, <1>28, <1>29, <1>30
  DEF Resuming, Attempting, Capturing, Verifying, Closing, Failing, Aborting, Cleaning,
     Applying, Proceed, Acts

\* The locks: who works holds the lease, who changes files the operation lock.
LEMMA LockStep ==
  ASSUME TypeOK, LockInv, NEW p \in Process, Acts(p)
  PROVE  LockInv'
<1>. USE DEF LockInv, Step, Leave, Locked, Working, Handling, locks, Transition,
   TransitionWhileLocked
<1>1. CASE BeginResume(p) \/ TakeLease(p)
  BY <1>1, Goes DEF BeginResume, TakeLease
<1>2. CASE ResumeBaseline(p) \/ ResumeCapture(p)
  BY <1>2, Goes DEF ResumeBaseline, ResumeCapture
<1>3. CASE ResumeCaptured(p) \/ ResumeVerified(p)
  BY <1>3, Goes DEF ResumeCaptured, ResumeVerified
<1>4. CASE NextAttempt(p) \/ Prepare(p)
  BY <1>4, Goes DEF NextAttempt, Prepare
<1>5. CASE CheckClone(p) \/ BeginClone(p) \/ EndClone(p)
  BY <1>5, Goes DEF CheckClone, BeginClone, EndClone
<1>6. CASE WriteClone(p) \/ StartPatching(p)
  BY <1>6, Goes DEF WriteClone, StartPatching
<1>7. CASE StartAgent(p) \/ AgentSucceeds(p)
  BY <1>7, Goes DEF StartAgent, AgentSucceeds
<1>8. CASE AgentFails(p)
  BY <1>8, Goes DEF AgentFails
<1>9. CASE CheckCapture(p) \/ BeginCapture(p)
  BY <1>9, Goes DEF CheckCapture, BeginCapture
<1>10. CASE WriteRecord(p) \/ EndCapture(p)
  BY <1>10, Goes DEF WriteRecord, EndCapture
<1>11. CASE RefuseCapture(p) \/ Reject(p)
  BY <1>11, Goes DEF RefuseCapture, Reject
<1>12. CASE Analyze(p) \/ StartFinal(p)
  BY <1>12, Goes DEF Analyze, StartFinal
<1>13. CASE Quarantine(p) \/ CheckFinal(p)
  BY <1>13, Goes DEF Quarantine, CheckFinal
<1>14. CASE FreshClone(p) \/ StartOracle(p)
  BY <1>14, Goes DEF FreshClone, StartOracle
<1>15. CASE EndOracle(p) \/ MakeLogs(p)
  BY <1>15, Goes DEF EndOracle, MakeLogs
<1>16. CASE OracleCompleted(p) \/ Decide(p)
  BY <1>16, Goes DEF OracleCompleted, Decide
<1>17. CASE RecordAttempt(p) \/ AttemptCompleted(p)
  BY <1>17, Goes DEF RecordAttempt, AttemptCompleted
<1>18. CASE BeginArchive(p) \/ ArchiveFile(p) \/ EndArchive(p)
  BY <1>18, Goes DEF BeginArchive, ArchiveFile, EndArchive
<1>19. CASE Finish(p) \/ WriteReceipt(p)
  BY <1>19, Goes DEF Finish, WriteReceipt
<1>20. CASE SignReceipt(p) \/ Tidy(p)
  BY <1>20, Goes DEF SignReceipt, Tidy
<1>21. CASE HandleFailure(p) \/ ErrorEvent(p)
  BY <1>21, Goes DEF HandleFailure, ErrorEvent
<1>22. CASE MoveToError(p) \/ Sweep(p)
  BY <1>22, Goes DEF MoveToError, Sweep
<1>23. CASE Raise(p) \/ Abandon(p)
  BY <1>23, Goes DEF Raise, Abandon
<1>24. CASE BeginAbort(p) \/ StopContainers(p)
  BY <1>24, Goes DEF BeginAbort, StopContainers
<1>25. CASE RequestAbort(p) \/ ConfirmAbort(p)
  BY <1>25, Goes DEF RequestAbort, ConfirmAbort
<1>26. CASE BeginClean(p) \/ RemoveTrees(p)
  BY <1>26, Goes DEF BeginClean, RemoveTrees
<1>27. CASE EndClean(p)
  BY <1>27, Goes DEF EndClean
<1>28. CASE CheckApply(p) \/ LockApply(p)
  BY <1>28, Goes DEF CheckApply, LockApply
<1>29. CASE CreateBranch(p) \/ PatchBranch(p)
  BY <1>29, Goes DEF CreateBranch, PatchBranch
<1>30. CASE RestoreBranch(p) \/ EndApply(p)
  BY <1>30, Goes DEF RestoreBranch, EndApply
<1>. QED
  BY <1>1, <1>2, <1>3, <1>4, <1>5, <1>6, <1>7, <1>8, <1>9, <1>10, <1>11, <1>12, <1>13, <1>14,
     <1>15, <1>16, <1>17, <1>18, <1>19, <1>20, <1>21, <1>22, <1>23, <1>24, <1>25, <1>26,
     <1>27, <1>28, <1>29, <1>30
  DEF Resuming, Attempting, Capturing, Verifying, Closing, Failing, Aborting, Cleaning,
     Applying, Proceed, Acts

\* The attempt in hand is kept until the workflow ends.
LEMMA AttemptStep ==
  ASSUME TypeOK, LockInv, AttemptInv, NEW p \in Process, Acts(p)
  PROVE  AttemptInv'
<1>. USE DEF AttemptInv, Step, Leave, Working, notes
<1>1. CASE BeginResume(p) \/ TakeLease(p)
  BY <1>1, Goes DEF BeginResume, TakeLease
<1>2. CASE ResumeBaseline(p) \/ ResumeCapture(p)
  BY <1>2, Goes, Functions, Numbers DEF ResumeBaseline, ResumeCapture
<1>3. CASE ResumeCaptured(p) \/ ResumeVerified(p)
  BY <1>3, Goes, Functions DEF ResumeCaptured, ResumeVerified
<1>4. CASE NextAttempt(p) \/ Prepare(p)
  BY <1>4, Goes, Functions, Numbers DEF NextAttempt, Prepare
<1>5. CASE CheckClone(p) \/ BeginClone(p) \/ EndClone(p)
  BY <1>5, Goes DEF CheckClone, BeginClone, EndClone
<1>6. CASE WriteClone(p) \/ StartPatching(p)
  BY <1>6, Goes DEF WriteClone, StartPatching
<1>7. CASE StartAgent(p) \/ AgentSucceeds(p)
  BY <1>7, Goes DEF StartAgent, AgentSucceeds
<1>8. CASE AgentFails(p)
  BY <1>8, Goes, Functions DEF AgentFails
<1>9. CASE CheckCapture(p) \/ BeginCapture(p)
  BY <1>9, Goes DEF CheckCapture, BeginCapture
<1>10. CASE WriteRecord(p) \/ EndCapture(p)
  BY <1>10, Goes DEF WriteRecord, EndCapture
<1>11. CASE RefuseCapture(p) \/ Reject(p)
  BY <1>11, Goes, Functions DEF RefuseCapture, Reject
<1>12. CASE Analyze(p) \/ StartFinal(p)
  BY <1>12, Goes, Functions, Numbers DEF Analyze, StartFinal
<1>13. CASE Quarantine(p) \/ CheckFinal(p)
  BY <1>13, Goes DEF Quarantine, CheckFinal
<1>14. CASE FreshClone(p) \/ StartOracle(p)
  BY <1>14, Goes DEF FreshClone, StartOracle
<1>15. CASE EndOracle(p) \/ MakeLogs(p)
  BY <1>15, Goes, Functions DEF EndOracle, MakeLogs
<1>16. CASE OracleCompleted(p) \/ Decide(p)
  BY <1>16, Goes DEF OracleCompleted, Decide
<1>17. CASE RecordAttempt(p) \/ AttemptCompleted(p)
  BY <1>17, Goes DEF RecordAttempt, AttemptCompleted
<1>18. CASE BeginArchive(p) \/ ArchiveFile(p) \/ EndArchive(p)
  BY <1>18, Goes DEF BeginArchive, ArchiveFile, EndArchive
<1>19. CASE Finish(p) \/ WriteReceipt(p)
  BY <1>19, Goes DEF Finish, WriteReceipt
<1>20. CASE SignReceipt(p) \/ Tidy(p)
  BY <1>20, Goes, Functions DEF SignReceipt, Tidy
<1>21. CASE HandleFailure(p) \/ ErrorEvent(p)
  BY <1>21, Goes, Functions DEF HandleFailure, ErrorEvent
<1>22. CASE MoveToError(p) \/ Sweep(p)
  BY <1>22, Goes, Functions DEF MoveToError, Sweep
<1>23. CASE Raise(p) \/ Abandon(p)
  BY <1>23, Goes, Functions DEF Raise, Abandon
<1>24. CASE BeginAbort(p) \/ StopContainers(p)
  BY <1>24, Goes DEF BeginAbort, StopContainers
<1>25. CASE RequestAbort(p) \/ ConfirmAbort(p)
  BY <1>25, Goes, Functions DEF RequestAbort, ConfirmAbort
<1>26. CASE BeginClean(p) \/ RemoveTrees(p)
  BY <1>26, Goes DEF BeginClean, RemoveTrees
<1>27. CASE EndClean(p)
  BY <1>27, Goes, Functions DEF EndClean
<1>28. CASE CheckApply(p) \/ LockApply(p)
  BY <1>28, Goes DEF CheckApply, LockApply
<1>29. CASE CreateBranch(p) \/ PatchBranch(p)
  BY <1>29, Goes DEF CreateBranch, PatchBranch
<1>30. CASE RestoreBranch(p) \/ EndApply(p)
  BY <1>30, Goes, Functions DEF RestoreBranch, EndApply
<1>. QED
  BY <1>1, <1>2, <1>3, <1>4, <1>5, <1>6, <1>7, <1>8, <1>9, <1>10, <1>11, <1>12, <1>13, <1>14,
     <1>15, <1>16, <1>17, <1>18, <1>19, <1>20, <1>21, <1>22, <1>23, <1>24, <1>25, <1>26,
     <1>27, <1>28, <1>29, <1>30
  DEF Resuming, Attempting, Capturing, Verifying, Closing, Failing, Aborting, Cleaning,
     Applying, Proceed, Acts

\* The states that each call can meet.
LEMMA StateStep ==
  ASSUME TypeOK, LockInv, StateInv, NEW p \in Process, Acts(p)
  PROVE  StateInv'
<1>. USE DEF StateInv, LockInv, Step, Leave, Working, Handling, Locked, Testing, Stopped,
   Completed, evidence, notes, Transition, TransitionWhileLocked, MoveTo,
   AppendEvent, Forget
<1>1. CASE BeginResume(p) \/ TakeLease(p)
  BY <1>1, Goes DEF BeginResume, TakeLease
<1>2. CASE ResumeBaseline(p) \/ ResumeCapture(p)
  BY <1>2, Goes, Functions DEF ResumeBaseline, ResumeCapture
<1>3. CASE ResumeCaptured(p) \/ ResumeVerified(p)
  BY <1>3, Goes, Functions DEF ResumeCaptured, ResumeVerified
<1>4. CASE NextAttempt(p) \/ Prepare(p)
  BY <1>4, Goes, Functions, Origins DEF NextAttempt, Prepare
<1>5. CASE CheckClone(p) \/ BeginClone(p) \/ EndClone(p)
  BY <1>5, Goes DEF CheckClone, BeginClone, EndClone
<1>6. CASE WriteClone(p) \/ StartPatching(p)
  BY <1>6, Goes, Origins DEF WriteClone, StartPatching
<1>7. CASE StartAgent(p) \/ AgentSucceeds(p)
  BY <1>7, Goes DEF StartAgent, AgentSucceeds
<1>8. CASE AgentFails(p)
  BY <1>8, Goes, Functions DEF AgentFails
<1>9. CASE CheckCapture(p) \/ BeginCapture(p)
  BY <1>9, Goes DEF CheckCapture, BeginCapture
<1>10. CASE WriteRecord(p) \/ EndCapture(p)
  BY <1>10, Goes, Origins DEF WriteRecord, EndCapture
<1>11. CASE RefuseCapture(p) \/ Reject(p)
  BY <1>11, Goes, Functions, Origins DEF RefuseCapture, Reject
<1>12. CASE Analyze(p) \/ StartFinal(p)
  BY <1>12, Goes, Functions, Origins DEF Analyze, StartFinal
<1>13. CASE Quarantine(p) \/ CheckFinal(p)
  BY <1>13, Goes DEF Quarantine, CheckFinal
<1>14. CASE FreshClone(p) \/ StartOracle(p)
  BY <1>14, Goes DEF FreshClone, StartOracle
<1>15. CASE EndOracle(p) \/ MakeLogs(p)
  BY <1>15, Goes, Functions DEF EndOracle, MakeLogs
<1>16. CASE OracleCompleted(p) \/ Decide(p)
  BY <1>16, Goes, Origins DEF OracleCompleted, Decide
<1>17. CASE RecordAttempt(p) \/ AttemptCompleted(p)
  BY <1>17, Goes DEF RecordAttempt, AttemptCompleted
<1>18. CASE BeginArchive(p) \/ ArchiveFile(p) \/ EndArchive(p)
  BY <1>18, Goes DEF BeginArchive, ArchiveFile, EndArchive
<1>19. CASE Finish(p) \/ WriteReceipt(p)
  BY <1>19, Goes DEF Finish, WriteReceipt
<1>20. CASE SignReceipt(p) \/ Tidy(p)
  BY <1>20, Goes, Functions DEF SignReceipt, Tidy
<1>21. CASE HandleFailure(p) \/ ErrorEvent(p)
  BY <1>21, Goes, Functions DEF HandleFailure, ErrorEvent
<1>22. CASE MoveToError(p) \/ Sweep(p)
  BY <1>22, Goes, Functions, Origins DEF MoveToError, Sweep
<1>23. CASE Raise(p) \/ Abandon(p)
  BY <1>23, Goes, Functions DEF Raise, Abandon
<1>24. CASE BeginAbort(p) \/ StopContainers(p)
  BY <1>24, Goes DEF BeginAbort, StopContainers
<1>25. CASE RequestAbort(p) \/ ConfirmAbort(p)
  BY <1>25, Goes, Functions, Origins DEF RequestAbort, ConfirmAbort
<1>26. CASE BeginClean(p) \/ RemoveTrees(p)
  BY <1>26, Goes DEF BeginClean, RemoveTrees
<1>27. CASE EndClean(p)
  BY <1>27, Goes, Functions, Origins DEF EndClean
<1>28. CASE CheckApply(p) \/ LockApply(p)
  BY <1>28, Goes DEF CheckApply, LockApply
<1>29. CASE CreateBranch(p) \/ PatchBranch(p)
  BY <1>29, Goes DEF CreateBranch, PatchBranch
<1>30. CASE RestoreBranch(p) \/ EndApply(p)
  BY <1>30, Goes, Functions, Origins DEF RestoreBranch, EndApply
<1>. QED
  BY <1>1, <1>2, <1>3, <1>4, <1>5, <1>6, <1>7, <1>8, <1>9, <1>10, <1>11, <1>12, <1>13, <1>14,
     <1>15, <1>16, <1>17, <1>18, <1>19, <1>20, <1>21, <1>22, <1>23, <1>24, <1>25, <1>26,
     <1>27, <1>28, <1>29, <1>30
  DEF Resuming, Attempting, Capturing, Verifying, Closing, Failing, Aborting, Cleaning,
     Applying, Proceed, Acts

\* The patch: it is captured, tested, cleared and verified as one.
LEMMA PatchStep ==
  ASSUME TypeOK, LockInv, AttemptInv, StateInv, PatchInv, NEW p \in Process, Acts(p)
  PROVE  PatchInv'
<1>. USE DEF PatchInv, LockInv, StateInv, PatchLoads, CheckpointsLoad, VerifiedPatchPassed,
   Step, Leave, Working, Handling, Locked, Testing, Stopped, evidence, disk,
   workspaces, notes, Transition, TransitionWhileLocked, MoveTo, AppendEvent
<1>1. CASE BeginResume(p) \/ TakeLease(p)
  BY <1>1, Goes DEF BeginResume, TakeLease
<1>2. CASE ResumeBaseline(p) \/ ResumeCapture(p)
  BY <1>2, Goes, Functions, Numbers DEF ResumeBaseline, ResumeCapture
<1>3. CASE ResumeCaptured(p) \/ ResumeVerified(p)
  BY <1>3, Goes, Functions DEF ResumeCaptured, ResumeVerified
<1>4. CASE NextAttempt(p) \/ Prepare(p)
  BY <1>4, Goes, Functions, Origins, Numbers DEF NextAttempt, Prepare
<1>5. CASE CheckClone(p) \/ BeginClone(p) \/ EndClone(p)
  BY <1>5, Goes DEF CheckClone, BeginClone, EndClone
<1>6. CASE WriteClone(p) \/ StartPatching(p)
  <2>1. CASE StartPatching(p)
    BY <2>1, Goes, Origins DEF StartPatching
  <2>2. CASE WriteClone(p)
    <3>1. patch'.diff = patch.diff /\ patch'.record = patch.record
      BY <2>2, Parts DEF WriteClone
    <3>. QED
      BY <2>2, <3>1, Goes, Origins DEF WriteClone
  <2>. QED
    BY <1>6, <2>1, <2>2
<1>7. CASE StartAgent(p) \/ AgentSucceeds(p)
  BY <1>7, Goes DEF StartAgent, AgentSucceeds
<1>8. CASE AgentFails(p)
  BY <1>8, Goes, Functions DEF AgentFails
<1>9. CASE CheckCapture(p) \/ BeginCapture(p)
  <2>1. CASE CheckCapture(p)
    BY <2>1, Goes DEF CheckCapture
  <2>2. CASE BeginCapture(p)
    <3>1. patch'.diff = attempt[p] /\ patch'.record = patch.record /\ attempt[p] # None
      BY <2>2, Parts DEF BeginCapture, AttemptInv
    <3>. QED
      BY <2>2, <3>1, Goes, Origins DEF BeginCapture
  <2>. QED
    BY <1>9, <2>1, <2>2
<1>10. CASE WriteRecord(p) \/ EndCapture(p)
  <2>1. CASE EndCapture(p)
    BY <2>1, Goes, Origins DEF EndCapture
  <2>2. CASE WriteRecord(p)
    <3>1. patch'.diff = patch.diff /\ patch'.record = patch.diff
      BY <2>2, Parts DEF WriteRecord
    <3>. QED
      BY <2>2, <3>1, Goes, Origins DEF WriteRecord
  <2>. QED
    BY <1>10, <2>1, <2>2
<1>11. CASE RefuseCapture(p) \/ Reject(p)
  BY <1>11, Goes, Functions, Origins DEF RefuseCapture, Reject
<1>12. CASE Analyze(p) \/ StartFinal(p)
  BY <1>12, Goes, Functions, Origins, Numbers DEF Analyze, StartFinal
<1>13. CASE Quarantine(p) \/ CheckFinal(p)
  BY <1>13, Goes, Functions DEF Quarantine, CheckFinal
<1>14. CASE FreshClone(p) \/ StartOracle(p)
  BY <1>14, Goes, Functions DEF FreshClone, StartOracle, AttemptInv
<1>15. CASE EndOracle(p) \/ MakeLogs(p)
  BY <1>15, Goes, Functions DEF EndOracle, MakeLogs
<1>16. CASE OracleCompleted(p) \/ Decide(p)
  BY <1>16, Goes, Origins DEF OracleCompleted, Decide
<1>17. CASE RecordAttempt(p) \/ AttemptCompleted(p)
  BY <1>17, Goes DEF RecordAttempt, AttemptCompleted
<1>18. CASE BeginArchive(p) \/ ArchiveFile(p) \/ EndArchive(p)
  BY <1>18, Goes DEF BeginArchive, ArchiveFile, EndArchive
<1>19. CASE Finish(p) \/ WriteReceipt(p)
  BY <1>19, Goes DEF Finish, WriteReceipt
<1>20. CASE SignReceipt(p) \/ Tidy(p)
  BY <1>20, Goes, Functions DEF SignReceipt, Tidy
<1>21. CASE HandleFailure(p) \/ ErrorEvent(p)
  BY <1>21, Goes, Functions DEF HandleFailure, ErrorEvent
<1>22. CASE MoveToError(p) \/ Sweep(p)
  BY <1>22, Goes, Functions, Origins DEF MoveToError, Sweep
<1>23. CASE Raise(p) \/ Abandon(p)
  BY <1>23, Goes, Functions DEF Raise, Abandon
<1>24. CASE BeginAbort(p) \/ StopContainers(p)
  BY <1>24, Goes DEF BeginAbort, StopContainers
<1>25. CASE RequestAbort(p) \/ ConfirmAbort(p)
  BY <1>25, Goes, Functions, Origins DEF RequestAbort, ConfirmAbort
<1>26. CASE BeginClean(p) \/ RemoveTrees(p)
  BY <1>26, Goes DEF BeginClean, RemoveTrees, TreesRemoved, Completed
<1>27. CASE EndClean(p)
  BY <1>27, Goes, Functions, Origins DEF EndClean
<1>28. CASE CheckApply(p) \/ LockApply(p)
  BY <1>28, Goes DEF CheckApply, LockApply
<1>29. CASE CreateBranch(p) \/ PatchBranch(p)
  BY <1>29, Goes DEF CreateBranch, PatchBranch
<1>30. CASE RestoreBranch(p) \/ EndApply(p)
  BY <1>30, Goes, Functions, Origins DEF RestoreBranch, EndApply
<1>. QED
  BY <1>1, <1>2, <1>3, <1>4, <1>5, <1>6, <1>7, <1>8, <1>9, <1>10, <1>11, <1>12, <1>13, <1>14,
     <1>15, <1>16, <1>17, <1>18, <1>19, <1>20, <1>21, <1>22, <1>23, <1>24, <1>25, <1>26,
     <1>27, <1>28, <1>29, <1>30
  DEF Resuming, Attempting, Capturing, Verifying, Closing, Failing, Aborting, Cleaning,
     Applying, Proceed, Acts

\* The receipt: it is bound once, and stays as it was checked.
LEMMA ReceiptStep ==
  ASSUME TypeOK, LockInv, StateInv, PatchInv, ReceiptInv, NEW p \in Process, Acts(p)
  PROVE  ReceiptInv'
<1>. USE DEF ReceiptInv, LockInv, Step, Leave, Working, Handling, evidence, disk, workspaces,
   Transition, TransitionWhileLocked, MoveTo, AppendEvent
<1>1. CASE BeginResume(p) \/ TakeLease(p)
  BY <1>1, Goes DEF BeginResume, TakeLease
<1>2. CASE ResumeBaseline(p) \/ ResumeCapture(p)
  BY <1>2, Goes DEF ResumeBaseline, ResumeCapture
<1>3. CASE ResumeCaptured(p) \/ ResumeVerified(p)
  BY <1>3, Goes DEF ResumeCaptured, ResumeVerified
<1>4. CASE NextAttempt(p) \/ Prepare(p)
  BY <1>4, Goes, Origins DEF NextAttempt, Prepare
<1>5. CASE CheckClone(p) \/ BeginClone(p) \/ EndClone(p)
  BY <1>5, Goes DEF CheckClone, BeginClone, EndClone
<1>6. CASE WriteClone(p) \/ StartPatching(p)
  <2>1. CASE StartPatching(p)
    BY <2>1, Goes, Origins DEF StartPatching
  <2>2. CASE WriteClone(p)
    <3>1. patch'.diff = patch.diff /\ patch'.record = patch.record
      BY <2>2, Parts DEF WriteClone
    <3>. QED
      BY <2>2, <3>1, Goes, Origins DEF WriteClone
  <2>. QED
    BY <1>6, <2>1, <2>2
<1>7. CASE StartAgent(p) \/ AgentSucceeds(p)
  BY <1>7, Goes DEF StartAgent, AgentSucceeds
<1>8. CASE AgentFails(p)
  BY <1>8, Goes DEF AgentFails
<1>9. CASE CheckCapture(p) \/ BeginCapture(p)
  BY <1>9, Goes, Parts DEF CheckCapture, BeginCapture, PatchInv, PatchLoads,
     VerifiedPatchPassed
<1>10. CASE WriteRecord(p) \/ EndCapture(p)
  BY <1>10, Goes, Parts, Origins DEF WriteRecord, EndCapture, PatchInv, PatchLoads,
     VerifiedPatchPassed, StateInv
<1>11. CASE RefuseCapture(p) \/ Reject(p)
  BY <1>11, Goes, Origins DEF RefuseCapture, Reject
<1>12. CASE Analyze(p) \/ StartFinal(p)
  BY <1>12, Goes, Origins DEF Analyze, StartFinal
<1>13. CASE Quarantine(p) \/ CheckFinal(p)
  BY <1>13, Goes DEF Quarantine, CheckFinal
<1>14. CASE FreshClone(p) \/ StartOracle(p)
  BY <1>14, Goes DEF FreshClone, StartOracle
<1>15. CASE EndOracle(p) \/ MakeLogs(p)
  BY <1>15, Goes DEF EndOracle, MakeLogs
<1>16. CASE OracleCompleted(p) \/ Decide(p)
  BY <1>16, Goes, Origins DEF OracleCompleted, Decide, StateInv, Testing, Stopped
<1>17. CASE RecordAttempt(p) \/ AttemptCompleted(p)
  BY <1>17, Goes DEF RecordAttempt, AttemptCompleted
<1>18. CASE BeginArchive(p) \/ ArchiveFile(p) \/ EndArchive(p)
  BY <1>18, Goes DEF BeginArchive, ArchiveFile, EndArchive, StateInv
<1>19. CASE Finish(p) \/ WriteReceipt(p)
  <2>1. CASE Finish(p)
    BY <2>1, Goes, Origins DEF Finish
  <2>2. CASE WriteReceipt(p)
    <3>1. receipt' \in Receipt
      BY <2>2 DEF WriteReceipt, TypeOK, Receipt
    <3>. QED
      BY <2>2, <3>1, Goes, Origins DEF WriteReceipt
  <2>. QED
    BY <1>19, <2>1, <2>2
<1>20. CASE SignReceipt(p) \/ Tidy(p)
  <2>1. CASE Tidy(p)
    BY <2>1, Goes DEF Tidy
  <2>2. CASE SignReceipt(p)
    <3>1. at[p] = "sign" /\ GoTo(p, "tidy") /\ UNCHANGED <<state, receipt, patch>>
      BY <2>2, Zenon DEF SignReceipt, Step, disk
    <3>2. (p \in tip) \in BOOLEAN
      OBVIOUS
    <3>3. Append(Unbound, p \in tip) \in {InTime, Late}
      BY ONLY <3>2, FirstBinding, Zenon
    <3>4. bindings = Unbound /\ receipt # NoReceipt
      BY <3>1
    <3>5. bindings' \in {InTime, Late}
      BY <2>2, <3>3, <3>4, Zenon DEF SignReceipt
    <3>. QED
      BY <3>1, <3>4, <3>5, Goes, BindingsDiffer
  <2>. QED
    BY <1>20, <2>1, <2>2
<1>21. CASE HandleFailure(p) \/ ErrorEvent(p)
  BY <1>21, Goes DEF HandleFailure, ErrorEvent
<1>22. CASE MoveToError(p) \/ Sweep(p)
  BY <1>22, Goes, Origins DEF MoveToError, Sweep
<1>23. CASE Raise(p) \/ Abandon(p)
  BY <1>23, Goes DEF Raise, Abandon
<1>24. CASE BeginAbort(p) \/ StopContainers(p)
  BY <1>24, Goes DEF BeginAbort, StopContainers
<1>25. CASE RequestAbort(p) \/ ConfirmAbort(p)
  BY <1>25, Goes, Origins DEF RequestAbort, ConfirmAbort
<1>26. CASE BeginClean(p) \/ RemoveTrees(p)
  BY <1>26, Goes DEF BeginClean, RemoveTrees
<1>27. CASE EndClean(p)
  BY <1>27, Goes, Origins DEF EndClean
<1>28. CASE CheckApply(p) \/ LockApply(p)
  <2>1. CASE LockApply(p)
    BY <2>1, Goes, Origins DEF LockApply
  <2>2. CASE CheckApply(p)
    <3>1. receipt # NoReceipt /\ bindings = InTime /\ receipt.status = "verified"
          /\ receipt.patch = patch.diff
      BY <2>2 DEF CheckApply, ReceiptVerifies, PatchLoads, InTime
    <3>. QED
      BY <2>2, <3>1, Goes, Origins DEF CheckApply
  <2>. QED
    BY <1>28, <2>1, <2>2
<1>29. CASE CreateBranch(p) \/ PatchBranch(p)
  BY <1>29, Goes DEF CreateBranch, PatchBranch
<1>30. CASE RestoreBranch(p) \/ EndApply(p)
  BY <1>30, Goes, Origins DEF RestoreBranch, EndApply
<1>. QED
  BY <1>1, <1>2, <1>3, <1>4, <1>5, <1>6, <1>7, <1>8, <1>9, <1>10, <1>11, <1>12, <1>13, <1>14,
     <1>15, <1>16, <1>17, <1>18, <1>19, <1>20, <1>21, <1>22, <1>23, <1>24, <1>25, <1>26,
     <1>27, <1>28, <1>29, <1>30
  DEF Resuming, Attempting, Capturing, Verifying, Closing, Failing, Aborting, Cleaning,
     Applying, Proceed, Acts

\* The containers: none runs where nobody waits for it.
LEMMA ContainerStep ==
  ASSUME TypeOK, LockInv, StateInv, ContainerInv, NEW p \in Process, Acts(p)
  PROVE  ContainerInv'
<1>. USE DEF ContainerInv, LockInv, StateInv, Step, Leave, Working, Handling, Testing, Stopped,
   evidence, Transition, TransitionWhileLocked, MoveTo, AppendEvent
<1>1. CASE BeginResume(p) \/ TakeLease(p)
  BY <1>1, Goes DEF BeginResume, TakeLease
<1>2. CASE ResumeBaseline(p) \/ ResumeCapture(p)
  BY <1>2, Goes DEF ResumeBaseline, ResumeCapture
<1>3. CASE ResumeCaptured(p) \/ ResumeVerified(p)
  BY <1>3, Goes DEF ResumeCaptured, ResumeVerified
<1>4. CASE NextAttempt(p) \/ Prepare(p)
  BY <1>4, Goes, Origins DEF NextAttempt, Prepare
<1>5. CASE CheckClone(p) \/ BeginClone(p) \/ EndClone(p)
  BY <1>5, Goes DEF CheckClone, BeginClone, EndClone
<1>6. CASE WriteClone(p) \/ StartPatching(p)
  BY <1>6, Goes, Origins DEF WriteClone, StartPatching
<1>7. CASE StartAgent(p) \/ AgentSucceeds(p)
  BY <1>7, Goes, Containers DEF StartAgent, AgentSucceeds
<1>8. CASE AgentFails(p)
  BY <1>8, Goes, Containers DEF AgentFails
<1>9. CASE CheckCapture(p) \/ BeginCapture(p)
  BY <1>9, Goes DEF CheckCapture, BeginCapture
<1>10. CASE WriteRecord(p) \/ EndCapture(p)
  BY <1>10, Goes, Origins DEF WriteRecord, EndCapture
<1>11. CASE RefuseCapture(p) \/ Reject(p)
  BY <1>11, Goes, Origins DEF RefuseCapture, Reject
<1>12. CASE Analyze(p) \/ StartFinal(p)
  BY <1>12, Goes, Origins DEF Analyze, StartFinal
<1>13. CASE Quarantine(p) \/ CheckFinal(p)
  BY <1>13, Goes DEF Quarantine, CheckFinal
<1>14. CASE FreshClone(p) \/ StartOracle(p)
  BY <1>14, Goes, Containers DEF FreshClone, StartOracle
<1>15. CASE EndOracle(p) \/ MakeLogs(p)
  BY <1>15, Goes, Containers DEF EndOracle, MakeLogs
<1>16. CASE OracleCompleted(p) \/ Decide(p)
  BY <1>16, Goes, Origins DEF OracleCompleted, Decide
<1>17. CASE RecordAttempt(p) \/ AttemptCompleted(p)
  BY <1>17, Goes DEF RecordAttempt, AttemptCompleted
<1>18. CASE BeginArchive(p) \/ ArchiveFile(p) \/ EndArchive(p)
  BY <1>18, Goes DEF BeginArchive, ArchiveFile, EndArchive
<1>19. CASE Finish(p) \/ WriteReceipt(p)
  BY <1>19, Goes DEF Finish, WriteReceipt
<1>20. CASE SignReceipt(p) \/ Tidy(p)
  BY <1>20, Goes DEF SignReceipt, Tidy
<1>21. CASE HandleFailure(p) \/ ErrorEvent(p)
  BY <1>21, Goes, Containers DEF HandleFailure, ErrorEvent
<1>22. CASE MoveToError(p) \/ Sweep(p)
  BY <1>22, Goes, Origins DEF MoveToError, Sweep
<1>23. CASE Raise(p) \/ Abandon(p)
  BY <1>23, Goes, Containers DEF Raise, Abandon
<1>24. CASE BeginAbort(p) \/ StopContainers(p)
  BY <1>24, Goes, WorkflowAssumption DEF BeginAbort, StopContainers
<1>25. CASE RequestAbort(p) \/ ConfirmAbort(p)
  BY <1>25, Goes, Origins DEF RequestAbort, ConfirmAbort
<1>26. CASE BeginClean(p) \/ RemoveTrees(p)
  BY <1>26, Goes DEF BeginClean, RemoveTrees
<1>27. CASE EndClean(p)
  BY <1>27, Goes, Origins DEF EndClean
<1>28. CASE CheckApply(p) \/ LockApply(p)
  BY <1>28, Goes DEF CheckApply, LockApply
<1>29. CASE CreateBranch(p) \/ PatchBranch(p)
  BY <1>29, Goes DEF CreateBranch, PatchBranch
<1>30. CASE RestoreBranch(p) \/ EndApply(p)
  BY <1>30, Goes, Origins DEF RestoreBranch, EndApply
<1>. QED
  BY <1>1, <1>2, <1>3, <1>4, <1>5, <1>6, <1>7, <1>8, <1>9, <1>10, <1>11, <1>12, <1>13, <1>14,
     <1>15, <1>16, <1>17, <1>18, <1>19, <1>20, <1>21, <1>22, <1>23, <1>24, <1>25, <1>26,
     <1>27, <1>28, <1>29, <1>30
  DEF Resuming, Attempting, Capturing, Verifying, Closing, Failing, Aborting, Cleaning,
     Applying, Proceed, Acts

\* No other step touches the user's repository, except to take a branch back.
LEMMA BranchKept ==
  ASSUME NEW p \in Process, Acts(p), ~ (CreateBranch(p) \/ PatchBranch(p))
  PROVE  branch' \in {branch, "none"}
<1>. USE DEF disk, workspaces, attempts
<1>1. CASE BeginResume(p) \/ TakeLease(p)
  BY <1>1 DEF BeginResume, TakeLease
<1>2. CASE ResumeBaseline(p) \/ ResumeCapture(p)
  BY <1>2 DEF ResumeBaseline, ResumeCapture
<1>3. CASE ResumeCaptured(p) \/ ResumeVerified(p)
  BY <1>3 DEF ResumeCaptured, ResumeVerified
<1>4. CASE NextAttempt(p) \/ Prepare(p)
  BY <1>4 DEF NextAttempt, Prepare
<1>5. CASE CheckClone(p) \/ BeginClone(p) \/ EndClone(p)
  BY <1>5 DEF CheckClone, BeginClone, EndClone
<1>6. CASE WriteClone(p) \/ StartPatching(p)
  BY <1>6 DEF WriteClone, StartPatching
<1>7. CASE StartAgent(p) \/ AgentSucceeds(p)
  BY <1>7 DEF StartAgent, AgentSucceeds
<1>8. CASE AgentFails(p)
  BY <1>8 DEF AgentFails
<1>9. CASE CheckCapture(p) \/ BeginCapture(p)
  BY <1>9 DEF CheckCapture, BeginCapture
<1>10. CASE WriteRecord(p) \/ EndCapture(p)
  BY <1>10 DEF WriteRecord, EndCapture
<1>11. CASE RefuseCapture(p) \/ Reject(p)
  BY <1>11 DEF RefuseCapture, Reject
<1>12. CASE Analyze(p) \/ StartFinal(p)
  BY <1>12 DEF Analyze, StartFinal
<1>13. CASE Quarantine(p) \/ CheckFinal(p)
  BY <1>13 DEF Quarantine, CheckFinal
<1>14. CASE FreshClone(p) \/ StartOracle(p)
  BY <1>14 DEF FreshClone, StartOracle
<1>15. CASE EndOracle(p) \/ MakeLogs(p)
  BY <1>15 DEF EndOracle, MakeLogs
<1>16. CASE OracleCompleted(p) \/ Decide(p)
  BY <1>16 DEF OracleCompleted, Decide
<1>17. CASE RecordAttempt(p) \/ AttemptCompleted(p)
  BY <1>17 DEF RecordAttempt, AttemptCompleted
<1>18. CASE BeginArchive(p) \/ ArchiveFile(p) \/ EndArchive(p)
  BY <1>18 DEF BeginArchive, ArchiveFile, EndArchive
<1>19. CASE Finish(p) \/ WriteReceipt(p)
  BY <1>19 DEF Finish, WriteReceipt
<1>20. CASE SignReceipt(p) \/ Tidy(p)
  BY <1>20 DEF SignReceipt, Tidy
<1>21. CASE HandleFailure(p) \/ ErrorEvent(p)
  BY <1>21 DEF HandleFailure, ErrorEvent
<1>22. CASE MoveToError(p) \/ Sweep(p)
  BY <1>22 DEF MoveToError, Sweep
<1>23. CASE Raise(p) \/ Abandon(p)
  BY <1>23 DEF Raise, Abandon
<1>24. CASE BeginAbort(p) \/ StopContainers(p)
  BY <1>24 DEF BeginAbort, StopContainers
<1>25. CASE RequestAbort(p) \/ ConfirmAbort(p)
  BY <1>25 DEF RequestAbort, ConfirmAbort
<1>26. CASE BeginClean(p) \/ RemoveTrees(p)
  BY <1>26 DEF BeginClean, RemoveTrees
<1>27. CASE EndClean(p)
  BY <1>27 DEF EndClean
<1>28. CASE CheckApply(p) \/ LockApply(p)
  BY <1>28 DEF CheckApply, LockApply
<1>29. CASE CreateBranch(p) \/ PatchBranch(p)
  BY <1>29 DEF CreateBranch, PatchBranch
<1>30. CASE RestoreBranch(p) \/ EndApply(p)
  BY <1>30 DEF RestoreBranch, EndApply
<1>. QED
  BY <1>1, <1>2, <1>3, <1>4, <1>5, <1>6, <1>7, <1>8, <1>9, <1>10, <1>11, <1>12, <1>13, <1>14,
     <1>15, <1>16, <1>17, <1>18, <1>19, <1>20, <1>21, <1>22, <1>23, <1>24, <1>25, <1>26,
     <1>27, <1>28, <1>29, <1>30
  DEF Resuming, Attempting, Capturing, Verifying, Closing, Failing, Aborting, Cleaning,
     Applying, Proceed, Acts
-----------------------------------------------------------------------------
(* The invariant and what follows from it.                                 *)

\* The types hold at first.
LEMMA TypeInit == Init => TypeOK
<1>. SUFFICES ASSUME Init PROVE TypeOK
  OBVIOUS
<1>1. at \in [Process -> Place] /\ outcome \in [Process -> Outcome]
  BY DEF Init, Place, Outcome
<1>2. records \in 0 .. MaxAttempts /\ bindings \in Seq(BOOLEAN)
  BY DEF Init
<1>3. state \in RunState
  BY DEF Init, RunState
<1>. QED
  BY <1>1, <1>2, <1>3 DEF Init, TypeOK

\* The invariant holds at first.
LEMMA IInvInit == Init => IInv
<1>. SUFFICES ASSUME Init PROVE IInv
  OBVIOUS
<1>1. LockInv /\ AttemptInv
  BY DEF Init, LockInv, AttemptInv, Working, Handling, Locked
<1>2. StateInv /\ ContainerInv
  BY DEF Init, StateInv, ContainerInv, Testing
<1>3. PatchInv
  BY DEF Init, PatchInv, CheckpointsLoad, VerifiedPatchPassed
<1>4. ReceiptInv
  BY DEF Init, ReceiptInv, Unbound
<1>. QED
  BY <1>1, <1>2, <1>3, <1>4, TypeInit DEF IInv

\* The invariant is kept by every step of every process.
LEMMA IInvStep == IInv /\ [Next]_vars => IInv'
<1>. SUFFICES ASSUME IInv, [Next]_vars PROVE IInv'
  OBVIOUS
<1>1. CASE UNCHANGED vars
  <2>. USE <1>1 DEF vars, evidence, disk, workspaces, attempts, locks, notes
  <2>1. TypeOK' /\ LockInv' /\ AttemptInv' /\ StateInv' /\ ContainerInv'
    BY DEF IInv, TypeOK, LockInv, AttemptInv, StateInv, ContainerInv
  <2>2. PatchInv'
    BY DEF IInv, PatchInv, CheckpointsLoad, VerifiedPatchPassed, PatchLoads
  <2>3. ReceiptInv'
    BY DEF IInv, ReceiptInv
  <2>. QED
    BY <2>1, <2>2, <2>3 DEF IInv
<1>2. CASE Next
  <2>. PICK p \in Process : Acts(p)
    BY <1>2, Zenon DEF Next, Acts
  <2>. QED
    BY TypeStep, LockStep, AttemptStep, StateStep, PatchStep, ReceiptStep, ContainerStep DEF
       IInv
<1>. QED
  BY <1>1, <1>2

\* It is an invariant of the specification.
LEMMA IInvHolds == Spec => []IInv
BY IInvInit, IInvStep, PTL DEF Spec

\* All values of all variables are of their types in every reachable state.
THEOREM TypeCorrect == Spec => []TypeOK
<1>1. IInv => TypeOK
  BY DEF IInv
<1>. QED
  BY <1>1, IInvHolds, PTL

\* A verified or applied run holds the whole, bound patch whose oracles passed,
\* whatever was retried, resumed, aborted or abandoned, by however many processes.
THEOREM VerifiedPassed == Spec => []VerifiedPatchPassed
<1>1. IInv => VerifiedPatchPassed
  BY DEF IInv, PatchInv
<1>. QED
  BY <1>1, IInvHolds, PTL

\* In the checkpoints after a capture the patch that resume loads is always there.
THEOREM CheckpointsLoadable == Spec => []CheckpointsLoad
<1>1. IInv => CheckpointsLoad
  BY DEF IInv, PatchInv
<1>. QED
  BY <1>1, IInvHolds, PTL

\* The evidence binds at most one receipt, and its files exist.
THEOREM ReceiptBoundOnce == Spec => []OneReceipt
<1>1. ASSUME IInv PROVE OneReceipt
  <2>1. InTime = <<TRUE>> /\ Late = <<FALSE>> /\ Unbound = <<>>
    BY DEF InTime, Late, Unbound
  <2>2. Len(<<TRUE>>) = 1 /\ Len(<<FALSE>>) = 1
    OBVIOUS
  <2>3. bindings # <<>> => receipt # NoReceipt /\ bindings \in {<<TRUE>>, <<FALSE>>}
    BY <1>1, <2>1, Zenon DEF IInv, ReceiptInv
  <2>. QED
    BY <2>2, <2>3, Zenon DEF OneReceipt
<1>. QED
  BY <1>1, IInvHolds, PTL

\* The user's repository is changed only for a run that is verified at that moment, by
\* a receipt that verifies and names a patch that passed.
THEOREM Authorised == Spec => ChangesAreAuthorised
<1>1. ASSUME IInv, Next, branch' \notin {branch, "none"}
      PROVE  /\ state = "VERIFIED" /\ ReceiptVerifies /\ receipt.status = "verified"
             /\ receipt.patch \in cleared
  <2>. PICK p \in Process : Acts(p)
    BY <1>1, Zenon DEF Next, Acts
  <2>1. CASE CreateBranch(p) \/ PatchBranch(p)
    <3>1. at[p] \in {"applying", "branched"}
      BY <2>1 DEF CreateBranch, PatchBranch, Step
    <3>2. state = "VERIFIED"
      BY <1>1, <3>1 DEF IInv, StateInv
    <3>3. /\ receipt # NoReceipt /\ bindings = InTime /\ receipt.status = "verified"
          /\ receipt.patch = patch.diff
      BY <1>1, <3>1, <3>2 DEF IInv, ReceiptInv
    <3>4. patch.record = patch.diff /\ patch.diff \in cleared
      BY <1>1, <3>2 DEF IInv, PatchInv, VerifiedPatchPassed, PatchLoads
    <3>5. ReceiptVerifies
      BY <3>2, <3>3, <3>4, Zenon DEF ReceiptVerifies, InTime
    <3>. QED
      BY <3>2, <3>3, <3>4, <3>5
  <2>2. CASE ~ (CreateBranch(p) \/ PatchBranch(p))
    <3>1. branch' \in {branch, "none"}
      BY <2>2, BranchKept
    <3>. QED
      BY <1>1, <3>1
  <2>. QED
    BY <2>1, <2>2
<1>2. ASSUME IInv, [Next]_vars
      PROVE  [branch' \notin {branch, "none"} =>
                /\ state = "VERIFIED" /\ ReceiptVerifies /\ receipt.status = "verified"
                /\ receipt.patch \in cleared]_vars
  BY <1>1, <1>2
<1>. QED
  BY <1>2, IInvHolds, PTL DEF Spec, ChangesAreAuthorised

\* clean removes no workspace that the running container of a workflow has mounted, except
\* those of an aborted run.  A container that has lost its workflow (its controller was
\* killed, or docker would not stop it) is nobody's, and not spared.
THEOREM ContainersSpared == Spec => CleanSparesContainers
<1>1. ASSUME IInv, NEW p \in Process, RemoveTrees(p), state # "ABORTED", NEW q \in Process
      PROVE  container[q] # "running"
  <2>1. state \in Completed
    BY <1>1 DEF IInv, StateInv, RemoveTrees, Step
  <2>2. state # "CLEANED"
    BY <2>1 DEF Completed
  <2>. QED
    BY <1>1, <2>1, <2>2 DEF IInv, ContainerInv, Stopped, Completed
<1>2. ASSUME IInv, [Next]_vars
      PROVE  [\A p \in Process : (RemoveTrees(p) /\ state # "ABORTED") =>
                \A q \in Process : container[q] # "running"]_vars
  BY <1>1, <1>2
<1>. QED
  BY <1>2, IInvHolds, PTL DEF Spec, CleanSparesContainers
-----------------------------------------------------------------------------
(* The promise that a run keeps: what the refinement of PatchRun rests on. *)

(* Where the clone of the next attempt is made, and its patch captured. *)
Preparing == {"prepare", "clone", "checked", "cloning", "clonefile", "patching"}
Taking == {"captured", "capturing", "binding"}

(* A workflow works on the attempt after those on record, in the clone that clone.json *)
(* names; after a resume that clone may be an older one, until the state is checked.   *)
NumberInv ==
  /\ state = "PATCHING" => patch.clone = records + 1
  /\ \A p \in Process :
       /\ at[p] \in Preparing \union Taking => attempt[p] = records + 1
       /\ at[p] \in Taking \union {"patching", "agent", "running", "capture", "reject"} =>
            attempt[p] = patch.clone
       /\ at[p] = "recorded" => attempt[p] = records

(* No patch is captured of a later attempt, and that of this one stays until it is on *)
(* record.                                                                            *)
CaptureInv ==
  /\ \A k \in captured : k <= records + 1
  /\ records + 1 \in captured => patch.diff = records + 1
  /\ \A p \in Process :
       /\ at[p] \in {"capturing", "binding"} =>
            patch.diff = records + 1 /\ records + 1 \notin captured
       /\ at[p] \in {"recorded", "archive", "archiving"} => records + 1 \notin captured

(* More of the states that each call can still meet. *)
StageInv ==
  \A p \in Process :
    /\ at[p] \in Preparing \ {"prepare"} => state \in {"PATCH_PREPARING"} \union Stopped
    /\ at[p] \in Taking => state \in {"PATCHING"} \union Stopped
    /\ at[p] = "reject" /\ outcome[p] = "empty" => state \in {"PATCHING"} \union Stopped
    /\ at[p] \in {"record", "recorded"} /\ outcome[p] = "passed" =>
         state \in {"VERIFIED", "APPLIED", "CLEANED"}
    /\ at[p] \in {"finish", "receipt", "sign"} =>
         state \in {"REJECTED", "VERIFIED", "APPLIED"} \union Stopped
    /\ at[p] \in {"finish", "receipt"} /\ outcome[p] = "empty" =>
         state \in {"REJECTED"} \union Stopped

(* A rejected run that gets its receipt has no attempt left, or no place for a clone. *)
Spent == patch.clone # None \/ records = MaxAttempts

(* No attempt follows a receipt. *)
SpentInv ==
  /\ receipt # NoReceipt =>
       /\ state \in {"REJECTED", "PATCH_PREPARING", "VERIFIED", "APPLIED", "ERROR"}
                      \union Stopped
       /\ state = "PATCH_PREPARING" => patch.clone # None
       /\ state = "REJECTED" => Spent
  /\ \A p \in Process :
       /\ at[p] = "patching" /\ state = "PATCH_PREPARING" => receipt = NoReceipt
       /\ at[p] \in {"record", "recorded", "archive", "archiving"} => receipt = NoReceipt
       /\ at[p] \in {"finish", "receipt"} /\ state = "REJECTED" => Spent

(* A receipt that is about to be bound says what has become of the run; one that says *)
(* it is verified is bound before the run goes on.                                    *)
BindInv ==
  /\ state = "APPLIED" => bindings # Unbound
  /\ \A p \in Process :
       /\ at[p] \in {"cleaning", "cleaned"} /\ state \in {"VERIFIED", "APPLIED"} =>
            bindings # Unbound
       /\ at[p] = "receipt" /\ bindings = Unbound =>
            (seen[p] = "VERIFIED" <=> state = "VERIFIED")
       /\ at[p] = "sign" =>
            IF receipt.status = "verified" THEN state = "VERIFIED" /\ receipt.patch = patch.diff
                                           ELSE state # "VERIFIED"

(* How far an apply has come with its branch. *)
BranchInv ==
  \A p \in Process :
    /\ at[p] = "branched" => branch = "created"
    /\ at[p] = "patched" => branch = "patched"

RunInv == IInv /\ NumberInv /\ CaptureInv /\ StageInv /\ SpentInv /\ BindInv /\ BranchInv

\* Attempts are counted with natural numbers.
LEMMA Counted ==
  TypeOK => /\ records \in Nat /\ captured \subseteq Nat
            /\ MaxAttempts \in Nat
            /\ \A p \in Process : attempt[p] \in Nat
            /\ patch.diff \in Nat /\ patch.clone \in Nat
BY DEF TypeOK, Attempt, None

\* What a process has read is a state, if it goes by one.
LEMMA Noted == TypeOK => seen \in [Process -> RunState \union {NoState}]
BY DEF TypeOK

\* Which states are left for REJECTED, and for VERIFIED.
LEMMA Rejecting ==
  ASSUME NEW current
  PROVE  /\ CanTransition(current, "REJECTED") =>
              current \in {"CONTRACT_SUBMITTED", "BASELINE_NOT_REPRODUCED", "PATCHING",
                           "FINAL_VERIFYING"}
         /\ CanTransition(current, "VERIFIED") => current = "FINAL_VERIFYING"
BY DEF CanTransition, ValidTransitions, Progress, Interruptible

\* A decision ends the final verification, one way or the other.
LEMMA Deciding ==
  ASSUME StateInv, NEW p \in Process, Decide(p)
  PROVE  /\ state = "FINAL_VERIFYING"
         /\ state' = IF outcome[p] = "passed" THEN "VERIFIED" ELSE "REJECTED"
<1>1. at[p] \in Testing
  BY DEF Decide, Step, Testing
<1>2. state \in {"FINAL_VERIFYING", "ABORTED", "CLEANED"}
  BY <1>1 DEF StateInv, Stopped
<1>3. CASE outcome[p] = "passed"
  <2>1. CanTransition(state, "VERIFIED") /\ state' = "VERIFIED"
    BY <1>3 DEF Decide, Transition, MoveTo
  <2>. QED
    BY <1>3, <2>1, Rejecting
<1>4. CASE outcome[p] # "passed"
  <2>1. CanTransition(state, "REJECTED") /\ state' = "REJECTED"
    BY <1>4 DEF Decide, Transition, MoveTo
  <2>. QED
    BY <1>2, <1>4, <2>1, Rejecting
<1>. QED
  BY <1>3, <1>4

\* The attempts: a workflow works on the next one, in the clone that clone.json names.
LEMMA NumberStep ==
  ASSUME TypeOK, LockInv, StateInv, StageInv, NumberInv, NEW p \in Process, Acts(p)
  PROVE  NumberInv'
<1>. USE DEF NumberInv, LockInv, StateInv, Preparing, Taking, Step, Leave, Working, Handling,
   Stopped, evidence, disk, workspaces, attempts, notes, Transition, TransitionWhileLocked,
   MoveTo, AppendEvent
<1>1. CASE BeginResume(p) \/ TakeLease(p)
  BY <1>1, Goes DEF BeginResume, TakeLease
<1>2. CASE ResumeBaseline(p) \/ ResumeCapture(p)
  BY <1>2, Goes, Functions DEF ResumeBaseline, ResumeCapture
<1>3. CASE ResumeCaptured(p) \/ ResumeVerified(p)
  BY <1>3, Goes, Functions DEF ResumeCaptured, ResumeVerified
<1>4. CASE NextAttempt(p) \/ Prepare(p)
  BY <1>4, Goes, Functions, Origins DEF NextAttempt, Prepare
<1>5. CASE CheckClone(p) \/ BeginClone(p) \/ EndClone(p)
  BY <1>5, Goes DEF CheckClone, BeginClone, EndClone
<1>6. CASE WriteClone(p) \/ StartPatching(p)
  <2>1. CASE WriteClone(p)
    <3>1. patch'.diff = patch.diff /\ patch'.record = patch.record /\ patch'.clone = attempt[p]
      BY <2>1, Parts DEF WriteClone
    <3>. QED
      BY <2>1, <3>1, Goes, Counted DEF WriteClone
  <2>2. CASE StartPatching(p)
    BY <2>2, Goes, Origins, Counted DEF StartPatching
  <2>. QED
    BY <1>6, <2>1, <2>2
<1>7. CASE StartAgent(p) \/ AgentSucceeds(p)
  BY <1>7, Goes DEF StartAgent, AgentSucceeds
<1>8. CASE AgentFails(p)
  BY <1>8, Goes, Functions DEF AgentFails
<1>9. CASE CheckCapture(p) \/ BeginCapture(p)
  <2>1. CASE CheckCapture(p)
    BY <2>1, Goes DEF CheckCapture
  <2>2. CASE BeginCapture(p)
    <3>1. patch'.diff = attempt[p] /\ patch'.record = patch.record /\ patch'.clone = patch.clone
      BY <2>2, Parts DEF BeginCapture
    <3>. QED
      BY <2>2, <3>1, Goes DEF BeginCapture
  <2>. QED
    BY <1>9, <2>1, <2>2
<1>10. CASE WriteRecord(p) \/ EndCapture(p)
  <2>1. CASE WriteRecord(p)
    <3>1. patch'.diff = patch.diff /\ patch'.record = patch.diff /\ patch'.clone = patch.clone
      BY <2>1, Parts DEF WriteRecord
    <3>. QED
      BY <2>1, <3>1, Goes DEF WriteRecord
  <2>2. CASE EndCapture(p)
    BY <2>2, Goes, Origins DEF EndCapture
  <2>. QED
    BY <1>10, <2>1, <2>2
<1>11. CASE RefuseCapture(p) \/ Reject(p)
  BY <1>11, Goes, Functions, Origins DEF RefuseCapture, Reject
<1>12. CASE Analyze(p) \/ StartFinal(p)
  BY <1>12, Goes, Functions, Origins DEF Analyze, StartFinal
<1>13. CASE Quarantine(p) \/ CheckFinal(p)
  BY <1>13, Goes DEF Quarantine, CheckFinal
<1>14. CASE FreshClone(p) \/ StartOracle(p)
  BY <1>14, Goes DEF FreshClone, StartOracle
<1>15. CASE EndOracle(p) \/ MakeLogs(p)
  BY <1>15, Goes, Functions DEF EndOracle, MakeLogs
<1>16. CASE OracleCompleted(p) \/ Decide(p)
  BY <1>16, Goes, Origins DEF OracleCompleted, Decide
<1>17. CASE RecordAttempt(p) \/ AttemptCompleted(p)
  <2>1. CASE RecordAttempt(p)
    BY <2>1, Goes, Counted DEF RecordAttempt, StageInv
  <2>2. CASE AttemptCompleted(p)
    BY <2>2, Goes DEF AttemptCompleted
  <2>. QED
    BY <1>17, <2>1, <2>2
<1>18. CASE BeginArchive(p) \/ ArchiveFile(p) \/ EndArchive(p)
  BY <1>18, Goes DEF BeginArchive, ArchiveFile, EndArchive
<1>19. CASE Finish(p) \/ WriteReceipt(p)
  BY <1>19, Goes, Functions DEF Finish, WriteReceipt
<1>20. CASE SignReceipt(p) \/ Tidy(p)
  BY <1>20, Goes, Functions DEF SignReceipt, Tidy
<1>21. CASE HandleFailure(p) \/ ErrorEvent(p)
  BY <1>21, Goes, Functions DEF HandleFailure, ErrorEvent
<1>22. CASE MoveToError(p) \/ Sweep(p)
  BY <1>22, Goes, Functions, Origins DEF MoveToError, Sweep
<1>23. CASE Raise(p) \/ Abandon(p)
  BY <1>23, Goes, Functions DEF Raise, Abandon
<1>24. CASE BeginAbort(p) \/ StopContainers(p)
  BY <1>24, Goes DEF BeginAbort, StopContainers
<1>25. CASE RequestAbort(p) \/ ConfirmAbort(p)
  BY <1>25, Goes, Functions, Origins DEF RequestAbort, ConfirmAbort
<1>26. CASE BeginClean(p) \/ RemoveTrees(p)
  BY <1>26, Goes DEF BeginClean, RemoveTrees
<1>27. CASE EndClean(p)
  BY <1>27, Goes, Functions, Origins DEF EndClean
<1>28. CASE CheckApply(p) \/ LockApply(p)
  BY <1>28, Goes DEF CheckApply, LockApply
<1>29. CASE CreateBranch(p) \/ PatchBranch(p)
  BY <1>29, Goes DEF CreateBranch, PatchBranch
<1>30. CASE RestoreBranch(p) \/ EndApply(p)
  BY <1>30, Goes, Functions, Origins DEF RestoreBranch, EndApply
<1>. QED
  BY <1>1, <1>2, <1>3, <1>4, <1>5, <1>6, <1>7, <1>8, <1>9, <1>10, <1>11, <1>12, <1>13, <1>14,
     <1>15, <1>16, <1>17, <1>18, <1>19, <1>20, <1>21, <1>22, <1>23, <1>24, <1>25, <1>26,
     <1>27, <1>28, <1>29, <1>30
  DEF Resuming, Attempting, Capturing, Verifying, Closing, Failing, Aborting, Cleaning,
     Applying, Proceed, Acts

\* The captures: none is of a later attempt, and this attempt's is on disk or missing.
LEMMA CaptureStep ==
  ASSUME TypeOK, LockInv, AttemptInv, PatchInv, NumberInv, CaptureInv,
         NEW p \in Process, Acts(p)
  PROVE  CaptureInv'
<1>. USE DEF CaptureInv, LockInv, Step, Leave, Working, Handling,
   evidence, disk, workspaces, attempts, Transition, TransitionWhileLocked, MoveTo,
   AppendEvent
<1>1. CASE BeginResume(p) \/ TakeLease(p)
  BY <1>1, Goes DEF BeginResume, TakeLease
<1>2. CASE ResumeBaseline(p) \/ ResumeCapture(p)
  BY <1>2, Goes, Functions DEF ResumeBaseline, ResumeCapture
<1>3. CASE ResumeCaptured(p) \/ ResumeVerified(p)
  BY <1>3, Goes, Functions DEF ResumeCaptured, ResumeVerified
<1>4. CASE NextAttempt(p) \/ Prepare(p)
  BY <1>4, Goes, Functions, Origins DEF NextAttempt, Prepare
<1>5. CASE CheckClone(p) \/ BeginClone(p) \/ EndClone(p)
  BY <1>5, Goes DEF CheckClone, BeginClone, EndClone
<1>6. CASE WriteClone(p) \/ StartPatching(p)
  <2>1. CASE WriteClone(p)
    <3>1. patch'.diff = patch.diff /\ patch'.record = patch.record /\ patch'.clone = attempt[p]
      BY <2>1, Parts DEF WriteClone
    <3>. QED
      BY <2>1, <3>1, Goes DEF WriteClone
  <2>2. CASE StartPatching(p)
    BY <2>2, Goes, Origins DEF StartPatching
  <2>. QED
    BY <1>6, <2>1, <2>2
<1>7. CASE StartAgent(p) \/ AgentSucceeds(p)
  BY <1>7, Goes DEF StartAgent, AgentSucceeds
<1>8. CASE AgentFails(p)
  BY <1>8, Goes, Functions DEF AgentFails
<1>9. CASE CheckCapture(p) \/ BeginCapture(p)
  <2>1. CASE CheckCapture(p)
    BY <2>1, Goes DEF CheckCapture
  <2>2. CASE BeginCapture(p)
    <3>1. patch'.diff = attempt[p] /\ patch'.record = patch.record /\ patch'.clone = patch.clone
      BY <2>2, Parts DEF BeginCapture
    <3>. QED
      BY <2>2, <3>1, Goes, Numbers, Counted DEF BeginCapture, NumberInv, Taking, None
  <2>. QED
    BY <1>9, <2>1, <2>2
<1>10. CASE WriteRecord(p) \/ EndCapture(p)
  <2>1. CASE WriteRecord(p)
    <3>1. patch'.diff = patch.diff /\ patch'.record = patch.diff /\ patch'.clone = patch.clone
      BY <2>1, Parts DEF WriteRecord
    <3>. QED
      BY <2>1, <3>1, Goes DEF WriteRecord
  <2>2. CASE EndCapture(p)
    BY <2>2, Goes, Origins, Counted DEF EndCapture, PatchInv
  <2>. QED
    BY <1>10, <2>1, <2>2
<1>11. CASE RefuseCapture(p) \/ Reject(p)
  BY <1>11, Goes, Functions, Origins DEF RefuseCapture, Reject
<1>12. CASE Analyze(p) \/ StartFinal(p)
  BY <1>12, Goes, Functions, Origins DEF Analyze, StartFinal
<1>13. CASE Quarantine(p) \/ CheckFinal(p)
  BY <1>13, Goes DEF Quarantine, CheckFinal
<1>14. CASE FreshClone(p) \/ StartOracle(p)
  BY <1>14, Goes DEF FreshClone, StartOracle
<1>15. CASE EndOracle(p) \/ MakeLogs(p)
  BY <1>15, Goes, Functions DEF EndOracle, MakeLogs
<1>16. CASE OracleCompleted(p) \/ Decide(p)
  BY <1>16, Goes, Origins DEF OracleCompleted, Decide
<1>17. CASE RecordAttempt(p) \/ AttemptCompleted(p)
  BY <1>17, Goes, Numbers, Counted DEF RecordAttempt, AttemptCompleted
<1>18. CASE BeginArchive(p) \/ ArchiveFile(p) \/ EndArchive(p)
  BY <1>18, Goes, Numbers, Counted DEF BeginArchive, ArchiveFile, EndArchive
<1>19. CASE Finish(p) \/ WriteReceipt(p)
  BY <1>19, Goes, Functions DEF Finish, WriteReceipt
<1>20. CASE SignReceipt(p) \/ Tidy(p)
  BY <1>20, Goes, Functions DEF SignReceipt, Tidy
<1>21. CASE HandleFailure(p) \/ ErrorEvent(p)
  BY <1>21, Goes, Functions DEF HandleFailure, ErrorEvent
<1>22. CASE MoveToError(p) \/ Sweep(p)
  BY <1>22, Goes, Functions, Origins DEF MoveToError, Sweep
<1>23. CASE Raise(p) \/ Abandon(p)
  BY <1>23, Goes, Functions DEF Raise, Abandon
<1>24. CASE BeginAbort(p) \/ StopContainers(p)
  BY <1>24, Goes DEF BeginAbort, StopContainers
<1>25. CASE RequestAbort(p) \/ ConfirmAbort(p)
  BY <1>25, Goes, Functions, Origins DEF RequestAbort, ConfirmAbort
<1>26. CASE BeginClean(p) \/ RemoveTrees(p)
  BY <1>26, Goes DEF BeginClean, RemoveTrees
<1>27. CASE EndClean(p)
  BY <1>27, Goes, Functions, Origins DEF EndClean
<1>28. CASE CheckApply(p) \/ LockApply(p)
  BY <1>28, Goes DEF CheckApply, LockApply
<1>29. CASE CreateBranch(p) \/ PatchBranch(p)
  BY <1>29, Goes DEF CreateBranch, PatchBranch
<1>30. CASE RestoreBranch(p) \/ EndApply(p)
  BY <1>30, Goes, Functions, Origins DEF RestoreBranch, EndApply
<1>. QED
  BY <1>1, <1>2, <1>3, <1>4, <1>5, <1>6, <1>7, <1>8, <1>9, <1>10, <1>11, <1>12, <1>13, <1>14,
     <1>15, <1>16, <1>17, <1>18, <1>19, <1>20, <1>21, <1>22, <1>23, <1>24, <1>25, <1>26,
     <1>27, <1>28, <1>29, <1>30
  DEF Resuming, Attempting, Capturing, Verifying, Closing, Failing, Aborting, Cleaning,
     Applying, Proceed, Acts

\* The stages of a workflow, and what only other commands make of the run meanwhile.
LEMMA StageStep ==
  ASSUME TypeOK, LockInv, StateInv, StageInv, NEW p \in Process, Acts(p)
  PROVE  StageInv'
<1>. USE DEF StageInv, LockInv, StateInv, Preparing, Taking, Step, Leave, Working, Handling,
   Testing, Stopped, Completed, evidence, notes, Transition, TransitionWhileLocked, MoveTo,
   AppendEvent
<1>1. CASE BeginResume(p) \/ TakeLease(p)
  BY <1>1, Goes DEF BeginResume, TakeLease
<1>2. CASE ResumeBaseline(p) \/ ResumeCapture(p)
  BY <1>2, Goes, Functions DEF ResumeBaseline, ResumeCapture
<1>3. CASE ResumeCaptured(p) \/ ResumeVerified(p)
  BY <1>3, Goes, Functions DEF ResumeCaptured, ResumeVerified
<1>4. CASE NextAttempt(p) \/ Prepare(p)
  BY <1>4, Goes, Functions, Origins DEF NextAttempt, Prepare
<1>5. CASE CheckClone(p) \/ BeginClone(p) \/ EndClone(p)
  BY <1>5, Goes DEF CheckClone, BeginClone, EndClone
<1>6. CASE WriteClone(p) \/ StartPatching(p)
  BY <1>6, Goes, Origins, Parts DEF WriteClone, StartPatching
<1>7. CASE StartAgent(p) \/ AgentSucceeds(p)
  BY <1>7, Goes DEF StartAgent, AgentSucceeds
<1>8. CASE AgentFails(p)
  BY <1>8, Goes, Functions DEF AgentFails
<1>9. CASE CheckCapture(p) \/ BeginCapture(p)
  BY <1>9, Goes, Parts DEF CheckCapture, BeginCapture
<1>10. CASE WriteRecord(p) \/ EndCapture(p)
  BY <1>10, Goes, Origins, Parts DEF WriteRecord, EndCapture
<1>11. CASE RefuseCapture(p) \/ Reject(p)
  BY <1>11, Goes, Functions, Origins DEF RefuseCapture, Reject
<1>12. CASE Analyze(p) \/ StartFinal(p)
  BY <1>12, Goes, Functions, Origins DEF Analyze, StartFinal
<1>13. CASE Quarantine(p) \/ CheckFinal(p)
  BY <1>13, Goes DEF Quarantine, CheckFinal
<1>14. CASE FreshClone(p) \/ StartOracle(p)
  BY <1>14, Goes DEF FreshClone, StartOracle
<1>15. CASE EndOracle(p) \/ MakeLogs(p)
  BY <1>15, Goes, Functions DEF EndOracle, MakeLogs
<1>16. CASE OracleCompleted(p) \/ Decide(p)
  BY <1>16, Goes, Origins DEF OracleCompleted, Decide
<1>17. CASE RecordAttempt(p) \/ AttemptCompleted(p)
  BY <1>17, Goes DEF RecordAttempt, AttemptCompleted
<1>18. CASE BeginArchive(p) \/ ArchiveFile(p) \/ EndArchive(p)
  BY <1>18, Goes DEF BeginArchive, ArchiveFile, EndArchive
<1>19. CASE Finish(p) \/ WriteReceipt(p)
  BY <1>19, Goes, Functions DEF Finish, WriteReceipt
<1>20. CASE SignReceipt(p) \/ Tidy(p)
  BY <1>20, Goes, Functions DEF SignReceipt, Tidy
<1>21. CASE HandleFailure(p) \/ ErrorEvent(p)
  BY <1>21, Goes, Functions DEF HandleFailure, ErrorEvent
<1>22. CASE MoveToError(p) \/ Sweep(p)
  BY <1>22, Goes, Functions, Origins DEF MoveToError, Sweep
<1>23. CASE Raise(p) \/ Abandon(p)
  BY <1>23, Goes, Functions DEF Raise, Abandon
<1>24. CASE BeginAbort(p) \/ StopContainers(p)
  BY <1>24, Goes DEF BeginAbort, StopContainers
<1>25. CASE RequestAbort(p) \/ ConfirmAbort(p)
  BY <1>25, Goes, Functions, Origins DEF RequestAbort, ConfirmAbort
<1>26. CASE BeginClean(p) \/ RemoveTrees(p)
  BY <1>26, Goes DEF BeginClean, RemoveTrees
<1>27. CASE EndClean(p)
  BY <1>27, Goes, Functions, Origins DEF EndClean
<1>28. CASE CheckApply(p) \/ LockApply(p)
  BY <1>28, Goes DEF CheckApply, LockApply
<1>29. CASE CreateBranch(p) \/ PatchBranch(p)
  BY <1>29, Goes DEF CreateBranch, PatchBranch
<1>30. CASE RestoreBranch(p) \/ EndApply(p)
  BY <1>30, Goes, Functions, Origins DEF RestoreBranch, EndApply
<1>. QED
  BY <1>1, <1>2, <1>3, <1>4, <1>5, <1>6, <1>7, <1>8, <1>9, <1>10, <1>11, <1>12, <1>13, <1>14,
     <1>15, <1>16, <1>17, <1>18, <1>19, <1>20, <1>21, <1>22, <1>23, <1>24, <1>25, <1>26,
     <1>27, <1>28, <1>29, <1>30
  DEF Resuming, Attempting, Capturing, Verifying, Closing, Failing, Aborting, Cleaning,
     Applying, Proceed, Acts

\* No attempt follows a receipt.
LEMMA SpentStep ==
  ASSUME TypeOK, LockInv, AttemptInv, StateInv, NumberInv, StageInv, SpentInv,
         NEW p \in Process, Acts(p)
  PROVE  SpentInv'
<1>. USE DEF SpentInv, Spent, LockInv, StageInv, Preparing, Step, Leave, Working, Handling,
   Stopped, evidence, disk, workspaces, attempts, Transition, TransitionWhileLocked, MoveTo,
   AppendEvent
<1>1. CASE BeginResume(p) \/ TakeLease(p)
  BY <1>1, Goes DEF BeginResume, TakeLease
<1>2. CASE ResumeBaseline(p) \/ ResumeCapture(p)
  BY <1>2, Goes, Functions DEF ResumeBaseline, ResumeCapture
<1>3. CASE ResumeCaptured(p) \/ ResumeVerified(p)
  BY <1>3, Goes, Functions DEF ResumeCaptured, ResumeVerified
<1>4. CASE NextAttempt(p) \/ Prepare(p)
  <2>1. CASE NextAttempt(p)
    BY <2>1, Goes DEF NextAttempt
  <2>2. CASE Prepare(p)
    <3>1. state \in {"BASELINE_REPRODUCED", "REJECTED"}
      BY <2>2, Origins DEF Prepare
    <3>2. attempt[p] = records + 1 /\ attempt[p] \in 1 .. MaxAttempts
      BY <2>2, Functions DEF Prepare, NumberInv, AttemptInv, Attempt
    <3>3. records # MaxAttempts
      BY <3>2, Counted
    <3>4. receipt # NoReceipt => patch.clone # None
      BY <3>1, <3>3
    <3>. QED
      BY <2>2, <3>4, Goes DEF Prepare
  <2>. QED
    BY <1>4, <2>1, <2>2
<1>5. CASE CheckClone(p) \/ BeginClone(p) \/ EndClone(p)
  BY <1>5, Goes DEF CheckClone, BeginClone, EndClone
<1>6. CASE WriteClone(p) \/ StartPatching(p)
  <2>1. CASE WriteClone(p)
    <3>1. patch'.diff = patch.diff /\ patch'.record = patch.record /\ patch'.clone = attempt[p]
      BY <2>1, Parts DEF WriteClone
    <3>. QED
      BY <2>1, <3>1, Goes, Numbers DEF WriteClone
  <2>2. CASE StartPatching(p)
    BY <2>2, Goes, Origins DEF StartPatching
  <2>. QED
    BY <1>6, <2>1, <2>2
<1>7. CASE StartAgent(p) \/ AgentSucceeds(p)
  BY <1>7, Goes DEF StartAgent, AgentSucceeds
<1>8. CASE AgentFails(p)
  BY <1>8, Goes, Functions DEF AgentFails
<1>9. CASE CheckCapture(p) \/ BeginCapture(p)
  <2>1. CASE CheckCapture(p)
    BY <2>1, Goes DEF CheckCapture
  <2>2. CASE BeginCapture(p)
    <3>1. patch'.diff = attempt[p] /\ patch'.record = patch.record /\ patch'.clone = patch.clone
      BY <2>2, Parts DEF BeginCapture
    <3>. QED
      BY <2>2, <3>1, Goes DEF BeginCapture
  <2>. QED
    BY <1>9, <2>1, <2>2
<1>10. CASE WriteRecord(p) \/ EndCapture(p)
  BY <1>10, Goes, Origins, Parts DEF WriteRecord, EndCapture, Taking
<1>11. CASE RefuseCapture(p) \/ Reject(p)
  BY <1>11, Goes, Functions, Origins DEF RefuseCapture, Reject, NumberInv, AttemptInv, notes
<1>12. CASE Analyze(p) \/ StartFinal(p)
  BY <1>12, Goes, Functions, Origins DEF Analyze, StartFinal
<1>13. CASE Quarantine(p) \/ CheckFinal(p)
  BY <1>13, Goes DEF Quarantine, CheckFinal
<1>14. CASE FreshClone(p) \/ StartOracle(p)
  BY <1>14, Goes DEF FreshClone, StartOracle
<1>15. CASE EndOracle(p) \/ MakeLogs(p)
  BY <1>15, Goes, Functions DEF EndOracle, MakeLogs
<1>16. CASE OracleCompleted(p) \/ Decide(p)
  <2>1. CASE OracleCompleted(p)
    BY <2>1, Goes DEF OracleCompleted
  <2>2. CASE Decide(p)
    <3>1. state = "FINAL_VERIFYING" /\ state' \in {"VERIFIED", "REJECTED"}
      BY <2>2, Deciding
    <3>2. receipt = NoReceipt
      BY <3>1
    <3>. QED
      BY <2>2, <3>1, <3>2, Goes DEF Decide
  <2>. QED
    BY <1>16, <2>1, <2>2
<1>17. CASE RecordAttempt(p) \/ AttemptCompleted(p)
  <2>1. CASE RecordAttempt(p)
    BY <2>1, Goes DEF RecordAttempt
  <2>2. CASE AttemptCompleted(p)
    BY <2>2, Goes, Functions, Counted DEF AttemptCompleted, NumberInv, StateInv
  <2>. QED
    BY <1>17, <2>1, <2>2
<1>18. CASE BeginArchive(p) \/ ArchiveFile(p) \/ EndArchive(p)
  <2>1. CASE ArchiveFile(p)
    BY <2>1, Goes DEF ArchiveFile
  <2>2. CASE EndArchive(p)
    BY <2>2, Goes DEF EndArchive
  <2>3. CASE BeginArchive(p)
    BY <2>3, Goes DEF BeginArchive
  <2>. QED
    BY <1>18, <2>1, <2>2, <2>3
<1>19. CASE Finish(p) \/ WriteReceipt(p)
  BY <1>19, Goes, Functions DEF Finish, WriteReceipt
<1>20. CASE SignReceipt(p) \/ Tidy(p)
  BY <1>20, Goes, Functions DEF SignReceipt, Tidy
<1>21. CASE HandleFailure(p) \/ ErrorEvent(p)
  BY <1>21, Goes, Functions DEF HandleFailure, ErrorEvent
<1>22. CASE MoveToError(p) \/ Sweep(p)
  BY <1>22, Goes, Functions, Origins DEF MoveToError, Sweep
<1>23. CASE Raise(p) \/ Abandon(p)
  BY <1>23, Goes, Functions DEF Raise, Abandon
<1>24. CASE BeginAbort(p) \/ StopContainers(p)
  BY <1>24, Goes DEF BeginAbort, StopContainers
<1>25. CASE RequestAbort(p) \/ ConfirmAbort(p)
  BY <1>25, Goes, Functions, Origins DEF RequestAbort, ConfirmAbort
<1>26. CASE BeginClean(p) \/ RemoveTrees(p)
  BY <1>26, Goes DEF BeginClean, RemoveTrees
<1>27. CASE EndClean(p)
  BY <1>27, Goes, Functions, Origins DEF EndClean
<1>28. CASE CheckApply(p) \/ LockApply(p)
  BY <1>28, Goes DEF CheckApply, LockApply
<1>29. CASE CreateBranch(p) \/ PatchBranch(p)
  BY <1>29, Goes DEF CreateBranch, PatchBranch
<1>30. CASE RestoreBranch(p) \/ EndApply(p)
  BY <1>30, Goes, Functions, Origins DEF RestoreBranch, EndApply
<1>. QED
  BY <1>1, <1>2, <1>3, <1>4, <1>5, <1>6, <1>7, <1>8, <1>9, <1>10, <1>11, <1>12, <1>13, <1>14,
     <1>15, <1>16, <1>17, <1>18, <1>19, <1>20, <1>21, <1>22, <1>23, <1>24, <1>25, <1>26,
     <1>27, <1>28, <1>29, <1>30
  DEF Resuming, Attempting, Capturing, Verifying, Closing, Failing, Aborting, Cleaning,
     Applying, Proceed, Acts

\* The receipt: it says what has become of the run.
LEMMA BindStep ==
  ASSUME TypeOK, LockInv, StateInv, PatchInv, ReceiptInv, StageInv, BindInv,
         NEW p \in Process, Acts(p)
  PROVE  BindInv'
<1>. USE DEF BindInv, ReceiptInv, LockInv, StageInv, Step, Leave, Working, Handling,
   Stopped, evidence, disk, workspaces, attempts, notes, Transition,
   TransitionWhileLocked, MoveTo, AppendEvent
<1>1. CASE BeginResume(p) \/ TakeLease(p)
  BY <1>1, Goes, Noted DEF BeginResume, TakeLease
<1>2. CASE ResumeBaseline(p) \/ ResumeCapture(p)
  BY <1>2, Goes, Functions, Noted DEF ResumeBaseline, ResumeCapture
<1>3. CASE ResumeCaptured(p) \/ ResumeVerified(p)
  BY <1>3, Goes, Functions, Noted DEF ResumeCaptured, ResumeVerified
<1>4. CASE NextAttempt(p) \/ Prepare(p)
  BY <1>4, Goes, Functions, Origins DEF NextAttempt, Prepare
<1>5. CASE CheckClone(p) \/ BeginClone(p) \/ EndClone(p)
  BY <1>5, Goes DEF CheckClone, BeginClone, EndClone
<1>6. CASE WriteClone(p) \/ StartPatching(p)
  BY <1>6, Goes, Origins, Parts DEF WriteClone, StartPatching
<1>7. CASE StartAgent(p) \/ AgentSucceeds(p)
  BY <1>7, Goes DEF StartAgent, AgentSucceeds
<1>8. CASE AgentFails(p)
  BY <1>8, Goes, Functions DEF AgentFails
<1>9. CASE CheckCapture(p) \/ BeginCapture(p)
  BY <1>9, Goes, Parts DEF CheckCapture, BeginCapture
<1>10. CASE WriteRecord(p) \/ EndCapture(p)
  BY <1>10, Goes, Origins, Parts DEF WriteRecord, EndCapture
<1>11. CASE RefuseCapture(p) \/ Reject(p)
  BY <1>11, Goes, Functions, Origins DEF RefuseCapture, Reject
<1>12. CASE Analyze(p) \/ StartFinal(p)
  BY <1>12, Goes, Functions, Origins DEF Analyze, StartFinal
<1>13. CASE Quarantine(p) \/ CheckFinal(p)
  BY <1>13, Goes DEF Quarantine, CheckFinal
<1>14. CASE FreshClone(p) \/ StartOracle(p)
  BY <1>14, Goes DEF FreshClone, StartOracle
<1>15. CASE EndOracle(p) \/ MakeLogs(p)
  BY <1>15, Goes, Functions DEF EndOracle, MakeLogs
<1>16. CASE OracleCompleted(p) \/ Decide(p)
  <2>1. CASE OracleCompleted(p)
    BY <2>1, Goes DEF OracleCompleted
  <2>2. CASE Decide(p)
    BY <2>2, Goes, Origins DEF Decide, StateInv, Completed
  <2>. QED
    BY <1>16, <2>1, <2>2
<1>17. CASE RecordAttempt(p) \/ AttemptCompleted(p)
  BY <1>17, Goes DEF RecordAttempt, AttemptCompleted
<1>18. CASE BeginArchive(p) \/ ArchiveFile(p) \/ EndArchive(p)
  BY <1>18, Goes DEF BeginArchive, ArchiveFile, EndArchive
<1>19. CASE Finish(p) \/ WriteReceipt(p)
  BY <1>19, Goes, Functions, Noted DEF Finish, WriteReceipt
<1>20. CASE SignReceipt(p) \/ Tidy(p)
  BY <1>20, Goes, Functions DEF SignReceipt, Tidy
<1>21. CASE HandleFailure(p) \/ ErrorEvent(p)
  BY <1>21, Goes, Functions, Noted DEF HandleFailure, ErrorEvent
<1>22. CASE MoveToError(p) \/ Sweep(p)
  BY <1>22, Goes, Functions, Origins, Noted DEF MoveToError, Sweep
<1>23. CASE Raise(p) \/ Abandon(p)
  BY <1>23, Goes, Functions, Noted DEF Raise, Abandon
<1>24. CASE BeginAbort(p) \/ StopContainers(p)
  BY <1>24, Goes, Noted DEF BeginAbort, StopContainers
<1>25. CASE RequestAbort(p) \/ ConfirmAbort(p)
  BY <1>25, Goes, Functions, Origins, Noted DEF RequestAbort, ConfirmAbort
<1>26. CASE BeginClean(p) \/ RemoveTrees(p)
  <2>1. CASE BeginClean(p)
    <3>1. state \in {"VERIFIED", "APPLIED"} => bindings # Unbound
      BY <2>1, BindingsDiffer, Zenon DEF BeginClean, ReceiptVerifies, InTime
    <3>. QED
      BY <2>1, <3>1, Goes DEF BeginClean
  <2>2. CASE RemoveTrees(p)
    BY <2>2, Goes DEF RemoveTrees
  <2>. QED
    BY <1>26, <2>1, <2>2
<1>27. CASE EndClean(p)
  BY <1>27, Goes, Functions, Origins, Noted DEF EndClean
<1>28. CASE CheckApply(p) \/ LockApply(p)
  BY <1>28, Goes DEF CheckApply, LockApply
<1>29. CASE CreateBranch(p) \/ PatchBranch(p)
  BY <1>29, Goes DEF CreateBranch, PatchBranch
<1>30. CASE RestoreBranch(p) \/ EndApply(p)
  <2>1. CASE RestoreBranch(p)
    BY <2>1, Goes, Noted DEF RestoreBranch
  <2>2. CASE EndApply(p)
    BY <2>2, Goes, Noted, Origins, BindingsDiffer DEF EndApply
  <2>. QED
    BY <1>30, <2>1, <2>2
<1>. QED
  BY <1>1, <1>2, <1>3, <1>4, <1>5, <1>6, <1>7, <1>8, <1>9, <1>10, <1>11, <1>12, <1>13, <1>14,
     <1>15, <1>16, <1>17, <1>18, <1>19, <1>20, <1>21, <1>22, <1>23, <1>24, <1>25, <1>26,
     <1>27, <1>28, <1>29, <1>30
  DEF Resuming, Attempting, Capturing, Verifying, Closing, Failing, Aborting, Cleaning,
     Applying, Proceed, Acts

\* The branch: who is at work on it has it to himself.
LEMMA BranchStep ==
  ASSUME TypeOK, LockInv, BranchInv, NEW p \in Process, Acts(p)
  PROVE  BranchInv'
<1>. USE DEF BranchInv, LockInv, Step, Leave, Locked, disk, workspaces, attempts
<1>1. CASE BeginResume(p) \/ TakeLease(p)
  BY <1>1, Goes DEF BeginResume, TakeLease
<1>2. CASE ResumeBaseline(p) \/ ResumeCapture(p)
  BY <1>2, Goes, Functions DEF ResumeBaseline, ResumeCapture
<1>3. CASE ResumeCaptured(p) \/ ResumeVerified(p)
  BY <1>3, Goes, Functions DEF ResumeCaptured, ResumeVerified
<1>4. CASE NextAttempt(p) \/ Prepare(p)
  BY <1>4, Goes, Functions, Origins DEF NextAttempt, Prepare
<1>5. CASE CheckClone(p) \/ BeginClone(p) \/ EndClone(p)
  BY <1>5, Goes DEF CheckClone, BeginClone, EndClone
<1>6. CASE WriteClone(p) \/ StartPatching(p)
  BY <1>6, Goes, Origins, Parts DEF WriteClone, StartPatching
<1>7. CASE StartAgent(p) \/ AgentSucceeds(p)
  BY <1>7, Goes DEF StartAgent, AgentSucceeds
<1>8. CASE AgentFails(p)
  BY <1>8, Goes, Functions DEF AgentFails
<1>9. CASE CheckCapture(p) \/ BeginCapture(p)
  BY <1>9, Goes, Parts DEF CheckCapture, BeginCapture
<1>10. CASE WriteRecord(p) \/ EndCapture(p)
  BY <1>10, Goes, Origins, Parts DEF WriteRecord, EndCapture
<1>11. CASE RefuseCapture(p) \/ Reject(p)
  BY <1>11, Goes, Functions, Origins DEF RefuseCapture, Reject
<1>12. CASE Analyze(p) \/ StartFinal(p)
  BY <1>12, Goes, Functions, Origins DEF Analyze, StartFinal
<1>13. CASE Quarantine(p) \/ CheckFinal(p)
  BY <1>13, Goes DEF Quarantine, CheckFinal
<1>14. CASE FreshClone(p) \/ StartOracle(p)
  BY <1>14, Goes DEF FreshClone, StartOracle
<1>15. CASE EndOracle(p) \/ MakeLogs(p)
  BY <1>15, Goes, Functions DEF EndOracle, MakeLogs
<1>16. CASE OracleCompleted(p) \/ Decide(p)
  BY <1>16, Goes, Origins DEF OracleCompleted, Decide
<1>17. CASE RecordAttempt(p) \/ AttemptCompleted(p)
  BY <1>17, Goes DEF RecordAttempt, AttemptCompleted
<1>18. CASE BeginArchive(p) \/ ArchiveFile(p) \/ EndArchive(p)
  BY <1>18, Goes DEF BeginArchive, ArchiveFile, EndArchive
<1>19. CASE Finish(p) \/ WriteReceipt(p)
  BY <1>19, Goes, Functions DEF Finish, WriteReceipt
<1>20. CASE SignReceipt(p) \/ Tidy(p)
  BY <1>20, Goes, Functions DEF SignReceipt, Tidy
<1>21. CASE HandleFailure(p) \/ ErrorEvent(p)
  BY <1>21, Goes, Functions DEF HandleFailure, ErrorEvent
<1>22. CASE MoveToError(p) \/ Sweep(p)
  BY <1>22, Goes, Functions, Origins DEF MoveToError, Sweep
<1>23. CASE Raise(p) \/ Abandon(p)
  BY <1>23, Goes, Functions DEF Raise, Abandon
<1>24. CASE BeginAbort(p) \/ StopContainers(p)
  BY <1>24, Goes DEF BeginAbort, StopContainers
<1>25. CASE RequestAbort(p) \/ ConfirmAbort(p)
  BY <1>25, Goes, Functions, Origins DEF RequestAbort, ConfirmAbort
<1>26. CASE BeginClean(p) \/ RemoveTrees(p)
  BY <1>26, Goes DEF BeginClean, RemoveTrees
<1>27. CASE EndClean(p)
  BY <1>27, Goes, Functions, Origins DEF EndClean
<1>28. CASE CheckApply(p) \/ LockApply(p)
  BY <1>28, Goes DEF CheckApply, LockApply
<1>29. CASE CreateBranch(p) \/ PatchBranch(p)
  BY <1>29, Goes DEF CreateBranch, PatchBranch
<1>30. CASE RestoreBranch(p) \/ EndApply(p)
  BY <1>30, Goes, Functions, Origins DEF RestoreBranch, EndApply
<1>. QED
  BY <1>1, <1>2, <1>3, <1>4, <1>5, <1>6, <1>7, <1>8, <1>9, <1>10, <1>11, <1>12, <1>13, <1>14,
     <1>15, <1>16, <1>17, <1>18, <1>19, <1>20, <1>21, <1>22, <1>23, <1>24, <1>25, <1>26,
     <1>27, <1>28, <1>29, <1>30
  DEF Resuming, Attempting, Capturing, Verifying, Closing, Failing, Aborting, Cleaning,
     Applying, Proceed, Acts

\* The invariant holds at first.
LEMMA RunInit == Init => RunInv
<1>. SUFFICES ASSUME Init PROVE RunInv
  OBVIOUS
<1>1. NumberInv /\ CaptureInv /\ StageInv
  BY DEF Init, NumberInv, CaptureInv, StageInv, Preparing, Taking
<1>2. SpentInv /\ BindInv /\ BranchInv
  BY DEF Init, SpentInv, BindInv, BranchInv
<1>. QED
  BY <1>1, <1>2, IInvInit DEF RunInv

\* Every step keeps it.
LEMMA RunStep == RunInv /\ [Next]_vars => RunInv'
<1>. SUFFICES ASSUME RunInv, [Next]_vars PROVE RunInv'
  OBVIOUS
<1>1. IInv'
  BY IInvStep DEF RunInv
<1>2. CASE UNCHANGED vars
  <2>. USE <1>2 DEF RunInv, vars, evidence, disk, workspaces, attempts, locks, notes
  <2>1. NumberInv' /\ CaptureInv' /\ StageInv'
    BY DEF NumberInv, CaptureInv, StageInv
  <2>2. SpentInv' /\ BindInv' /\ BranchInv'
    BY DEF SpentInv, Spent, BindInv, BranchInv
  <2>. QED
    BY <1>1, <2>1, <2>2
<1>3. CASE Next
  <2>. PICK p \in Process : Acts(p)
    BY <1>3, Zenon DEF Next, Acts
  <2>. USE DEF RunInv, IInv
  <2>1. NumberInv' /\ CaptureInv' /\ StageInv'
    BY NumberStep, CaptureStep, StageStep
  <2>2. SpentInv' /\ BindInv' /\ BranchInv'
    BY SpentStep, BindStep, BranchStep
  <2>. QED
    BY <1>1, <2>1, <2>2
<1>. QED
  BY <1>2, <1>3

LEMMA RunHolds == Spec => []RunInv
BY RunInit, RunStep, PTL DEF Spec
-----------------------------------------------------------------------------
(* Every step is one of PatchRun, or none. *)

\* The phase in each state.
LEMMA Phases ==
  /\ state \in {"BASELINE_REPRODUCED", "PATCH_PREPARING", "PATCHING"} <=> Phase = "open"
  /\ state \in {"PATCH_CAPTURED", "FINAL_VERIFYING"} <=> Phase = "captured"
  /\ state = "VERIFIED" <=> Phase = "verified"
  /\ state = "APPLIED" <=> Phase = "applied"
  /\ state = "REJECTED" <=> Phase = "rejected"
  /\ state \in {"ABORTED", "ERROR", "CLEANED"} => Phase = "closed"
BY DEF Phase

\* The patch on disk is the run's while its state is about it.
OnDisk == IF Phase \in {"captured", "verified", "applied"} THEN patch.diff ELSE None
HeldOnDisk == Held = OnDisk

LEMMA HeldPatch == PatchInv => HeldOnDisk
<1>. SUFFICES ASSUME PatchInv PROVE Held = OnDisk
  BY DEF HeldOnDisk
<1>1. CASE Phase \in {"captured", "verified", "applied"}
  <2>1. PatchLoads
    BY <1>1, Phases DEF PatchInv, CheckpointsLoad, VerifiedPatchPassed
  <2>. QED
    BY <1>1, <2>1 DEF Held, OnDisk
<1>2. CASE Phase \notin {"captured", "verified", "applied"}
  BY <1>2 DEF Held, OnDisk
<1>. QED
  BY <1>1, <1>2

\* The bound receipts: none, or the one on disk.
BoundFits ==
  /\ bindings = Unbound => Bound = <<>>
  /\ bindings \in {InTime, Late} => Bound = <<receipt>>

LEMMA BoundReceipt == BoundFits
<1>1. bindings = Unbound => Bound = <<>>
  BY DEF Bound, Unbound
<1>2. ASSUME bindings \in {InTime, Late} PROVE Bound = <<receipt>>
  <2>1. DOMAIN bindings = {1}
    <3>1. DOMAIN <<TRUE>> = {1} /\ DOMAIN <<FALSE>> = {1}
      OBVIOUS
    <3>. QED
      BY <1>2, <3>1, Zenon DEF InTime, Late
  <2>2. Bound = [i \in {1} |-> receipt]
    BY <2>1, Zenon DEF Bound
  <2>. QED
    BY <2>2
<1>. QED
  BY <1>1, <1>2 DEF BoundFits

\* Where the run goes from one phase to another, with the patch it holds.
LEMMA Mapped ==
  ASSUME PatchInv, PatchInv'
  PROVE  Held = OnDisk /\ Held' = OnDisk'
<1>1. PatchInv' => HeldOnDisk'
  BY HeldPatch, PTL
<1>. QED
  BY <1>1, HeldPatch DEF HeldOnDisk

\* What the promise speaks of stays as it is.
LEMMA Silent ==
  ASSUME UNCHANGED <<Phase, Held, captured, cleared, Bound, branch>>
  PROVE  [Promise!Next]_(Promise!vars)
BY DEF Promise!vars

\* Such are the steps that change nothing of it.
Untouched == UNCHANGED <<state, patch, captured, cleared, bindings, receipt, branch>>

LEMMA UntouchedSilent ==
  ASSUME Untouched
  PROVE  [Promise!Next]_(Promise!vars)
<1>1. Phase' = Phase /\ PatchLoads' = PatchLoads /\ Bound' = Bound
  BY DEF Untouched, Phase, PatchLoads, Bound
<1>2. Held' = Held
  BY <1>1 DEF Untouched, Held
<1>. QED
  BY <1>1, <1>2, Silent DEF Untouched

\* A step that only moves the run within its phase is silent, ...
LEMMA WithinPhase ==
  ASSUME PatchInv, PatchInv', UNCHANGED <<captured, cleared, bindings, receipt, branch>>,
         Phase' = Phase,
         Phase \in {"captured", "verified", "applied"} => patch'.diff = patch.diff
  PROVE  [Promise!Next]_(Promise!vars)
<1>1. Held' = Held
  BY Mapped DEF OnDisk
<1>2. Bound' = Bound
  BY DEF Bound
<1>. QED
  BY <1>1, <1>2, Silent

\* ... and one that ends it, closes.
LEMMA EndsPhase ==
  ASSUME PatchInv, PatchInv', UNCHANGED <<captured, cleared, bindings, receipt, branch>>,
         Phase' = "closed"
  PROVE  [Promise!Next]_(Promise!vars)
<1>1. Held' = None
  BY Mapped DEF OnDisk
<1>2. Bound' = Bound
  BY DEF Bound
<1>3. CASE Phase = "closed"
  BY <1>3, WithinPhase
<1>4. CASE Phase # "closed"
  BY <1>1, <1>2, <1>4 DEF Promise!Next, Promise!Close
<1>. QED
  BY <1>3, <1>4

\* A patch that is captured is the first of its attempt, before any receipt.
LEMMA EndCaptureCaptures ==
  ASSUME RunInv, RunInv', NEW p \in Process, EndCapture(p)
  PROVE  Promise!Next
<1>. USE DEF RunInv, IInv
<1>1. /\ at[p] = "binding" /\ state = "PATCHING" /\ state' = "PATCH_CAPTURED"
      /\ captured' = captured \union {patch.record}
      /\ UNCHANGED <<patch, cleared, bindings, receipt, branch>>
  BY Origins DEF EndCapture, Step, TransitionWhileLocked, MoveTo, disk, workspaces, attempts
<1>2. Phase = "open" /\ Phase' = "captured"
  BY <1>1 DEF Phase
<1>3. patch.record = patch.diff /\ patch.diff \notin captured /\ patch.diff \in Attempt
  BY <1>1 DEF PatchInv, CaptureInv, TypeOK
<1>4. Held' = patch.diff
  BY <1>1, <1>2, Mapped DEF OnDisk
<1>5. bindings = Unbound
  BY <1>1 DEF SpentInv, ReceiptInv, Stopped
<1>6. Bound = <<>> /\ Bound' = Bound
  BY <1>1, <1>5, BoundReceipt DEF BoundFits, Bound
<1>7. Promise!Capture(patch.diff)
  BY <1>1, <1>2, <1>3, <1>4, <1>6 DEF Promise!Capture
<1>. QED
  BY <1>3, <1>7 DEF Promise!Next

\* An oracle that passes has tested the patch that the run holds, or comes too late.
LEMMA OracleCompletedPasses ==
  ASSUME RunInv, RunInv', NEW p \in Process, OracleCompleted(p)
  PROVE  [Promise!Next]_(Promise!vars)
<1>. USE DEF RunInv, IInv
<1>1. /\ at[p] = "judged" /\ UNCHANGED <<state, patch, captured, bindings, receipt, branch>>
      /\ cleared' = IF outcome[p] = "passed" THEN cleared \union ({final[attempt[p]]} \ {None})
                    ELSE cleared
  BY DEF OracleCompleted, Step, disk, workspaces, attempts
<1>2. Phase' = Phase /\ Held' = Held /\ Bound' = Bound
  BY <1>1 DEF Phase, Held, PatchLoads, Bound
<1>3. CASE cleared' = cleared
  BY <1>1, <1>2, <1>3, Silent
<1>4. CASE cleared' # cleared
  <2>. DEFINE k == final[attempt[p]]
  <2>1. k # None /\ cleared' = cleared \union {k}
    BY <1>1, <1>4
  <2>2. attempt[p] \in Attempt
    BY <1>1, Functions DEF AttemptInv, Working
  <2>3. k \in Attempt
    BY <2>1, <2>2, Functions
  <2>4. Phase = "closed" \/ (Phase = "captured" /\ k = Held)
    <3>1. state \in {"FINAL_VERIFYING", "ABORTED", "CLEANED"}
      BY <1>1 DEF StateInv, Testing, Stopped
    <3>2. CASE state = "FINAL_VERIFYING"
      <4>1. k = patch.diff
        BY <1>1, <3>2 DEF PatchInv
      <4>. QED
        BY <3>2, <4>1, Phases, Mapped DEF OnDisk
    <3>. QED
      BY <3>1, <3>2, Phases
  <2>5. Promise!Pass(k)
    BY <1>1, <1>2, <2>1, <2>4 DEF Promise!Pass
  <2>. QED
    BY <2>3, <2>5 DEF Promise!Next
<1>. QED
  BY <1>3, <1>4

\* The decision verifies the patch, which has passed, before any receipt; or rejects it.
LEMMA DecideDecides ==
  ASSUME RunInv, RunInv', NEW p \in Process, Decide(p)
  PROVE  Promise!Next
<1>. USE DEF RunInv, IInv
<1>1. /\ state = "FINAL_VERIFYING"
      /\ state' = IF outcome[p] = "passed" THEN "VERIFIED" ELSE "REJECTED"
  BY Deciding
<1>2. at[p] = "decide" /\ UNCHANGED <<patch, captured, cleared, bindings, receipt, branch>>
  BY DEF Decide, Step, Transition, disk, workspaces, attempts
<1>3. Phase = "captured" /\ Held = patch.diff /\ Bound' = Bound
  BY <1>1, <1>2, Phases, Mapped DEF OnDisk, Bound
<1>4. CASE outcome[p] = "passed"
  <2>1. Phase' = "verified"
    BY <1>1, <1>4 DEF Phase
  <2>2. Held' = Held
    BY <1>2, <1>3, <2>1, Mapped DEF OnDisk
  <2>3. Held \in cleared
    BY <1>1, <1>2, <1>3, <1>4 DEF PatchInv
  <2>4. bindings = Unbound
    BY <1>1 DEF SpentInv, ReceiptInv, Stopped
  <2>5. Bound = <<>>
    BY <2>4, BoundReceipt DEF BoundFits
  <2>6. Promise!Verify
    BY <1>2, <1>3, <2>1, <2>2, <2>3, <2>5 DEF Promise!Verify
  <2>. QED
    BY <2>6 DEF Promise!Next
<1>5. CASE outcome[p] # "passed"
  <2>1. Phase' = "rejected"
    BY <1>1, <1>5 DEF Phase
  <2>2. Held' = None
    BY <2>1, Mapped DEF OnDisk
  <2>3. Promise!Reject
    BY <1>2, <1>3, <2>1, <2>2 DEF Promise!Reject
  <2>. QED
    BY <2>3 DEF Promise!Next
<1>. QED
  BY <1>4, <1>5

\* A captured or interrupted attempt is rejected.
LEMMA RejectRejects ==
  ASSUME RunInv, RunInv', NEW p \in Process, Reject(p)
  PROVE  [Promise!Next]_(Promise!vars)
<1>. USE DEF RunInv, IInv
<1>1. UNCHANGED <<patch, captured, cleared, bindings, receipt, branch>>
  BY DEF Reject, Transition, evidence, disk, workspaces, attempts
<1>2. CASE state = "PATCHING"
  <2>1. state' = "REJECTED"
    BY <1>2 DEF Reject, Transition, MoveTo
  <2>2. Phase = "open" /\ Phase' = "rejected"
    BY <1>2, <2>1 DEF Phase
  <2>3. Held' = None /\ Bound' = Bound
    BY <1>1, <2>2, Mapped DEF OnDisk, Bound
  <2>4. Promise!Reject
    BY <1>1, <2>2, <2>3 DEF Promise!Reject
  <2>. QED
    BY <2>4 DEF Promise!Next
<1>3. CASE state # "PATCHING"
  <2>1. state' = state
    BY <1>3 DEF Reject, evidence
  <2>. QED
    BY <1>1, <2>1, UntouchedSilent DEF Untouched
<1>. QED
  BY <1>2, <1>3

\* Another attempt follows a rejected one; the first follows the baseline.
LEMMA PrepareRetries ==
  ASSUME RunInv, RunInv', NEW p \in Process, Prepare(p)
  PROVE  [Promise!Next]_(Promise!vars)
<1>. USE DEF RunInv, IInv
<1>1. /\ state \in {"BASELINE_REPRODUCED", "REJECTED"} /\ state' = "PATCH_PREPARING"
      /\ UNCHANGED <<patch, captured, cleared, bindings, receipt, branch>>
  BY Origins DEF Prepare, Transition, MoveTo, disk, workspaces, attempts
<1>2. Phase \in {"open", "rejected"} /\ Phase' = "open"
  BY <1>1 DEF Phase
<1>3. Held = None /\ Held' = None /\ Bound' = Bound
  BY <1>1, <1>2, Mapped DEF OnDisk, Bound
<1>4. CASE Phase = "open"
  BY <1>1, <1>2, <1>3, <1>4, Silent
<1>5. CASE Phase = "rejected"
  <2>1. Promise!Retry
    BY <1>1, <1>2, <1>3, <1>5 DEF Promise!Retry
  <2>. QED
    BY <2>1 DEF Promise!Next
<1>. QED
  BY <1>2, <1>4, <1>5

\* The receipt files alone bind nothing.
LEMMA WriteReceiptSilent ==
  ASSUME RunInv, RunInv', NEW p \in Process, WriteReceipt(p)
  PROVE  [Promise!Next]_(Promise!vars)
<1>. USE DEF RunInv, IInv
<1>1. receipt = NoReceipt /\ UNCHANGED <<state, patch, captured, cleared, bindings, branch>>
  BY DEF WriteReceipt, evidence, workspaces, attempts
<1>2. bindings = Unbound
  BY <1>1 DEF ReceiptInv
<1>3. Bound = <<>> /\ Bound' = <<>>
  BY <1>1, <1>2 DEF Bound, Unbound
<1>4. Phase' = Phase /\ Held' = Held
  BY <1>1 DEF Phase, Held, PatchLoads
<1>. QED
  BY <1>1, <1>3, <1>4, Silent

\* A receipt is bound once, and says what has become of the run and of its patch.
LEMMA SignReceiptBinds ==
  ASSUME RunInv, RunInv', NEW p \in Process, SignReceipt(p)
  PROVE  Promise!Next
<1>. USE DEF RunInv, IInv
<1>1. at[p] = "sign" /\ UNCHANGED <<state, patch, captured, cleared, receipt, branch>>
  BY DEF SignReceipt, Step, disk, workspaces, attempts
<1>2. bindings = Unbound /\ receipt # NoReceipt
  BY <1>1 DEF ReceiptInv
<1>3. bindings' \in {InTime, Late}
  <2>1. (p \in tip) \in BOOLEAN
    OBVIOUS
  <2>2. Append(Unbound, p \in tip) \in {InTime, Late}
    BY ONLY <2>1, FirstBinding, Zenon
  <2>. QED
    BY <1>2, <2>2, Zenon DEF SignReceipt
<1>4. Bound = <<>>
  BY <1>2, BoundReceipt DEF BoundFits
<1>5. Bound' = <<receipt>>
  <2>1. BoundFits'
    BY BoundReceipt, PTL
  <2>. QED
    BY <1>1, <1>3, <2>1 DEF BoundFits
<1>6. Phase' = Phase /\ Held' = Held
  BY <1>1 DEF Phase, Held, PatchLoads
<1>7. /\ receipt = [status |-> receipt.status, patch |-> receipt.patch]
      /\ receipt.status \in {"verified", "rejected"} /\ receipt.patch \in Attempt \union {None}
  BY <1>2 DEF TypeOK, Receipt
<1>8. IF receipt.status = "verified" THEN Phase = "verified" /\ receipt.patch = Held
                                     ELSE Phase \in {"rejected", "closed"}
  <2>1. CASE receipt.status = "verified"
    <3>1. state = "VERIFIED" /\ receipt.patch = patch.diff
      BY <1>1, <2>1 DEF BindInv
    <3>2. Phase = "verified"
      BY <3>1, Phases
    <3>3. Held = patch.diff
      BY <3>2, Mapped DEF OnDisk
    <3>. QED
      BY <2>1, <3>1, <3>2, <3>3
  <2>2. CASE receipt.status # "verified"
    <3>1. state \in {"REJECTED", "ABORTED", "CLEANED"}
      BY <1>1, <1>2, <2>2 DEF BindInv, StageInv, Stopped
    <3>. QED
      BY <2>2, <3>1, Phases
  <2>. QED
    BY <2>1, <2>2
<1>9. Promise!Bind(receipt.status, receipt.patch)
  BY <1>1, <1>4, <1>5, <1>6, <1>7, <1>8 DEF Promise!Bind
<1>. QED
  BY <1>7, <1>9 DEF Promise!Next

\* An apply is authorised: the one receipt names the verified patch.
LEMMA ApplyAuthorised ==
  ASSUME RunInv, RunInv', NEW p \in Process, at[p] \in {"applying", "branched", "patched"}
  PROVE  Promise!Authorised
<1>. USE DEF RunInv, IInv
<1>1. state = "VERIFIED"
  BY DEF StateInv
<1>2. /\ receipt # NoReceipt /\ bindings = InTime /\ receipt.status = "verified"
      /\ receipt.patch = patch.diff
  BY <1>1 DEF ReceiptInv
<1>3. Phase = "verified"
  BY <1>1, Phases
<1>4. Held = patch.diff
  BY <1>3, Mapped DEF OnDisk
<1>5. Bound = <<receipt>>
  BY <1>2, BoundReceipt DEF BoundFits
<1>6. receipt = [status |-> "verified", patch |-> patch.diff]
  BY <1>2 DEF TypeOK, Receipt
<1>. QED
  BY <1>3, <1>4, <1>5, <1>6 DEF Promise!Authorised

\* So the branch is created, patched, or taken back by who may do so.
LEMMA BranchTouches ==
  ASSUME RunInv, RunInv', NEW p \in Process,
         CreateBranch(p) \/ PatchBranch(p) \/ RestoreBranch(p)
  PROVE  Promise!Next
<1>. USE DEF RunInv, IInv
<1>1. /\ at[p] \in {"applying", "branched"}
      /\ UNCHANGED <<state, patch, captured, cleared, bindings, receipt>>
      /\ <<branch, branch'>> \in {<<"none", "created">>, <<"created", "patched">>,
                                  <<"created", "none">>}
  BY DEF CreateBranch, PatchBranch, RestoreBranch, Step, BranchInv, evidence, workspaces,
     attempts
<1>2. Promise!Authorised
  BY <1>1, ApplyAuthorised
<1>3. Phase' = Phase /\ Held' = Held /\ Bound' = Bound
  BY <1>1 DEF Phase, Held, PatchLoads, Bound
<1>4. branch' \in {"none", "created", "patched"}
  BY <1>1
<1>5. Promise!Touch(branch')
  BY <1>1, <1>2, <1>3 DEF Promise!Touch
<1>. QED
  BY <1>4, <1>5 DEF Promise!Next

\* The run is applied when its branch is patched.
LEMMA EndApplyApplies ==
  ASSUME RunInv, RunInv', NEW p \in Process, EndApply(p)
  PROVE  Promise!Next
<1>. USE DEF RunInv, IInv
<1>1. /\ at[p] = "patched" /\ state' = "APPLIED" /\ branch = "patched"
      /\ UNCHANGED <<patch, captured, cleared, bindings, receipt, branch>>
  BY DEF EndApply, TransitionWhileLocked, MoveTo, BranchInv, disk, workspaces, attempts
<1>2. Promise!Authorised
  BY <1>1, ApplyAuthorised
<1>3. Phase = "verified" /\ Phase' = "applied"
  BY <1>1, <1>2 DEF Phase, Promise!Authorised
<1>4. Held' = Held /\ Bound' = Bound
  BY <1>1, <1>3, Mapped DEF OnDisk, Bound
<1>5. Promise!Apply
  BY <1>1, <1>2, <1>3, <1>4 DEF Promise!Apply
<1>. QED
  BY <1>5 DEF Promise!Next

\* The agent starts, or the final verification: the run stays in its phase.
LEMMA StartSilent ==
  ASSUME RunInv, RunInv', NEW p \in Process, StartPatching(p) \/ StartFinal(p)
  PROVE  [Promise!Next]_(Promise!vars)
<1>. USE DEF RunInv, IInv
<1>1. /\ UNCHANGED <<patch, captured, cleared, bindings, receipt, branch>>
      /\ \/ state = "PATCH_PREPARING" /\ state' = "PATCHING"
         \/ state = "PATCH_CAPTURED" /\ state' = "FINAL_VERIFYING"
  BY Origins DEF StartPatching, StartFinal, Transition, MoveTo, disk, workspaces, attempts
<1>2. Phase' = Phase
  BY <1>1 DEF Phase
<1>. QED
  BY <1>1, <1>2, WithinPhase

\* An error, an abort and a cleanup end the run.
LEMMA EndCloses ==
  ASSUME RunInv, RunInv', NEW p \in Process, MoveToError(p) \/ ConfirmAbort(p) \/ EndClean(p)
  PROVE  [Promise!Next]_(Promise!vars)
<1>. USE DEF RunInv, IInv
<1>1. /\ UNCHANGED <<patch, captured, cleared, bindings, receipt, branch>>
      /\ state' \in {"ERROR", "ABORTED", "CLEANED"}
  BY DEF MoveToError, ConfirmAbort, EndClean, Transition, TransitionWhileLocked, MoveTo, disk,
     workspaces, attempts
<1>2. Phase' = "closed"
  BY <1>1 DEF Phase
<1>. QED
  BY <1>1, <1>2, EndsPhase

\* The patch directory is filled before the capture is recorded, and emptied only for
\* another attempt.
LEMMA DirectorySilent ==
  ASSUME RunInv, RunInv', NEW p \in Process,
         WriteClone(p) \/ BeginCapture(p) \/ WriteRecord(p) \/ ArchiveFile(p)
  PROVE  [Promise!Next]_(Promise!vars)
<1>. USE DEF RunInv, IInv
<1>1. UNCHANGED <<state, captured, cleared, bindings, receipt, branch>>
  BY DEF WriteClone, BeginCapture, WriteRecord, ArchiveFile, evidence, workspaces, attempts
<1>2. Phase' = Phase
  BY <1>1 DEF Phase
<1>3. Phase \in {"captured", "verified", "applied"} => patch'.diff = patch.diff
  <2>1. CASE WriteClone(p) \/ WriteRecord(p)
    BY <2>1, Parts DEF WriteClone, WriteRecord
  <2>2. CASE BeginCapture(p)
    BY <2>2, Phases DEF BeginCapture, Step, StageInv, Taking, Stopped
  <2>3. CASE ArchiveFile(p)
    BY <2>3, Phases DEF ArchiveFile, StateInv
  <2>. QED
    BY <2>1, <2>2, <2>3
<1>. QED
  BY <1>1, <1>2, <1>3, WithinPhase

\* Every step of a process is one that the promise allows, or none.
LEMMA StepSimulates ==
  ASSUME RunInv, RunInv', NEW p \in Process, Acts(p)
  PROVE  [Promise!Next]_(Promise!vars)
<1>1. CASE Prepare(p)
  BY <1>1, PrepareRetries
<1>2. CASE WriteClone(p) \/ BeginCapture(p) \/ WriteRecord(p) \/ ArchiveFile(p)
  BY <1>2, DirectorySilent
<1>3. CASE StartPatching(p) \/ StartFinal(p)
  BY <1>3, StartSilent
<1>4. CASE EndCapture(p)
  BY <1>4, EndCaptureCaptures
<1>5. CASE Reject(p)
  BY <1>5, RejectRejects
<1>6. CASE OracleCompleted(p)
  BY <1>6, OracleCompletedPasses
<1>7. CASE Decide(p)
  BY <1>7, DecideDecides
<1>8. CASE WriteReceipt(p)
  BY <1>8, WriteReceiptSilent
<1>9. CASE SignReceipt(p)
  BY <1>9, SignReceiptBinds
<1>10. CASE MoveToError(p) \/ ConfirmAbort(p) \/ EndClean(p)
  BY <1>10, EndCloses
<1>11. CASE CreateBranch(p) \/ PatchBranch(p) \/ RestoreBranch(p)
  BY <1>11, BranchTouches
<1>12. CASE EndApply(p)
  BY <1>12, EndApplyApplies
<1>13. CASE BeginResume(p) \/ TakeLease(p) \/ ResumeBaseline(p)
          \/ ResumeCapture(p) \/ ResumeCaptured(p)
  BY <1>13, UntouchedSilent DEF BeginResume, TakeLease, ResumeBaseline, ResumeCapture,
     ResumeCaptured, Untouched, evidence, disk, workspaces, attempts, Step, AppendEvent
<1>14. CASE ResumeVerified(p) \/ NextAttempt(p) \/ CheckClone(p)
          \/ BeginClone(p) \/ EndClone(p)
  BY <1>14, UntouchedSilent DEF ResumeVerified, NextAttempt, CheckClone, BeginClone, EndClone,
     Untouched, evidence, disk, workspaces, attempts, Step, AppendEvent
<1>15. CASE StartAgent(p) \/ AgentSucceeds(p) \/ AgentFails(p)
          \/ CheckCapture(p) \/ RefuseCapture(p)
  BY <1>15, UntouchedSilent DEF StartAgent, AgentSucceeds, AgentFails, CheckCapture,
     RefuseCapture, Untouched, evidence, disk, workspaces, attempts, Step, AppendEvent
<1>16. CASE Analyze(p) \/ Quarantine(p) \/ CheckFinal(p) \/ FreshClone(p) \/ StartOracle(p)
  BY <1>16, UntouchedSilent DEF Analyze, Quarantine, CheckFinal, FreshClone, StartOracle,
     Untouched, evidence, disk, workspaces, attempts, Step, AppendEvent
<1>17. CASE EndOracle(p) \/ MakeLogs(p) \/ RecordAttempt(p)
          \/ AttemptCompleted(p) \/ BeginArchive(p)
  BY <1>17, UntouchedSilent DEF EndOracle, MakeLogs, RecordAttempt, AttemptCompleted,
     BeginArchive, Untouched, evidence, disk, workspaces, attempts, Step, AppendEvent
<1>18. CASE EndArchive(p) \/ Finish(p) \/ Tidy(p) \/ HandleFailure(p) \/ ErrorEvent(p)
  BY <1>18, UntouchedSilent DEF EndArchive, Finish, Tidy, HandleFailure, ErrorEvent, Untouched,
     evidence, disk, workspaces, attempts, Step, AppendEvent
<1>19. CASE Sweep(p) \/ Raise(p) \/ Abandon(p) \/ BeginAbort(p) \/ StopContainers(p)
  BY <1>19, UntouchedSilent DEF Sweep, Raise, Abandon, BeginAbort, StopContainers, Untouched,
     evidence, disk, workspaces, attempts, Step, AppendEvent
<1>20. CASE RequestAbort(p) \/ BeginClean(p) \/ RemoveTrees(p)
          \/ CheckApply(p) \/ LockApply(p)
  BY <1>20, UntouchedSilent DEF RequestAbort, BeginClean, RemoveTrees, CheckApply, LockApply,
     Untouched, evidence, disk, workspaces, attempts, Step, AppendEvent
<1>. QED
  BY <1>1, <1>2, <1>3, <1>4, <1>5, <1>6, <1>7, <1>8, <1>9, <1>10, <1>11, <1>12, <1>13,
     <1>14, <1>15, <1>16, <1>17, <1>18, <1>19, <1>20
  DEF Resuming, Attempting, Capturing, Verifying, Closing, Failing, Aborting, Cleaning,
     Applying, Proceed, Acts

\* A run keeps its promise, whoever asks and whatever fails: a patch is captured once for
\* an attempt and nothing replaces it, only one that passed is verified, one receipt says
\* what became of the run and ends its attempts, and only the patch that a receipt names
\* as verified reaches the repository.
THEOREM RunImplemented == Spec => ImplementsRun
<1>1. Init => Promise!Init
  <2>. SUFFICES ASSUME Init PROVE Promise!Init
    OBVIOUS
  <2>1. Phase = "open" /\ bindings = Unbound
    BY DEF Init, Phase, Unbound
  <2>2. Held = None /\ Bound = <<>>
    BY <2>1, BoundReceipt DEF Held, BoundFits
  <2>. QED
    BY <2>1, <2>2 DEF Init, Promise!Init
<1>2. RunInv /\ [Next]_vars => [Promise!Next]_(Promise!vars)
  <2>. SUFFICES ASSUME RunInv, [Next]_vars PROVE [Promise!Next]_(Promise!vars)
    OBVIOUS
  <2>1. RunInv'
    BY RunStep
  <2>2. CASE UNCHANGED vars
    BY <2>2, UntouchedSilent DEF Untouched, vars, evidence, disk, workspaces, attempts
  <2>3. CASE Next
    <3>. PICK p \in Process : Acts(p)
      BY <2>3, Zenon DEF Next, Acts
    <3>. QED
      BY <2>1, StepSimulates
  <2>. QED
    BY <2>2, <2>3
<1>. QED
  BY <1>1, <1>2, RunHolds, PTL DEF Spec, ImplementsRun, Promise!Spec
-----------------------------------------------------------------------------
(* How long a command can take. *)

(* The most steps that lie before a command at each place, up to its next attempt; a    *)
(* failure is handled in four, and "archiving" has one more for each file that is left. *)
Distance ==
  [idle |-> 0, sweep |-> 1, error |-> 2, erring |-> 3, failing |-> 4,
   tidy |-> 5, sign |-> 6, receipt |-> 7, finish |-> 8, record |-> 9, reject |-> 9,
   decide |-> 10, judged |-> 11, logs |-> 12, judging |-> 13, oracle |-> 14, verifying |-> 15,
   fresh |-> 16, final |-> 17, analyze |-> 18, binding |-> 19, capturing |-> 20,
   captured |-> 21, capture |-> 22, running |-> 23, agent |-> 24, patching |-> 25,
   clonefile |-> 26, cloning |-> 27, checked |-> 28, clone |-> 29, prepare |-> 30,
   attempts |-> 31, archiving |-> 32, archive |-> 36, recorded |-> 37, dispatch |-> 38,
   lease |-> 39,
   aborted |-> 1, aborting |-> 2, abort |-> 3,
   cleaned |-> 1, cleaning |-> 2,
   patched |-> 1, branched |-> 2, applying |-> 3, apply |-> 4]

PerAttempt == 40

One(file) == IF file # None THEN 1 ELSE 0
Files == One(patch.record) + One(patch.clone) + One(patch.diff)

StepsLeft(p) ==
  PerAttempt * (MaxAttempts - records) + Distance[at[p]]
    + IF at[p] = "archiving" THEN Files ELSE 0

(* With every step of its own a command comes closer to its end, and nobody else's      *)
(* step takes it further away from it.                                                  *)
CommandsGetOn ==
  [][\A p \in Process : at[p] # "idle" =>
       /\ StepsLeft(p)' <= StepsLeft(p)
       /\ Acts(p) => StepsLeft(p)' < StepsLeft(p)]_vars

\* The distances, one by one.
LEMMA Distances ==
  /\ Distance["idle"] = 0 /\ Distance["sweep"] = 1 /\ Distance["error"] = 2
  /\ Distance["erring"] = 3 /\ Distance["failing"] = 4 /\ Distance["tidy"] = 5
  /\ Distance["sign"] = 6 /\ Distance["receipt"] = 7 /\ Distance["finish"] = 8
  /\ Distance["record"] = 9 /\ Distance["reject"] = 9 /\ Distance["decide"] = 10
  /\ Distance["judged"] = 11 /\ Distance["logs"] = 12 /\ Distance["judging"] = 13
  /\ Distance["oracle"] = 14 /\ Distance["verifying"] = 15 /\ Distance["fresh"] = 16
  /\ Distance["final"] = 17 /\ Distance["analyze"] = 18 /\ Distance["binding"] = 19
  /\ Distance["capturing"] = 20 /\ Distance["captured"] = 21 /\ Distance["capture"] = 22
  /\ Distance["running"] = 23 /\ Distance["agent"] = 24 /\ Distance["patching"] = 25
  /\ Distance["clonefile"] = 26 /\ Distance["cloning"] = 27 /\ Distance["checked"] = 28
  /\ Distance["clone"] = 29 /\ Distance["prepare"] = 30 /\ Distance["attempts"] = 31
  /\ Distance["archiving"] = 32 /\ Distance["archive"] = 36 /\ Distance["recorded"] = 37
  /\ Distance["dispatch"] = 38 /\ Distance["lease"] = 39 /\ Distance["aborted"] = 1
  /\ Distance["aborting"] = 2 /\ Distance["abort"] = 3 /\ Distance["cleaned"] = 1
  /\ Distance["cleaning"] = 2 /\ Distance["patched"] = 1 /\ Distance["branched"] = 2
  /\ Distance["applying"] = 3 /\ Distance["apply"] = 4
BY DEF Distance

\* All of them are small numbers; only a command that has ended is at none, and one that
\* may still fail is further away than the handling of its failure.
LEMMA DistanceRange ==
  /\ \A place \in Place : Distance[place] \in 0 .. PerAttempt - 1
  /\ \A place \in Place \ {"idle"} : Distance[place] > 0
  /\ \A place \in Working : Distance[place] > Distance["failing"]
<1>. USE DEF PerAttempt
<1>1. ASSUME NEW place \in Working
      PROVE  Distance[place] \in 5 .. 39
  BY Distances DEF Working
<1>2. ASSUME NEW place \in Handling \union Commanding
      PROVE  Distance[place] \in 1 .. 39
  <2>1. CASE place \in Handling
    BY <2>1, Distances DEF Handling
  <2>2. CASE place \in {"lease", "abort", "aborting", "aborted"}
    BY <2>2, Distances
  <2>3. CASE place \in {"cleaning", "cleaned"}
    BY <2>3, Distances
  <2>4. CASE place \in {"apply", "applying", "branched", "patched"}
    BY <2>4, Distances
  <2>. QED
    BY <1>2, <2>1, <2>2, <2>3, <2>4 DEF Commanding
<1>3. Distance["idle"] = 0 /\ Distance["failing"] = 4
  BY Distances
<1>. QED
  BY <1>1, <1>2, <1>3 DEF Place

\* At most three files are left.
LEMMA FilesRange ==
  /\ TypeOK => Files \in 0 .. 3
  /\ TypeOK' => Files' \in 0 .. 3
BY DEF Files, One

\* So a command takes no more steps than these.
LEMMA StepsRange ==
  ASSUME TypeOK, NEW p \in Process
  PROVE  StepsLeft(p) \in 0 .. PerAttempt * (MaxAttempts + 1)
<1>1. Distance[at[p]] \in 0 .. PerAttempt - 1 /\ Files \in 0 .. 3
  BY DistanceRange, FilesRange DEF TypeOK
<1>2. MaxAttempts - records \in 0 .. MaxAttempts
  BY DEF TypeOK
<1>3. at[p] = "archiving" => Distance[at[p]] = 32
  BY Distances
<1>. QED
  BY <1>1, <1>2, <1>3 DEF StepsLeft, PerAttempt

\* One process goes on; the records only grow, and only a workflow changes the patch.
LEMMA Effects ==
  ASSUME TypeOK, NEW p \in Process, Acts(p)
  PROVE  /\ records' \in {records, records + 1}
         /\ patch' # patch => at[p] \in Working
         /\ \A q \in Process : q # p => at'[q] = at[q]
<1>. USE DEF Step, Leave, Working, disk, attempts
<1>1. CASE BeginResume(p) \/ TakeLease(p)
  BY <1>1, Goes DEF BeginResume, TakeLease
<1>2. CASE ResumeBaseline(p) \/ ResumeCapture(p)
  BY <1>2, Goes DEF ResumeBaseline, ResumeCapture
<1>3. CASE ResumeCaptured(p) \/ ResumeVerified(p)
  BY <1>3, Goes DEF ResumeCaptured, ResumeVerified
<1>4. CASE NextAttempt(p) \/ Prepare(p)
  BY <1>4, Goes DEF NextAttempt, Prepare
<1>5. CASE CheckClone(p) \/ BeginClone(p) \/ EndClone(p)
  BY <1>5, Goes DEF CheckClone, BeginClone, EndClone
<1>6. CASE WriteClone(p) \/ StartPatching(p)
  BY <1>6, Goes DEF WriteClone, StartPatching
<1>7. CASE StartAgent(p) \/ AgentSucceeds(p)
  BY <1>7, Goes DEF StartAgent, AgentSucceeds
<1>8. CASE AgentFails(p)
  BY <1>8, Goes DEF AgentFails
<1>9. CASE CheckCapture(p) \/ BeginCapture(p)
  BY <1>9, Goes DEF CheckCapture, BeginCapture
<1>10. CASE WriteRecord(p) \/ EndCapture(p)
  BY <1>10, Goes DEF WriteRecord, EndCapture
<1>11. CASE RefuseCapture(p) \/ Reject(p)
  BY <1>11, Goes DEF RefuseCapture, Reject
<1>12. CASE Analyze(p) \/ StartFinal(p)
  BY <1>12, Goes DEF Analyze, StartFinal
<1>13. CASE Quarantine(p) \/ CheckFinal(p)
  BY <1>13, Goes DEF Quarantine, CheckFinal
<1>14. CASE FreshClone(p) \/ StartOracle(p)
  BY <1>14, Goes DEF FreshClone, StartOracle
<1>15. CASE EndOracle(p) \/ MakeLogs(p)
  BY <1>15, Goes DEF EndOracle, MakeLogs
<1>16. CASE OracleCompleted(p) \/ Decide(p)
  BY <1>16, Goes DEF OracleCompleted, Decide
<1>17. CASE RecordAttempt(p) \/ AttemptCompleted(p)
  BY <1>17, Goes DEF RecordAttempt, AttemptCompleted
<1>18. CASE BeginArchive(p) \/ ArchiveFile(p) \/ EndArchive(p)
  BY <1>18, Goes DEF BeginArchive, ArchiveFile, EndArchive
<1>19. CASE Finish(p) \/ WriteReceipt(p)
  BY <1>19, Goes DEF Finish, WriteReceipt
<1>20. CASE SignReceipt(p) \/ Tidy(p)
  BY <1>20, Goes DEF SignReceipt, Tidy
<1>21. CASE HandleFailure(p) \/ ErrorEvent(p)
  BY <1>21, Goes DEF HandleFailure, ErrorEvent
<1>22. CASE MoveToError(p) \/ Sweep(p)
  BY <1>22, Goes DEF MoveToError, Sweep
<1>23. CASE Raise(p) \/ Abandon(p)
  BY <1>23, Goes DEF Raise, Abandon
<1>24. CASE BeginAbort(p) \/ StopContainers(p)
  BY <1>24, Goes DEF BeginAbort, StopContainers
<1>25. CASE RequestAbort(p) \/ ConfirmAbort(p)
  BY <1>25, Goes DEF RequestAbort, ConfirmAbort
<1>26. CASE BeginClean(p) \/ RemoveTrees(p)
  BY <1>26, Goes DEF BeginClean, RemoveTrees
<1>27. CASE EndClean(p)
  BY <1>27, Goes DEF EndClean
<1>28. CASE CheckApply(p) \/ LockApply(p)
  BY <1>28, Goes DEF CheckApply, LockApply
<1>29. CASE CreateBranch(p) \/ PatchBranch(p)
  BY <1>29, Goes DEF CreateBranch, PatchBranch
<1>30. CASE RestoreBranch(p) \/ EndApply(p)
  BY <1>30, Goes DEF RestoreBranch, EndApply
<1>. QED
  BY <1>1, <1>2, <1>3, <1>4, <1>5, <1>6, <1>7, <1>8, <1>9, <1>10, <1>11, <1>12, <1>13, <1>14,
     <1>15, <1>16, <1>17, <1>18, <1>19, <1>20, <1>21, <1>22, <1>23, <1>24, <1>25, <1>26,
     <1>27, <1>28, <1>29, <1>30
  DEF Resuming, Attempting, Capturing, Verifying, Closing, Failing, Aborting, Cleaning,
     Applying, Proceed, Acts
\* A step of a command leads nearer to its end; or it puts an attempt on record; or files
\* are moved.
Nearer(p) ==
  /\ records' = records /\ at'[p] # "archiving"
  /\ Distance[at'[p]] < Distance[at[p]]

LEMMA OwnStep ==
  ASSUME TypeOK, NEW p \in Process, Acts(p), at[p] # "idle"
  PROVE  Nearer(p) \/ RecordAttempt(p) \/ BeginArchive(p) \/ ArchiveFile(p)
<1>. USE DEF Nearer, Step, Leave, disk, attempts
<1>1. CASE BeginResume(p) \/ TakeLease(p)
  BY <1>1, Goes, Distances DEF BeginResume, TakeLease
<1>2. CASE ResumeBaseline(p) \/ ResumeCapture(p)
  BY <1>2, Goes, Distances DEF ResumeBaseline, ResumeCapture
<1>3. CASE ResumeCaptured(p) \/ ResumeVerified(p)
  BY <1>3, Goes, Distances DEF ResumeCaptured, ResumeVerified
<1>4. CASE NextAttempt(p) \/ Prepare(p)
  BY <1>4, Goes, Distances DEF NextAttempt, Prepare
<1>5. CASE CheckClone(p) \/ BeginClone(p) \/ EndClone(p)
  BY <1>5, Goes, Distances DEF CheckClone, BeginClone, EndClone
<1>6. CASE WriteClone(p) \/ StartPatching(p)
  BY <1>6, Goes, Distances DEF WriteClone, StartPatching
<1>7. CASE StartAgent(p) \/ AgentSucceeds(p)
  BY <1>7, Goes, Distances DEF StartAgent, AgentSucceeds
<1>8. CASE AgentFails(p)
  BY <1>8, Goes, Distances DEF AgentFails
<1>9. CASE CheckCapture(p) \/ BeginCapture(p)
  BY <1>9, Goes, Distances DEF CheckCapture, BeginCapture
<1>10. CASE WriteRecord(p) \/ EndCapture(p)
  BY <1>10, Goes, Distances DEF WriteRecord, EndCapture
<1>11. CASE RefuseCapture(p) \/ Reject(p)
  BY <1>11, Goes, Distances DEF RefuseCapture, Reject
<1>12. CASE Analyze(p) \/ StartFinal(p)
  BY <1>12, Goes, Distances DEF Analyze, StartFinal
<1>13. CASE Quarantine(p) \/ CheckFinal(p)
  BY <1>13, Goes, Distances DEF Quarantine, CheckFinal
<1>14. CASE FreshClone(p) \/ StartOracle(p)
  BY <1>14, Goes, Distances DEF FreshClone, StartOracle
<1>15. CASE EndOracle(p) \/ MakeLogs(p)
  BY <1>15, Goes, Distances DEF EndOracle, MakeLogs
<1>16. CASE OracleCompleted(p) \/ Decide(p)
  BY <1>16, Goes, Distances DEF OracleCompleted, Decide
<1>17. CASE RecordAttempt(p) \/ AttemptCompleted(p)
  BY <1>17, Goes, Distances DEF AttemptCompleted
<1>18. CASE BeginArchive(p) \/ ArchiveFile(p) \/ EndArchive(p)
  BY <1>18, Goes, Distances DEF EndArchive
<1>19. CASE Finish(p) \/ WriteReceipt(p)
  BY <1>19, Goes, Distances DEF Finish, WriteReceipt
<1>20. CASE SignReceipt(p) \/ Tidy(p)
  <2>1. CASE SignReceipt(p)
    <3>1. at[p] = "sign" /\ GoTo(p, "tidy") /\ records' = records
      BY <2>1, Zenon DEF SignReceipt
    <3>. QED
      BY <3>1, Goes, Distances
  <2>2. CASE Tidy(p)
    BY <2>2, Goes, Distances DEF Tidy
  <2>. QED
    BY <1>20, <2>1, <2>2
<1>21. CASE HandleFailure(p) \/ ErrorEvent(p)
  BY <1>21, Goes, Distances DEF HandleFailure, ErrorEvent
<1>22. CASE MoveToError(p) \/ Sweep(p)
  BY <1>22, Goes, Distances DEF MoveToError, Sweep
<1>23. CASE Raise(p) \/ Abandon(p)
  <2>1. CASE Raise(p)
    BY <2>1, Goes, DistanceRange DEF Raise
  <2>2. CASE Abandon(p)
    <3>1. GoTo(p, "idle") /\ records' = records /\ at[p] # "idle"
      BY <2>2, Zenon DEF Abandon
    <3>2. at'[p] = "idle" /\ at[p] \in Place
      BY <3>1, Goes DEF TypeOK
    <3>. QED
      BY <3>1, <3>2, DistanceRange, Distances
  <2>. QED
    BY <1>23, <2>1, <2>2
<1>24. CASE BeginAbort(p) \/ StopContainers(p)
  BY <1>24, Goes, Distances DEF BeginAbort, StopContainers
<1>25. CASE RequestAbort(p) \/ ConfirmAbort(p)
  BY <1>25, Goes, Distances DEF RequestAbort, ConfirmAbort
<1>26. CASE BeginClean(p) \/ RemoveTrees(p)
  BY <1>26, Goes, Distances DEF BeginClean, RemoveTrees
<1>27. CASE EndClean(p)
  BY <1>27, Goes, Distances DEF EndClean
<1>28. CASE CheckApply(p) \/ LockApply(p)
  BY <1>28, Goes, Distances DEF CheckApply, LockApply
<1>29. CASE CreateBranch(p) \/ PatchBranch(p)
  BY <1>29, Goes, Distances DEF CreateBranch, PatchBranch
<1>30. CASE RestoreBranch(p) \/ EndApply(p)
  BY <1>30, Goes, Distances DEF RestoreBranch, EndApply
<1>. QED
  BY <1>1, <1>2, <1>3, <1>4, <1>5, <1>6, <1>7, <1>8, <1>9, <1>10, <1>11, <1>12, <1>13, <1>14,
     <1>15, <1>16, <1>17, <1>18, <1>19, <1>20, <1>21, <1>22, <1>23, <1>24, <1>25, <1>26,
     <1>27, <1>28, <1>29, <1>30
  DEF Resuming, Attempting, Capturing, Verifying, Closing, Failing, Aborting, Cleaning,
     Applying, Proceed, Acts

LEMMA Closer ==
  ASSUME NEW before \in Nat, NEW left \in Nat, NEW here \in Nat, NEW there \in Nat,
         there < here, left >= before + here
  PROVE  before + there < left /\ before + there <= left
OBVIOUS

\* A command gets on by its own steps.
LEMMA OwnProgress ==
  ASSUME TypeOK, TypeOK', NEW p \in Process, Acts(p), at[p] # "idle"
  PROVE  StepsLeft(p)' < StepsLeft(p) /\ StepsLeft(p)' <= StepsLeft(p)
<1>. USE DEF StepsLeft, PerAttempt
<1>1. /\ Distance[at[p]] \in 0 .. 39 /\ Distance[at'[p]] \in 0 .. 39
      /\ Files \in 0 .. 3 /\ Files' \in 0 .. 3
  BY DistanceRange, FilesRange DEF TypeOK
<1>2. records \in 0 .. MaxAttempts /\ records' \in 0 .. MaxAttempts /\ MaxAttempts \in Nat
  BY DEF TypeOK
<1>3. CASE Nearer(p)
  <2>. DEFINE before == 40 * (MaxAttempts - records)
  <2>1. before \in Nat
    BY <1>2
  <2>2. StepsLeft(p)' = before + Distance[at'[p]]
    BY <1>1, <1>3, <2>1 DEF Nearer
  <2>3. /\ StepsLeft(p) >= before + Distance[at[p]]
        /\ StepsLeft(p) \in Nat
    BY <1>1, <2>1
  <2>4. Distance[at'[p]] < Distance[at[p]]
    BY <1>3 DEF Nearer
  <2>. HIDE DEF before, StepsLeft
  <2>5. Distance[at[p]] \in Nat /\ Distance[at'[p]] \in Nat
    BY <1>1
  <2>. QED
    BY <2>1, <2>2, <2>3, <2>4, <2>5, Closer
<1>4. CASE RecordAttempt(p)
  <2>1. at[p] = "record" /\ at'[p] = "recorded" /\ records' = records + 1
    BY <1>4, Goes DEF RecordAttempt, Step
  <2>2. 40 * (MaxAttempts - records') = 40 * (MaxAttempts - records) - 40
    BY <1>2, <2>1
  <2>. QED
    BY <1>2, <2>1, <2>2, Distances
<1>5. CASE BeginArchive(p)
  <2>1. at[p] = "archive" /\ at'[p] = "archiving" /\ records' = records
    BY <1>5, Goes DEF BeginArchive, Step
  <2>. DEFINE before == 40 * (MaxAttempts - records)
  <2>2. before \in Nat
    BY <1>2
  <2>3. StepsLeft(p) = before + 36 /\ StepsLeft(p)' = before + 32 + Files'
    BY <1>1, <2>1, <2>2, Distances
  <2>. HIDE DEF before
  <2>. QED
    BY <1>1, <2>2, <2>3
<1>6. CASE ArchiveFile(p)
  <2>1. at[p] = "archiving" /\ at' = at /\ records' = records
    BY <1>6 DEF ArchiveFile, attempts
  <2>2. Files' < Files
    BY <1>6, Parts, TypeOK DEF ArchiveFile, Files, One, TypeOK
  <2>. QED
    BY <1>1, <1>2, <2>1, <2>2
<1>. QED
  BY <1>3, <1>4, <1>5, <1>6, OwnStep

\* The steps of others keep no command from its end: while one moves its files, nobody
\* else changes them.
LEMMA OthersProgress ==
  ASSUME TypeOK, TypeOK', LockInv, NEW p \in Process, Acts(p), NEW q \in Process, q # p
  PROVE  StepsLeft(q)' <= StepsLeft(q)
<1>1. /\ Distance[at[q]] \in 0 .. 39 /\ Files \in 0 .. 3
      /\ records \in Nat /\ records' \in Nat /\ MaxAttempts \in Nat
  BY DistanceRange, FilesRange DEF TypeOK, PerAttempt
<1>2. at'[q] = at[q]
  BY Effects
<1>3. records' \in {records, records + 1}
  BY Effects
<1>4. at[q] = "archiving" => Files' = Files
  <2>1. ASSUME at[q] = "archiving" PROVE patch' = patch
    <3>1. at[p] \notin Working
      BY <2>1 DEF LockInv, Working
    <3>. QED
      BY <3>1, Effects
  <2>. QED
    BY <2>1 DEF Files
<1>. QED
  BY <1>1, <1>2, <1>3, <1>4 DEF StepsLeft, PerAttempt

\* However others interfere, a command takes at most PerAttempt steps for each attempt
\* that is left, and those of one: every step of its own brings it closer to its end, and
\* no step of another takes it further away.
THEOREM CommandsAreBounded ==
  Spec => /\ CommandsGetOn
          /\ [](\A p \in Process : StepsLeft(p) \in 0 .. PerAttempt * (MaxAttempts + 1))
<1>1. ASSUME IInv, IInv', [Next]_vars, NEW p \in Process, at[p] # "idle"
      PROVE  StepsLeft(p)' <= StepsLeft(p) /\ (Acts(p) => StepsLeft(p)' < StepsLeft(p))
  <2>1. TypeOK /\ TypeOK' /\ LockInv
    BY <1>1 DEF IInv
  <2>2. Acts(p) => StepsLeft(p)' < StepsLeft(p) /\ StepsLeft(p)' <= StepsLeft(p)
    BY <1>1, <2>1, OwnProgress
  <2>3. CASE UNCHANGED vars
    <3>1. UNCHANGED <<at, records, patch>>
      BY <2>3 DEF vars, disk, attempts
    <3>2. StepsLeft(p)' = StepsLeft(p)
      BY <3>1 DEF StepsLeft, Files
    <3>. QED
      BY <2>1, <2>2, <3>2, StepsRange
  <2>4. CASE Next
    <3>. PICK q \in Process : Acts(q)
      BY <2>4, Zenon DEF Next, Acts
    <3>. QED
      BY <2>1, <2>2, OthersProgress
  <2>. QED
    BY <1>1, <2>3, <2>4
<1>2. IInv /\ IInv' /\ [Next]_vars =>
        [\A p \in Process : at[p] # "idle" =>
           /\ StepsLeft(p)' <= StepsLeft(p)
           /\ Acts(p) => StepsLeft(p)' < StepsLeft(p)]_vars
  BY <1>1
<1>3. IInv => \A p \in Process : StepsLeft(p) \in 0 .. PerAttempt * (MaxAttempts + 1)
  BY StepsRange DEF IInv
<1>. QED
  BY <1>2, <1>3, IInvHolds, PTL DEF Spec, CommandsGetOn
=============================================================================
