------------------------ MODULE Investigation_proofs ------------------------
(***************************************************************************)
(* The properties of Investigation for any contracts.                      *)
(***************************************************************************)
EXTENDS Investigation, TLAPS

USE InvestigationAssumption DEF InvestigationAssumption

(* The parts of the call, up to the decision. *)
Beginning == {"preparing", "clone", "making", "investigate", "start"}
Exploring == {"probe", "agent", "investigating", "outcome"}
Checking == {"recheck", "verify", "verifying", "cloning", "copy", "oracle", "judging"}
Ending == {"failing", "erring", "sweep", "returned", "patch", "killed"}

BeforeContract == {"prepare", "plan"} \union Beginning \union Exploring
BeforeJudgment == BeforeContract \union {"submit", "environment"} \union Checking
Stopped == {"ABORTED", "ERROR", "CLEANED"}

(* The states that the worker can meet from the contract on, and where it may be once *)
(* the baseline is reproduced.                                                        *)
StateInv ==
  /\ at \in {"environment", "persist", "decide"} \union Checking =>
       state \in {"CONTRACT_SUBMITTED", "BASELINE_VERIFYING"} \union Stopped
  /\ state = "BASELINE_REPRODUCED" => at \in {"confirm"} \union Ending
  /\ state \in RunState \ {"PATCH_PREPARING", "PATCHING", "PATCH_CAPTURED", "FINAL_VERIFYING",
                           "VERIFIED", "APPLIED"}

(* One contract is validated, bound, mounted and judged. *)
ContractInv ==
  /\ at \in BeforeContract \union {"submit"} => bound = NoContract
  /\ at \in {"submit", "environment", "persist", "decide"} \union Checking =>
       held \in Contract /\ (~altered => submitted = held /\ assets = held)
  /\ at \in {"environment", "persist", "decide"} \union Checking => bound = held
  /\ at \in {"oracle", "judging"} => mounted = held
  /\ at \in BeforeJudgment => judged = NoJudgment
  /\ at \in {"persist", "decide"} => judged.contract = bound /\ judged.assets = bound

(* What has been written at each place; nothing of it is taken back. *)
FilesInv ==
  /\ at = "plan" => "repository" \in files
  /\ at \in {"submit", "environment", "persist"} \union Beginning \union Exploring
             \union Checking =>
       {"repository", "plan"} \subseteq files /\ "configuration.resolved" \in events
  /\ at \in {"submit", "environment", "persist"} \union Exploring \union Checking =>
       "investigation.started" \in events
  /\ at \in {"persist"} \union Checking =>
       "identity" \in files /\ "environment.prepared" \in events
  /\ at = "decide" => files = File /\ events = Event

(* A container runs only where the worker waits for it, or where its end is due. *)
ContainerInv ==
  container \notin {"none", "lost"} => at \in {"investigating", "judging", "failing", "killed"}

(* An error is in flight only on the way out, and a hard one ends the run. *)
ErrorInv ==
  /\ at \in Working \ {"refused", "reject"} => error = "none"
  /\ at \in {"sweep", "returned"} /\ error = "hard" => Ended

IInv ==
  /\ TypeOK /\ StateInv /\ ContractInv /\ FilesInv /\ CheckpointComplete /\ ContainerInv
  /\ ErrorInv
-----------------------------------------------------------------------------
(* Types.                                                                  *)

\* A transition is one between states of a run.
LEMMA TransitionStates ==
  ASSUME NEW current, NEW target, CanTransition(current, target)
  PROVE  current \in RunState /\ target \in RunState
BY DEF CanTransition, ValidTransitions, Progress, Interruptible, RunState

\* Only a run that has not ended can be aborted or fail, and every other has ended.
LEMMA Stops ==
  /\ \A s \in RunState : ~CanTransition(s, "ERROR") =>
       s \in Completed \union {"CLEANED", "BASELINE_NOT_REPRODUCED"}
  /\ \A s : CanTransition(s, "ABORTED") =>
       s \notin Completed \union {"CLEANED", "BASELINE_NOT_REPRODUCED"}
BY DEF CanTransition, ValidTransitions, Progress, Interruptible, RunState, Completed

\* What the commands of the other process change, and what they leave alone.
LEMMA CommandEffect ==
  ASSUME TypeOK, Commanding
  PROVE  /\ UNCHANGED <<events, bound, files, submitted, assets, altered, claim, denial, scratch,
                        at, error, held, mounted, judged>>
         /\ \/ state' = state
            \/ /\ state' = "ABORTED"
               /\ state \notin Completed \union {"CLEANED", "BASELINE_NOT_REPRODUCED"}
            \/ state' = "CLEANED"
         /\ \/ container' = container
            \/ /\ container \in {"none", "lost"}
               /\ container' = "none"
            \/ /\ container \notin {"none", "lost"}
               /\ container' = "stopped"
         /\ trees' \subseteq {"investigation", "baseline"}
         /\ command' \in {"idle", "abort", "aborting", "cleaning"}
         /\ read' \in RunState \union {NoState}
<1>. USE DEF TypeOK, Command, evidence, disk, work, output
<1>1. CASE BeginAbort \/ LeaveCommand \/ BeginClean
  BY <1>1 DEF BeginAbort, LeaveCommand, BeginClean
<1>2. CASE StopContainers
  BY <1>2 DEF StopContainers
<1>3. CASE ConfirmAbort
  BY <1>3, Stops DEF ConfirmAbort, Transition, MoveTo
<1>4. CASE EndClean
  BY <1>4 DEF EndClean, MoveTo
<1>. QED
  BY <1>1, <1>2, <1>3, <1>4 DEF Commanding

\* The types hold at first.
LEMMA TypeInit == Init => TypeOK
<1>. SUFFICES ASSUME Init PROVE TypeOK
  OBVIOUS
<1>1. NoJudgment \in [contract : MaybeContract, assets : MaybeContract,
                      result : {"none", "passed", "failed"}]
  BY DEF NoJudgment, MaybeContract
<1>. QED
  BY <1>1 DEF Init, TypeOK, MaybeContract, RunState, NoState, Place, Working

\* Every step leads from place to place.
LEMMA PlaceStep ==
  ASSUME at \in Place, [Next]_vars
  PROVE  at' \in Place
<1>. USE DEF Step, Place, Guarded, Working
<1>1. CASE PrepareRun \/ PrepareBaseline \/ Investigate
  BY <1>1 DEF PrepareRun, PrepareBaseline, Investigate, Transition
<1>2. CASE RecordPlan \/ RecordStart
  BY <1>2 DEF RecordPlan, RecordStart, AppendEvent
<1>3. CASE \/ CheckClone("clone", "making", {"BASELINE_PREPARING", "INVESTIGATING"})
           \/ CheckClone("verifying", "cloning", {"BASELINE_PREPARING", "BASELINE_VERIFYING"})
           \/ MakeClone("making", "investigate", "investigation")
           \/ MakeClone("cloning", "copy", "baseline")
  BY <1>3 DEF CheckClone, MakeClone
<1>4. CASE ProbeVersion \/ Investigating
  BY <1>4 DEF ProbeVersion, Investigating, StartAgent, AgentWrites, AgentExits, AgentFails
<1>5. CASE NotReproduced
  BY <1>5 DEF NotReproduced
<1>6. CASE Capture
  BY <1>6 DEF Capture
<1>7. CASE RecordContract
  BY <1>7 DEF RecordContract
<1>8. CASE RecordEnvironment
  BY <1>8 DEF RecordEnvironment, AppendEvent
<1>9. CASE Recheck \/ VerifyBaseline
  BY <1>9 DEF Recheck, VerifyBaseline, Transition
<1>10. CASE CopyAssets \/ StartOracle
  BY <1>10 DEF CopyAssets, StartOracle
<1>11. CASE EndOracle
  BY <1>11 DEF EndOracle
<1>12. CASE Persist
  BY <1>12 DEF Persist
<1>13. CASE Reproduced
  BY <1>13 DEF Reproduced, Transition
<1>14. CASE BaselineNotReproduced \/ CloseBaseline
  BY <1>14 DEF BaselineNotReproduced, CloseBaseline, Transition
<1>15. CASE ConfirmLock
  BY <1>15 DEF ConfirmLock
<1>16. CASE Refuse \/ Catch \/ Raise
  BY <1>16 DEF Refuse, Catch, Raise
<1>17. CASE Reject \/ MoveToError
  BY <1>17 DEF Reject, MoveToError, Transition
<1>18. CASE HandleFailure \/ HandlerGivesUp
  BY <1>18 DEF HandleFailure, HandlerGivesUp, Asked
<1>19. CASE HandlerFails \/ Sweep
  BY <1>19 DEF HandlerFails, Sweep
<1>20. CASE Killed \/ UNCHANGED vars
  BY <1>20 DEF Killed, vars
<1>21. CASE Alter
  BY <1>21 DEF Alter
<1>22. CASE Commanding
  BY <1>22 DEF Commanding, Command, BeginAbort, StopContainers, ConfirmAbort, LeaveCommand,
     BeginClean, EndClean
<1>. QED
  BY <1>1, <1>2, <1>3, <1>4, <1>5, <1>6, <1>7, <1>8, <1>9, <1>10, <1>11, <1>12, <1>13, <1>14,
     <1>15, <1>16, <1>17, <1>18, <1>19, <1>20, <1>21, <1>22
  DEF Next, Preparing, Submitting, Judging, Failing

\* Every step keeps the types.
LEMMA TypeStep ==
  ASSUME TypeOK, [Next]_vars
  PROVE  TypeOK'
<1>. USE DEF TypeOK, evidence, disk, output, work, other
<1>. at' \in Place
  BY PlaceStep
<1>1. CASE PrepareRun \/ PrepareBaseline \/ Investigate
  <2>1. state' \in RunState
    BY <1>1, TransitionStates DEF PrepareRun, PrepareBaseline, Investigate, Transition, MoveTo
  <2>2. /\ files' \subseteq File
        /\ UNCHANGED <<events, bound, submitted, assets, trees, altered, output, work,
                       container, other>>
    BY <1>1 DEF PrepareRun, PrepareBaseline, Investigate, Transition, File
  <2>. QED
    BY <2>1, <2>2
<1>2. CASE RecordPlan \/ RecordStart
  BY <1>2 DEF RecordPlan, RecordStart, AppendEvent, Event, File
<1>3. CASE \/ CheckClone("clone", "making", {"BASELINE_PREPARING", "INVESTIGATING"})
           \/ CheckClone("verifying", "cloning", {"BASELINE_PREPARING", "BASELINE_VERIFYING"})
           \/ MakeClone("making", "investigate", "investigation")
           \/ MakeClone("cloning", "copy", "baseline")
  <2>1. /\ trees' \subseteq {"investigation", "baseline"}
        /\ UNCHANGED <<evidence, files, submitted, assets, altered, output, work, container,
                       other>>
    BY <1>3 DEF CheckClone, MakeClone
  <2>. QED
    BY <2>1
<1>4. CASE ProbeVersion \/ Investigating
  <2>1. /\ claim' \in MaybeContract /\ scratch' \in MaybeContract /\ denial' \in BOOLEAN
        /\ container' \in {"none", "agent", "oracle", "stopped", "lost"}
        /\ UNCHANGED <<evidence, disk, work, other>>
    BY <1>4 DEF ProbeVersion, Investigating, StartAgent, AgentWrites, AgentExits, AgentFails,
       MaybeContract
  <2>. QED
    BY <2>1
<1>5. CASE NotReproduced
  BY <1>5, TransitionStates DEF NotReproduced, Transition, MoveTo
<1>6. CASE Capture
  BY <1>6 DEF Capture, MaybeContract
<1>7. CASE RecordContract
  BY <1>7, TransitionStates DEF RecordContract, MoveTo
<1>8. CASE RecordEnvironment
  BY <1>8 DEF RecordEnvironment, AppendEvent, Event, File
<1>9. CASE Recheck \/ VerifyBaseline
  BY <1>9, TransitionStates DEF Recheck, VerifyBaseline, Transition, MoveTo
<1>10. CASE CopyAssets \/ StartOracle
  <2>1. /\ mounted' \in MaybeContract
        /\ container' \in {"none", "agent", "oracle", "stopped", "lost"}
        /\ UNCHANGED <<evidence, disk, output, error, held, judged, other>>
    BY <1>10 DEF CopyAssets, StartOracle, MaybeContract
  <2>. QED
    BY <2>1
<1>11. CASE EndOracle
  <2>1. judged' \in [contract : MaybeContract, assets : MaybeContract,
                    result : {"none", "passed", "failed"}]
    BY <1>11 DEF EndOracle, MaybeContract
  <2>. QED
    BY <1>11, <2>1 DEF EndOracle
<1>12. CASE Persist
  BY <1>12 DEF Persist, File
<1>13. CASE Reproduced
  BY <1>13, TransitionStates DEF Reproduced, Transition, MoveTo
<1>14. CASE BaselineNotReproduced \/ CloseBaseline
  BY <1>14, TransitionStates DEF BaselineNotReproduced, CloseBaseline, Transition, MoveTo
<1>15. CASE ConfirmLock
  BY <1>15 DEF ConfirmLock
<1>16. CASE Refuse \/ Catch \/ Raise
  BY <1>16 DEF Refuse, Catch, Raise
<1>17. CASE Reject \/ MoveToError
  BY <1>17, TransitionStates DEF Reject, MoveToError, Transition, MoveTo
<1>18. CASE HandleFailure \/ HandlerGivesUp
  BY <1>18 DEF HandleFailure, HandlerGivesUp, Asked
<1>19. CASE HandlerFails \/ Sweep
  BY <1>19 DEF HandlerFails, Sweep
<1>20. CASE Killed \/ UNCHANGED vars
  BY <1>20 DEF Killed, vars
<1>21. CASE Alter
  BY <1>21 DEF Alter, MaybeContract
<1>22. CASE Commanding
  <2>1. state' \in RunState
    BY <1>22, CommandEffect DEF RunState
  <2>2. container' \in {"none", "agent", "oracle", "stopped", "lost"}
    BY <1>22, CommandEffect
  <2>. QED
    BY <1>22, <2>1, <2>2, CommandEffect
<1>. QED
  BY <1>1, <1>2, <1>3, <1>4, <1>5, <1>6, <1>7, <1>8, <1>9, <1>10, <1>11, <1>12, <1>13, <1>14,
     <1>15, <1>16, <1>17, <1>18, <1>19, <1>20, <1>21, <1>22
  DEF Next, Preparing, Submitting, Judging, Failing

\* All values of all variables are of their types in every reachable state.
THEOREM TypeCorrect == Spec => []TypeOK
BY TypeInit, TypeStep, PTL DEF Spec
-----------------------------------------------------------------------------
(* The invariant.                                                          *)

\* The state: only the decision reproduces the baseline.
LEMMA StateStep ==
  ASSUME TypeOK, StateInv, [Next]_vars
  PROVE  StateInv'
<1>. USE DEF StateInv, Stopped, RunState, Step, Beginning, Exploring, Checking, Ending,
   evidence, disk, output, work, other
<1>1. CASE PrepareRun \/ PrepareBaseline \/ Investigate
  BY <1>1 DEF PrepareRun, PrepareBaseline, Investigate, Transition, MoveTo
<1>2. CASE RecordPlan \/ RecordStart
  BY <1>2 DEF RecordPlan, RecordStart, AppendEvent
<1>3. CASE \/ CheckClone("clone", "making", {"BASELINE_PREPARING", "INVESTIGATING"})
           \/ CheckClone("verifying", "cloning", {"BASELINE_PREPARING", "BASELINE_VERIFYING"})
           \/ MakeClone("making", "investigate", "investigation")
           \/ MakeClone("cloning", "copy", "baseline")
  BY <1>3 DEF CheckClone, MakeClone
<1>4. CASE ProbeVersion \/ Investigating
  BY <1>4 DEF ProbeVersion, Investigating, StartAgent, AgentWrites, AgentExits, AgentFails
<1>5. CASE NotReproduced
  BY <1>5 DEF NotReproduced, Transition, MoveTo
<1>6. CASE Capture
  BY <1>6 DEF Capture
<1>7. CASE RecordContract
  BY <1>7 DEF RecordContract, MoveTo
<1>8. CASE RecordEnvironment
  BY <1>8 DEF RecordEnvironment, AppendEvent
<1>9. CASE Recheck \/ VerifyBaseline
  BY <1>9 DEF Recheck, VerifyBaseline, Transition, MoveTo
<1>10. CASE CopyAssets \/ StartOracle
  BY <1>10 DEF CopyAssets, StartOracle
<1>11. CASE EndOracle
  BY <1>11 DEF EndOracle
<1>12. CASE Persist
  BY <1>12 DEF Persist
<1>13. CASE Reproduced
  BY <1>13 DEF Reproduced, Transition, MoveTo
<1>14. CASE BaselineNotReproduced \/ CloseBaseline
  BY <1>14 DEF BaselineNotReproduced, CloseBaseline, Transition, MoveTo
<1>15. CASE ConfirmLock
  BY <1>15 DEF ConfirmLock
<1>16. CASE Refuse \/ Catch \/ Raise
  BY <1>16 DEF Refuse, Catch, Raise, Guarded, Working
<1>17. CASE Reject \/ MoveToError
  BY <1>17 DEF Reject, MoveToError, Transition, MoveTo
<1>18. CASE HandleFailure \/ HandlerGivesUp
  BY <1>18 DEF HandleFailure, HandlerGivesUp, Asked
<1>19. CASE HandlerFails \/ Sweep
  BY <1>19 DEF HandlerFails, Sweep
<1>20. CASE Killed \/ UNCHANGED vars
  BY <1>20 DEF Killed, vars
<1>21. CASE Alter
  BY <1>21 DEF Alter
<1>22. CASE Commanding
  BY <1>22, CommandEffect
<1>. QED
  BY <1>1, <1>2, <1>3, <1>4, <1>5, <1>6, <1>7, <1>8, <1>9, <1>10, <1>11, <1>12, <1>13, <1>14,
     <1>15, <1>16, <1>17, <1>18, <1>19, <1>20, <1>21, <1>22
  DEF Next, Preparing, Submitting, Judging, Failing

\* The contract: what is validated is what is bound, mounted and judged.
LEMMA ContractStep ==
  ASSUME TypeOK, ContractInv, [Next]_vars
  PROVE  ContractInv'
<1>. USE DEF ContractInv, BeforeContract, BeforeJudgment, Step,
   Beginning, Exploring, Checking, Ending, evidence, disk, output, work, other
<1>1. CASE PrepareRun \/ PrepareBaseline \/ Investigate
  BY <1>1 DEF PrepareRun, PrepareBaseline, Investigate, Transition
<1>2. CASE RecordPlan \/ RecordStart
  BY <1>2 DEF RecordPlan, RecordStart, AppendEvent
<1>3. CASE \/ CheckClone("clone", "making", {"BASELINE_PREPARING", "INVESTIGATING"})
           \/ CheckClone("verifying", "cloning", {"BASELINE_PREPARING", "BASELINE_VERIFYING"})
           \/ MakeClone("making", "investigate", "investigation")
           \/ MakeClone("cloning", "copy", "baseline")
  BY <1>3 DEF CheckClone, MakeClone
<1>4. CASE ProbeVersion \/ Investigating
  BY <1>4 DEF ProbeVersion, Investigating, StartAgent, AgentWrites, AgentExits, AgentFails
<1>5. CASE NotReproduced
  BY <1>5 DEF NotReproduced, Transition
<1>6. CASE Capture
  <2>1. claim \in Contract /\ bound = NoContract /\ judged = NoJudgment
    BY <1>6 DEF Capture, TypeOK, MaybeContract
  <2>. QED
    BY <1>6, <2>1 DEF Capture
<1>7. CASE RecordContract
  BY <1>7 DEF RecordContract
<1>8. CASE RecordEnvironment
  BY <1>8 DEF RecordEnvironment, AppendEvent
<1>9. CASE Recheck \/ VerifyBaseline
  BY <1>9 DEF Recheck, VerifyBaseline, Transition
<1>10. CASE CopyAssets \/ StartOracle
  BY <1>10 DEF CopyAssets, StartOracle
<1>11. CASE EndOracle
  <2>1. judged'.contract = held /\ judged'.assets = mounted
    BY <1>11 DEF EndOracle
  <2>. QED
    BY <1>11, <2>1 DEF EndOracle
<1>12. CASE Persist
  BY <1>12 DEF Persist
<1>13. CASE Reproduced
  BY <1>13 DEF Reproduced, Transition
<1>14. CASE BaselineNotReproduced \/ CloseBaseline
  BY <1>14 DEF BaselineNotReproduced, CloseBaseline, Transition
<1>15. CASE ConfirmLock
  BY <1>15 DEF ConfirmLock
<1>16. CASE Refuse \/ Catch \/ Raise
  BY <1>16 DEF Refuse, Catch, Raise, Guarded, Working
<1>17. CASE Reject \/ MoveToError
  BY <1>17 DEF Reject, MoveToError, Transition
<1>18. CASE HandleFailure \/ HandlerGivesUp
  BY <1>18 DEF HandleFailure, HandlerGivesUp, Asked
<1>19. CASE HandlerFails \/ Sweep
  BY <1>19 DEF HandlerFails, Sweep
<1>20. CASE Killed \/ UNCHANGED vars
  BY <1>20 DEF Killed, vars
<1>21. CASE Alter
  BY <1>21 DEF Alter
<1>22. CASE Commanding
  BY <1>22, CommandEffect
<1>. QED
  BY <1>1, <1>2, <1>3, <1>4, <1>5, <1>6, <1>7, <1>8, <1>9, <1>10, <1>11, <1>12, <1>13, <1>14,
     <1>15, <1>16, <1>17, <1>18, <1>19, <1>20, <1>21, <1>22
  DEF Next, Preparing, Submitting, Judging, Failing

\* The files: each place adds its own.
LEMMA FilesStep ==
  ASSUME TypeOK, FilesInv, [Next]_vars
  PROVE  FilesInv'
<1>. USE DEF FilesInv, Step, Beginning, Exploring, Checking, Ending,
   evidence, disk, output, work, other
<1>1. CASE PrepareRun \/ PrepareBaseline \/ Investigate
  BY <1>1 DEF PrepareRun, PrepareBaseline, Investigate, Transition
<1>2. CASE RecordPlan \/ RecordStart
  BY <1>2 DEF RecordPlan, RecordStart, AppendEvent
<1>3. CASE \/ CheckClone("clone", "making", {"BASELINE_PREPARING", "INVESTIGATING"})
           \/ CheckClone("verifying", "cloning", {"BASELINE_PREPARING", "BASELINE_VERIFYING"})
           \/ MakeClone("making", "investigate", "investigation")
           \/ MakeClone("cloning", "copy", "baseline")
  BY <1>3 DEF CheckClone, MakeClone
<1>4. CASE ProbeVersion \/ Investigating
  BY <1>4 DEF ProbeVersion, Investigating, StartAgent, AgentWrites, AgentExits, AgentFails
<1>5. CASE NotReproduced
  BY <1>5 DEF NotReproduced, Transition
<1>6. CASE Capture
  BY <1>6 DEF Capture
<1>7. CASE RecordContract
  BY <1>7 DEF RecordContract
<1>8. CASE RecordEnvironment
  BY <1>8 DEF RecordEnvironment, AppendEvent
<1>9. CASE Recheck \/ VerifyBaseline
  BY <1>9 DEF Recheck, VerifyBaseline, Transition
<1>10. CASE CopyAssets \/ StartOracle
  BY <1>10 DEF CopyAssets, StartOracle
<1>11. CASE EndOracle
  BY <1>11 DEF EndOracle
<1>12. CASE Persist
  BY <1>12 DEF Persist, TypeOK, File, Event
<1>13. CASE Reproduced
  BY <1>13 DEF Reproduced, Transition
<1>14. CASE BaselineNotReproduced \/ CloseBaseline
  BY <1>14 DEF BaselineNotReproduced, CloseBaseline, Transition
<1>15. CASE ConfirmLock
  BY <1>15 DEF ConfirmLock
<1>16. CASE Refuse \/ Catch \/ Raise
  BY <1>16 DEF Refuse, Catch, Raise, Guarded, Working
<1>17. CASE Reject \/ MoveToError
  BY <1>17 DEF Reject, MoveToError, Transition
<1>18. CASE HandleFailure \/ HandlerGivesUp
  BY <1>18 DEF HandleFailure, HandlerGivesUp, Asked
<1>19. CASE HandlerFails \/ Sweep
  BY <1>19 DEF HandlerFails, Sweep
<1>20. CASE Killed \/ UNCHANGED vars
  BY <1>20 DEF Killed, vars
<1>21. CASE Alter
  BY <1>21 DEF Alter
<1>22. CASE Commanding
  BY <1>22, CommandEffect
<1>. QED
  BY <1>1, <1>2, <1>3, <1>4, <1>5, <1>6, <1>7, <1>8, <1>9, <1>10, <1>11, <1>12, <1>13, <1>14,
     <1>15, <1>16, <1>17, <1>18, <1>19, <1>20, <1>21, <1>22
  DEF Next, Preparing, Submitting, Judging, Failing

\* The checkpoint: it is complete when it is made, and stays so.
LEMMA CheckpointStep ==
  ASSUME TypeOK, StateInv, ContractInv, FilesInv, CheckpointComplete, [Next]_vars
  PROVE  CheckpointComplete'
<1>. USE DEF CheckpointComplete, StateInv, Step, Beginning, Exploring, Checking, Ending,
   evidence, disk, output, work, other
<1>1. CASE PrepareRun \/ PrepareBaseline \/ Investigate
  BY <1>1 DEF PrepareRun, PrepareBaseline, Investigate, Transition, MoveTo, TypeOK
<1>2. CASE RecordPlan \/ RecordStart
  BY <1>2 DEF RecordPlan, RecordStart, AppendEvent, TypeOK
<1>3. CASE \/ CheckClone("clone", "making", {"BASELINE_PREPARING", "INVESTIGATING"})
           \/ CheckClone("verifying", "cloning", {"BASELINE_PREPARING", "BASELINE_VERIFYING"})
           \/ MakeClone("making", "investigate", "investigation")
           \/ MakeClone("cloning", "copy", "baseline")
  BY <1>3 DEF CheckClone, MakeClone
<1>4. CASE ProbeVersion \/ Investigating
  BY <1>4 DEF ProbeVersion, Investigating, StartAgent, AgentWrites, AgentExits, AgentFails
<1>5. CASE NotReproduced
  BY <1>5 DEF NotReproduced, Transition, MoveTo
<1>6. CASE Capture
  BY <1>6 DEF Capture
<1>7. CASE RecordContract
  BY <1>7 DEF RecordContract, MoveTo
<1>8. CASE RecordEnvironment
  BY <1>8 DEF RecordEnvironment, AppendEvent, TypeOK
<1>9. CASE Recheck \/ VerifyBaseline
  BY <1>9 DEF Recheck, VerifyBaseline, Transition, MoveTo
<1>10. CASE CopyAssets \/ StartOracle
  BY <1>10 DEF CopyAssets, StartOracle
<1>11. CASE EndOracle
  BY <1>11 DEF EndOracle
<1>12. CASE Persist
  BY <1>12 DEF Persist, TypeOK
<1>13. CASE Reproduced
  BY <1>13 DEF Reproduced, Transition, FilesInv, ContractInv, MoveTo
<1>14. CASE BaselineNotReproduced \/ CloseBaseline
  BY <1>14 DEF BaselineNotReproduced, CloseBaseline, Transition, MoveTo
<1>15. CASE ConfirmLock
  BY <1>15 DEF ConfirmLock
<1>16. CASE Refuse \/ Catch \/ Raise
  BY <1>16 DEF Refuse, Catch, Raise
<1>17. CASE Reject \/ MoveToError
  BY <1>17 DEF Reject, MoveToError, Transition, MoveTo
<1>18. CASE HandleFailure \/ HandlerGivesUp
  BY <1>18 DEF HandleFailure, HandlerGivesUp, Asked
<1>19. CASE HandlerFails \/ Sweep
  BY <1>19 DEF HandlerFails, Sweep
<1>20. CASE Killed \/ UNCHANGED vars
  BY <1>20 DEF Killed, vars
<1>21. CASE Alter
  BY <1>21 DEF Alter
<1>22. CASE Commanding
  BY <1>22, CommandEffect
<1>. QED
  BY <1>1, <1>2, <1>3, <1>4, <1>5, <1>6, <1>7, <1>8, <1>9, <1>10, <1>11, <1>12, <1>13, <1>14,
     <1>15, <1>16, <1>17, <1>18, <1>19, <1>20, <1>21, <1>22
  DEF Next, Preparing, Submitting, Judging, Failing

\* The container: the call ends without one.
LEMMA ContainerStep ==
  ASSUME TypeOK, ContainerInv, [Next]_vars
  PROVE  ContainerInv'
<1>. USE DEF ContainerInv, Step, Beginning, Exploring, Checking, Ending,
   evidence, disk, output, work, other
<1>1. CASE PrepareRun \/ PrepareBaseline \/ Investigate
  BY <1>1 DEF PrepareRun, PrepareBaseline, Investigate, Transition
<1>2. CASE RecordPlan \/ RecordStart
  BY <1>2 DEF RecordPlan, RecordStart, AppendEvent
<1>3. CASE \/ CheckClone("clone", "making", {"BASELINE_PREPARING", "INVESTIGATING"})
           \/ CheckClone("verifying", "cloning", {"BASELINE_PREPARING", "BASELINE_VERIFYING"})
           \/ MakeClone("making", "investigate", "investigation")
           \/ MakeClone("cloning", "copy", "baseline")
  BY <1>3 DEF CheckClone, MakeClone
<1>4. CASE ProbeVersion \/ Investigating
  BY <1>4 DEF ProbeVersion, Investigating, StartAgent, AgentWrites, AgentExits, AgentFails
<1>5. CASE NotReproduced
  BY <1>5 DEF NotReproduced, Transition
<1>6. CASE Capture
  BY <1>6 DEF Capture
<1>7. CASE RecordContract
  BY <1>7 DEF RecordContract
<1>8. CASE RecordEnvironment
  BY <1>8 DEF RecordEnvironment, AppendEvent
<1>9. CASE Recheck \/ VerifyBaseline
  BY <1>9 DEF Recheck, VerifyBaseline, Transition
<1>10. CASE CopyAssets \/ StartOracle
  BY <1>10 DEF CopyAssets, StartOracle
<1>11. CASE EndOracle
  BY <1>11 DEF EndOracle
<1>12. CASE Persist
  BY <1>12 DEF Persist
<1>13. CASE Reproduced
  BY <1>13 DEF Reproduced, Transition
<1>14. CASE BaselineNotReproduced \/ CloseBaseline
  BY <1>14 DEF BaselineNotReproduced, CloseBaseline, Transition
<1>15. CASE ConfirmLock
  BY <1>15 DEF ConfirmLock
<1>16. CASE Refuse \/ Catch \/ Raise
  BY <1>16 DEF Refuse, Catch, Raise, Guarded, Working
<1>17. CASE Reject \/ MoveToError
  BY <1>17 DEF Reject, MoveToError, Transition
<1>18. CASE HandleFailure \/ HandlerGivesUp
  BY <1>18 DEF HandleFailure, HandlerGivesUp, Asked
<1>19. CASE HandlerFails \/ Sweep
  BY <1>19 DEF HandlerFails, Sweep
<1>20. CASE Killed \/ UNCHANGED vars
  BY <1>20 DEF Killed, vars
<1>21. CASE Alter
  BY <1>21 DEF Alter
<1>22. CASE Commanding
  BY <1>22, CommandEffect
<1>. QED
  BY <1>1, <1>2, <1>3, <1>4, <1>5, <1>6, <1>7, <1>8, <1>9, <1>10, <1>11, <1>12, <1>13, <1>14,
     <1>15, <1>16, <1>17, <1>18, <1>19, <1>20, <1>21, <1>22
  DEF Next, Preparing, Submitting, Judging, Failing

\* The error: a hard one has ended the run when the handler has.
LEMMA ErrorStep ==
  ASSUME TypeOK, ErrorInv, [Next]_vars
  PROVE  ErrorInv'
<1>. USE DEF ErrorInv, Ended, Completed, Working, Guarded, Step, evidence, disk, output, work, other
<1>1. CASE PrepareRun \/ PrepareBaseline \/ Investigate
  BY <1>1 DEF PrepareRun, PrepareBaseline, Investigate, Transition
<1>2. CASE RecordPlan \/ RecordStart
  BY <1>2 DEF RecordPlan, RecordStart, AppendEvent
<1>3. CASE \/ CheckClone("clone", "making", {"BASELINE_PREPARING", "INVESTIGATING"})
           \/ CheckClone("verifying", "cloning", {"BASELINE_PREPARING", "BASELINE_VERIFYING"})
           \/ MakeClone("making", "investigate", "investigation")
           \/ MakeClone("cloning", "copy", "baseline")
  BY <1>3 DEF CheckClone, MakeClone
<1>4. CASE ProbeVersion \/ Investigating
  BY <1>4 DEF ProbeVersion, Investigating, StartAgent, AgentWrites, AgentExits, AgentFails
<1>5. CASE NotReproduced
  BY <1>5 DEF NotReproduced, Transition
<1>6. CASE Capture
  BY <1>6 DEF Capture
<1>7. CASE RecordContract
  BY <1>7 DEF RecordContract
<1>8. CASE RecordEnvironment
  BY <1>8 DEF RecordEnvironment, AppendEvent
<1>9. CASE Recheck \/ VerifyBaseline
  BY <1>9 DEF Recheck, VerifyBaseline, Transition
<1>10. CASE CopyAssets \/ StartOracle
  BY <1>10 DEF CopyAssets, StartOracle
<1>11. CASE EndOracle
  BY <1>11 DEF EndOracle
<1>12. CASE Persist
  BY <1>12 DEF Persist
<1>13. CASE Reproduced
  BY <1>13 DEF Reproduced, Transition
<1>14. CASE BaselineNotReproduced \/ CloseBaseline
  BY <1>14 DEF BaselineNotReproduced, CloseBaseline, Transition
<1>15. CASE ConfirmLock
  BY <1>15 DEF ConfirmLock
<1>16. CASE Refuse \/ Catch \/ Raise
  BY <1>16 DEF Refuse, Catch, Raise
<1>17. CASE Reject \/ MoveToError
  BY <1>17 DEF Reject, MoveToError, Transition, MoveTo
<1>18. CASE HandleFailure \/ HandlerGivesUp
  BY <1>18, Stops DEF HandleFailure, HandlerGivesUp, Asked, TypeOK
<1>19. CASE HandlerFails \/ Sweep
  BY <1>19 DEF HandlerFails, Sweep
<1>20. CASE Killed \/ UNCHANGED vars
  BY <1>20 DEF Killed, vars
<1>21. CASE Alter
  BY <1>21 DEF Alter
<1>22. CASE Commanding
  BY <1>22, CommandEffect
<1>. QED
  BY <1>1, <1>2, <1>3, <1>4, <1>5, <1>6, <1>7, <1>8, <1>9, <1>10, <1>11, <1>12, <1>13, <1>14,
     <1>15, <1>16, <1>17, <1>18, <1>19, <1>20, <1>21, <1>22
  DEF Next, Preparing, Submitting, Judging, Failing

\* The invariant holds at first, and every step keeps it.
LEMMA InvInit == Init => IInv
<1>. SUFFICES ASSUME Init PROVE IInv
  OBVIOUS
<1>1. TypeOK
  BY TypeInit
<1>2. StateInv /\ CheckpointComplete
  BY DEF Init, StateInv, CheckpointComplete, RunState, Checking
<1>3. ContractInv /\ FilesInv
  BY DEF Init, ContractInv, FilesInv, BeforeJudgment, BeforeContract, Beginning, Exploring, Checking
<1>4. ContainerInv /\ ErrorInv
  BY DEF Init, ContainerInv, ErrorInv
<1>. QED
  BY <1>1, <1>2, <1>3, <1>4 DEF IInv

LEMMA InvStep == IInv /\ [Next]_vars => IInv'
BY TypeStep, StateStep, ContractStep, FilesStep, CheckpointStep, ContainerStep, ErrorStep DEF IInv

\* It holds in every reachable state.
LEMMA Invariance == Spec => []IInv
BY InvInit, InvStep, PTL DEF Spec
-----------------------------------------------------------------------------
(* What follows.                                                           *)

\* A baseline that is reproduced has everything that resume asks for.
THEOREM CheckpointIsComplete == Spec => []CheckpointComplete
<1>1. IInv => CheckpointComplete
  BY DEF IInv
<1>. QED
  BY <1>1, Invariance, PTL

\* No container outlives its call, unless the controller was killed or docker failed.
THEOREM ContainersEnd == Spec => []ContainersEndWithCall
<1>1. IInv => ContainersEndWithCall
  BY DEF IInv, ContainerInv, ContainersEndWithCall
<1>. QED
  BY <1>1, Invariance, PTL

\* An unexpected error ends the run, wherever it hits, once its handler is through.
THEOREM ErrorsEndRuns == Spec => []UnexpectedErrorsEnd
<1>1. IInv => UnexpectedErrorsEnd
  BY DEF IInv, ErrorInv, UnexpectedErrorsEnd
<1>. QED
  BY <1>1, Invariance, PTL
-----------------------------------------------------------------------------
(* The gate.                                                               *)

\* A step that changes neither contract nor judgment, and the phase at most to its
\* end, is none of the gate's or closes it.
LEMMA PhaseStep ==
  ASSUME UNCHANGED <<bound, judged>>, Phase' = Phase \/ Phase' = "closed"
  PROVE  [Gate!Next]_(Gate!vars)
<1>1. Verdict' = Verdict
  BY DEF Verdict
<1>. QED
  BY <1>1 DEF Gate!Next, Gate!Close, Gate!vars

\* The contract that was validated is the one that is submitted.
LEMMA RecordContractSubmits ==
  ASSUME IInv, RecordContract
  PROVE  Gate!Next
<1>1. /\ at = "submit" /\ bound = NoContract /\ judged = NoJudgment /\ held \in Contract
      /\ bound' = held /\ judged' = judged
  BY DEF RecordContract, Step, work, IInv, ContractInv, BeforeJudgment
<1>2. Verdict = "none" /\ Verdict' = "none"
  BY <1>1 DEF Verdict, NoJudgment
<1>3. state = "INVESTIGATING" /\ state' = "CONTRACT_SUBMITTED"
  BY DEF RecordContract, MoveTo, CanTransition, ValidTransitions, Progress, Interruptible
<1>4. Phase = "open" /\ Phase' = "submitted"
  BY <1>3 DEF Phase
<1>. QED
  BY <1>1, <1>2, <1>4 DEF Gate!Next, Gate!Submit

\* The oracle judges that contract, with its own assets, and does so once.
LEMMA EndOracleJudges ==
  ASSUME IInv, EndOracle
  PROVE  Gate!Next
<1>1. /\ at = "judging" /\ UNCHANGED <<state, bound>>
      /\ judged'.contract = held /\ judged'.assets = mounted
      /\ judged'.result \in {"passed", "failed"}
  BY DEF EndOracle, Step, evidence
<1>2. /\ bound = held /\ mounted = held /\ held \in Contract /\ judged = NoJudgment
      /\ state \in {"CONTRACT_SUBMITTED", "BASELINE_VERIFYING"} \union Stopped
  BY <1>1 DEF IInv, ContractInv, StateInv, BeforeJudgment, Checking
<1>3. Verdict = "none" /\ Verdict' \in {"passed", "failed"}
  BY <1>1, <1>2 DEF Verdict, NoJudgment
<1>4. Phase \in {"submitted", "closed"} /\ Phase' = Phase
  BY <1>1, <1>2 DEF Phase, Stopped
<1>. QED
  BY <1>1, <1>2, <1>3, <1>4 DEF Gate!Next, Gate!Judge

\* The baseline is reproduced by that judgment.
LEMMA ReproducedReproduces ==
  ASSUME IInv, Reproduced
  PROVE  Gate!Next
<1>1. at = "decide" /\ judged.result = "passed" /\ UNCHANGED <<bound, judged>>
  BY DEF Reproduced, Step, Transition, work
<1>2. Verdict = "passed" /\ Verdict' = Verdict
  BY <1>1 DEF Verdict, IInv, ContractInv
<1>3. state = "BASELINE_VERIFYING" /\ state' = "BASELINE_REPRODUCED"
  BY DEF Reproduced, Transition, MoveTo, CanTransition, ValidTransitions, Progress, Interruptible
<1>4. Phase = "submitted" /\ Phase' = "reproduced"
  BY <1>3 DEF Phase
<1>. QED
  BY <1>1, <1>2, <1>4 DEF Gate!Next, Gate!Reproduce

\* The other transitions stay in a phase, or close the gate.
LEMMA OtherTransitions ==
  ASSUME NEW target \in {"PREFLIGHT", "BASELINE_PREPARING", "INVESTIGATING", "BASELINE_VERIFYING",
                         "BASELINE_NOT_REPRODUCED", "REJECTED", "ERROR"},
         target = "BASELINE_VERIFYING" => state # "BASELINE_PREPARING",
         Transition(target)
  PROVE  Phase' = Phase \/ Phase' = "closed"
BY DEF Transition, MoveTo, CanTransition, ValidTransitions, Progress, Interruptible, Phase

\* Every step is one of the gate's, or none.
LEMMA GateStep == IInv /\ [Next]_vars => [Gate!Next]_(Gate!vars)
<1>. SUFFICES ASSUME IInv, [Next]_vars
     PROVE  [Gate!Next]_(Gate!vars)
  OBVIOUS
<1>. USE DEF Step, evidence, disk, output, work, other
<1>1. CASE RecordContract \/ EndOracle \/ Reproduced
  BY <1>1, RecordContractSubmits, EndOracleJudges, ReproducedReproduces
<1>2. CASE PrepareRun \/ PrepareBaseline \/ Investigate
  BY <1>2, OtherTransitions, PhaseStep DEF PrepareRun, PrepareBaseline, Investigate, Transition
<1>3. CASE VerifyBaseline
  <2>1. state # "BASELINE_PREPARING"
    BY <1>3 DEF VerifyBaseline, IInv, StateInv, Checking, Stopped
  <2>. QED
    BY <1>3, <2>1, OtherTransitions, PhaseStep DEF VerifyBaseline, Transition
<1>4. CASE NotReproduced \/ BaselineNotReproduced \/ CloseBaseline
  BY <1>4, OtherTransitions, PhaseStep
  DEF NotReproduced, BaselineNotReproduced, CloseBaseline, Transition
<1>5. CASE Reject \/ MoveToError
  BY <1>5, OtherTransitions, PhaseStep DEF Reject, MoveToError, Transition
<1>6. CASE \/ RecordPlan \/ RecordStart \/ RecordEnvironment
           \/ CheckClone("clone", "making", {"BASELINE_PREPARING", "INVESTIGATING"})
           \/ CheckClone("verifying", "cloning", {"BASELINE_PREPARING", "BASELINE_VERIFYING"})
           \/ MakeClone("making", "investigate", "investigation")
           \/ MakeClone("cloning", "copy", "baseline")
  <2>1. UNCHANGED <<state, bound, judged>>
    BY <1>6 DEF RecordPlan, RecordStart, RecordEnvironment, AppendEvent, CheckClone, MakeClone
  <2>. QED
    BY <2>1, PhaseStep DEF Phase
<1>7. CASE ProbeVersion \/ Investigating \/ Capture \/ Recheck \/ CopyAssets \/ StartOracle
           \/ Persist \/ ConfirmLock
  <2>1. UNCHANGED <<state, bound, judged>>
    BY <1>7 DEF ProbeVersion, Investigating, StartAgent, AgentWrites, AgentExits, AgentFails,
       Capture, Recheck, CopyAssets, StartOracle, Persist, ConfirmLock
  <2>. QED
    BY <2>1, PhaseStep DEF Phase
<1>8. CASE Refuse \/ Catch \/ Raise \/ HandleFailure \/ HandlerGivesUp \/ HandlerFails \/ Sweep
  <2>1. UNCHANGED <<state, bound, judged>>
    BY <1>8 DEF Refuse, Catch, Raise, HandleFailure, HandlerGivesUp, HandlerFails, Sweep
  <2>. QED
    BY <2>1, PhaseStep DEF Phase
<1>9. CASE Killed \/ Alter \/ UNCHANGED vars
  <2>1. UNCHANGED <<state, bound, judged>>
    BY <1>9 DEF Killed, Alter, vars
  <2>. QED
    BY <2>1, PhaseStep DEF Phase
<1>10. CASE Commanding
  <2>1. UNCHANGED <<bound, judged>> /\ (state' = state \/ state' \in {"ABORTED", "CLEANED"})
    BY <1>10, CommandEffect DEF IInv
  <2>2. Phase' = Phase \/ Phase' = "closed"
    BY <2>1 DEF Phase
  <2>. QED
    BY <2>1, <2>2, PhaseStep
<1>. QED
  BY <1>1, <1>2, <1>3, <1>4, <1>5, <1>6, <1>7, <1>8, <1>9, <1>10
  DEF Next, Preparing, Submitting, Judging, Failing

\* Only the controller's own run of the contract that evidence binds reproduces a
\* baseline.
THEOREM GateImplemented == Spec => ImplementsGate
<1>1. Init => Gate!Init
  <2>. SUFFICES ASSUME Init PROVE Gate!Init
    OBVIOUS
  <2>1. Verdict = "none" /\ Phase = "open"
    BY DEF Init, Verdict, Phase, NoJudgment
  <2>. QED
    BY <2>1 DEF Init, Gate!Init
<1>. QED
  BY <1>1, GateStep, Invariance, PTL DEF Spec, ImplementsGate, Gate!Spec
=============================================================================
