--------------------- MODULE NativeVerification_proofs ---------------------
(***************************************************************************)
(* The properties of NativeVerification for any patches and any number of  *)
(* regression oracles.                                                     *)
(***************************************************************************)
EXTENDS NativeVerification, TLAPS

USE NativeAssumption DEF NativeAssumption

(* The parts of the call. *)
Opening == {"prepare", "contract", "preparing", "clone", "making", "verifying"}
Testing == {"oracle", "running", "evaluated"}
Choosing == {"patch", "patch clone", "patch making", "patching", "hash", "apply", "compare",
             "check capture", "capture"}
Closing == {"final", "check final", "fresh", "check contract"}
Decided == {"finish", "sign", "returned"}

OnBaseline == at \in Opening \/ (at \in Testing /\ oracle = Baseline)
OnFinal == at \in Closing \union {"judge"} \/ (at \in Testing /\ oracle # Baseline)

(* No run is in a state of the container workflow; it is decided at the end of the   *)
(* call, and what was decided can only be cleaned up.                                *)
StateInv ==
  /\ state \notin {"INVESTIGATING", "CONTRACT_SUBMITTED", "APPLIED"}
  /\ state \in {"VERIFIED", "REJECTED"} => at \in Decided \union {"raised"}
  /\ at \in Decided => state \in {"VERIFIED", "REJECTED", "CLEANED"}

(* What is bound, and what is in the workspace, in each part.                        *)
PlaceInv ==
  /\ OnBaseline => oracle = Baseline /\ bound = NoPatch
  /\ at \in Choosing \union {"reproduced"} => oracle = Fixed /\ bound = NoPatch
  /\ at \in Choosing => results[Baseline] = "passed"
  /\ at \in Closing => oracle = Fixed
  /\ OnFinal => bound \in Patch /\ results[Baseline] = "passed"
  /\ at \in Opening => source = NoPatch
  /\ at = "check contract" => source = bound
  /\ at \in {"oracle", "running"} => source = Meant(oracle)
  /\ at = "evaluated" => source = ran[oracle].left

(* The oracles are executed in order, each on what it is meant for.                  *)
ResultInv ==
  /\ at \in Opening \union Choosing \union Closing \union {"oracle", "running", "reproduced"} =>
       \A o \in Oracle : results[o] = "none" <=> o >= oracle
  /\ at = "evaluated" => \A o \in Oracle : results[o] = "none" <=> o > oracle
  /\ at = "judge" => \A o \in Oracle : results[o] # "none"
  /\ at \notin {"evaluated", "raised"} => recorded = results
  /\ at = "evaluated" => \A o \in Oracle : o # oracle => recorded[o] = results[o]
  /\ \A o \in Oracle : results[o] # "none" => ran[o].found = Meant(o)

(* What is captured is the candidate that was hashed: at "compare" it may have been  *)
(* changed before it was applied, or after that, but not both.                       *)
CandidateInv ==
  /\ record = bound
  /\ ~altered => diff = record
  /\ bound # NoPatch => bound = hash
  /\ at = "apply" /\ ~altered => candidate = hash
  /\ at = "compare" => /\ source \in Patch
                       /\ candidate = hash => source = hash
                       /\ ~altered => candidate = hash
  /\ at \in {"check capture", "capture"} => source \in Patch /\ source = hash

(* What the two decisions rest on.                                                   *)
Backed == code = "none" /\ bound \in Patch /\ \A o \in Oracle : results[o] = "passed"

Refuted ==
  IF code = "PP_PATCH_APPLY_FAILED" THEN bound = NoPatch
  ELSE \E o \in Oracle : /\ results[o] = "failed" /\ ran[o].found = Meant(o)
                        /\ o = Baseline <=> bound = NoPatch

DecisionInv ==
  /\ at \notin Decided \union {"reject", "raised"} => code = "none"
  /\ at = "reject" => Refuted
  /\ at \in Decided /\ state = "VERIFIED" => Backed
  /\ at \in Decided /\ state = "REJECTED" => Refuted

(* The receipt says what was decided.                                                *)
ReceiptInv ==
  /\ signed # "none" => at = "returned"
  /\ ~altered /\ at \notin {"prepare", "contract", "raised"} => contract = "kept"
  /\ at \in {"sign", "returned"} =>
       /\ receipt.status \in {"verified", "rejected"}
       /\ receipt.patch \in {NoPatch, record}
       /\ receipt.oracles = results
       /\ receipt.status = "verified" => Backed /\ receipt.patch = record
       /\ state # "CLEANED" =>
            receipt.status = IF state = "VERIFIED" THEN "verified" ELSE "rejected"

IInv ==
  /\ TypeOK /\ StateInv /\ PlaceInv /\ ResultInv /\ CandidateInv /\ DecisionInv /\ ReceiptInv
-----------------------------------------------------------------------------
(* Types.                                                                  *)

\* The stages of the oracles are in order, and the baseline is the first.
LEMMA OracleOrder ==
  /\ Baseline \in Oracle /\ Fixed \in Oracle /\ Fixed \in Required /\ Baseline \notin Required
  /\ \A o \in Oracle : o \in Int /\ Baseline <= o /\ o <= Regressions
  /\ \A o \in Oracle : o < Regressions => o + 1 \in Oracle
BY DEF Oracle, Baseline, Fixed, Required

\* What comes after an oracle, and that nothing comes after the last.
LEMMA OracleNext ==
  ASSUME NEW o \in Oracle, NEW n \in Oracle
  PROVE  /\ o > n <=> o >= n + 1
         /\ ~ (n < Regressions) => ~ (o > n)
BY OracleOrder

\* What comes before an oracle: none before the reproduction of the fix.
LEMMA OraclePrevious ==
  ASSUME NEW o \in Oracle, NEW n \in Oracle
  PROVE  /\ ~ (o > n) /\ o # Baseline /\ o # Fixed => o - 1 \in Oracle \ {n}
         /\ n # Baseline => n + 1 # Baseline /\ n + 1 # Fixed /\ (n + 1) - 1 = n
BY DEF Oracle, Baseline, Fixed, Required

\* The transitions that are asked for here lead to states of a run.
LEMMA TargetsAreStates ==
  ASSUME NEW current, NEW target, CanTransition(current, target)
  PROVE  current \in RunState /\ target \in RunState
BY DEF CanTransition, ValidTransitions, Progress, Interruptible, RunState

\* An interruption is one of a run that is not decided.
LEMMA OnlyUndecidedStop ==
  ASSUME NEW current, CanTransition(current, "ABORTED") \/ CanTransition(current, "ERROR")
  PROVE  current \notin {"VERIFIED", "REJECTED", "CLEANED"}
BY DEF CanTransition, ValidTransitions, Progress, Interruptible, RunState

\* What a patch is rejected for is no failure to apply it.
LEMMA RejectionCodesTyped ==
  \A c \in RejectionCodes : c \in Code /\ c # "PP_PATCH_APPLY_FAILED"
BY DEF RejectionCodes, Code

\* The types hold at first.
LEMMA TypeInit == Init => TypeOK
<1>. SUFFICES ASSUME Init PROVE TypeOK
  OBVIOUS
<1>1. NothingYet \in [Oracle -> Result]
  BY DEF NothingYet, Result
<1>2. NoReceipt \in [status : {"none", "verified", "rejected"}, patch : MaybePatch,
                     code : Code, oracles : [Oracle -> Result]]
  BY <1>1 DEF NoReceipt, MaybePatch, Code
<1>3. ran \in [Oracle -> [found : MaybePatch, left : MaybePatch]]
  BY DEF Init, MaybePatch
<1>. QED
  BY <1>1, <1>2, <1>3, OracleOrder
  DEF Init, TypeOK, MaybePatch, RunState, Place, Code, NoState

\* What the commands of the other process change, and what they leave alone.
LEMMA CommandEffect ==
  ASSUME TypeOK, Commanding
  PROVE  /\ UNCHANGED <<bound, recorded, signed, contract, diff, record, receipt, candidate,
                        altered, at, work, ran>>
         /\ \/ state' = state
            \/ /\ state \notin {"VERIFIED", "REJECTED", "CLEANED"}
               /\ state' \in {"ABORTED", "ERROR"}
            \/ state' = "CLEANED"
         /\ trees' \subseteq {"baseline", "patch", "final"}
         /\ tip' \in BOOLEAN
         /\ command' \in {"idle", "abort", "aborting", "erring", "sweep", "cleaning"}
         /\ read' \in RunState \union {NoState}
<1>. USE DEF TypeOK, Command, evidence, disk, work
<1>1. CASE BeginAbort \/ RequestAbort \/ Sweep \/ BeginClean \/ LeaveCommand
  BY <1>1 DEF BeginAbort, RequestAbort, Sweep, BeginClean, LeaveCommand
<1>2. CASE ConfirmAbort \/ MoveToError
  BY <1>2, OnlyUndecidedStop DEF ConfirmAbort, MoveToError, Transition, MoveTo
<1>3. CASE Resume
  BY <1>3 DEF Resume
<1>4. CASE EndClean
  BY <1>4 DEF EndClean, MoveTo
<1>. QED
  BY <1>1, <1>2, <1>3, <1>4 DEF Commanding

\* Every step keeps the types.
LEMMA TypeStep ==
  ASSUME TypeOK, [Next]_vars
  PROVE  TypeOK'
<1>. USE DEF TypeOK, Step, evidence, disk, work, other
<1>1. ASSUME NEW target, Transition(target)
      PROVE  state' \in RunState /\ tip' \in BOOLEAN /\ UNCHANGED <<bound, recorded, signed>>
  BY <1>1, TargetsAreStates DEF Transition, MoveTo
<1>2. CASE PrepareRun \/ PrepareBaseline \/ VerifyBaseline \/ Reproduced \/ Reject
           \/ PreparePatch \/ StartPatching \/ StartFinal \/ Verify
  <2>1. /\ at' \in Place /\ UNCHANGED <<disk, work, ran, other>>
        /\ state' \in RunState /\ tip' \in BOOLEAN /\ UNCHANGED <<bound, recorded, signed>>
    <3>. USE <1>1 DEF Place
    <3>1. CASE PrepareRun
      BY <3>1 DEF PrepareRun
    <3>2. CASE PrepareBaseline
      BY <3>2 DEF PrepareBaseline
    <3>3. CASE VerifyBaseline
      BY <3>3 DEF VerifyBaseline
    <3>4. CASE Reproduced
      BY <3>4 DEF Reproduced
    <3>5. CASE Reject
      BY <3>5 DEF Reject
    <3>6. CASE PreparePatch
      BY <3>6 DEF PreparePatch
    <3>7. CASE StartPatching
      BY <3>7 DEF StartPatching
    <3>8. CASE StartFinal
      BY <3>8 DEF StartFinal
    <3>9. CASE Verify
      BY <3>9 DEF Verify
    <3>. QED
      BY <1>2, <3>1, <3>2, <3>3, <3>4, <3>5, <3>6, <3>7, <3>8, <3>9
  <2>. QED
    BY <2>1
<1>3. CASE NotReproduced \/ RejectPatch
  <2>1. CASE NotReproduced
    BY <1>1, <2>1 DEF NotReproduced, Place, Code
  <2>2. CASE RejectPatch
    BY <1>1, <2>2, RejectionCodesTyped DEF RejectPatch, Place
  <2>. QED
    BY <1>3, <2>1, <2>2
<1>4. CASE RecordContract \/ StartOracle
  BY <1>4 DEF RecordContract, StartOracle, AppendEvent, Place
<1>5. CASE \/ CheckClone("clone", "making", {"BASELINE_PREPARING", "BASELINE_VERIFYING"})
           \/ CheckClone("patch clone", "patch making", {"PATCH_PREPARING", "PATCHING"})
           \/ CompareCandidate \/ CheckCapture \/ CheckFinal \/ CheckContract
  <2>1. at' \in Place /\ UNCHANGED <<evidence, disk, work, tip, ran, other>>
    BY <1>5 DEF CheckClone, CompareCandidate, CheckCapture, CheckFinal, CheckContract, Place
  <2>. QED
    BY <2>1
<1>6. CASE \/ MakeClone("making", "verifying", "baseline")
           \/ MakeClone("patch making", "patching", "patch")
  <2>1. /\ at' \in Place /\ source' \in MaybePatch
        /\ trees' \subseteq {"baseline", "patch", "final"}
    BY <1>6 DEF MakeClone, Place, MaybePatch
  <2>. QED
    BY <1>6, <2>1 DEF MakeClone
<1>7. CASE EndOracle
  <2>1. results' \in [Oracle -> Result]
    BY <1>7 DEF EndOracle, Result
  <2>2. ran' \in [Oracle -> [found : MaybePatch, left : MaybePatch]] /\ source' \in MaybePatch
    BY <1>7 DEF EndOracle
  <2>. QED
    BY <1>7, <2>1, <2>2 DEF EndOracle, Place
<1>8. CASE RecordResult
  <2>1. recorded' \in [Oracle -> Result] /\ oracle' \in Oracle
    BY <1>8, OracleOrder DEF RecordResult
  <2>. QED
    BY <1>8, <2>1 DEF RecordResult, Place
<1>9. CASE HashCandidate \/ ApplyCandidate \/ RefuseCandidate
  <2>1. /\ at' \in Place /\ hash' \in MaybePatch /\ source' \in MaybePatch /\ code' \in Code
    BY <1>9 DEF HashCandidate, ApplyCandidate, RefuseCandidate, Place, Code, MaybePatch
  <2>. QED
    BY <1>9, <2>1 DEF HashCandidate, ApplyCandidate, RefuseCandidate
<1>10. CASE Capture
  BY <1>10, TargetsAreStates DEF Capture, MoveTo, Place
<1>11. CASE FreshClone
  <2>1. /\ at' \in Place /\ source' \in MaybePatch
        /\ trees' \subseteq {"baseline", "patch", "final"}
    BY <1>11 DEF FreshClone, Place
  <2>. QED
    BY <1>11, <2>1 DEF FreshClone
<1>12. CASE Finish
  <2>1. \A status \in {"verified", "rejected"} :
          ReceiptOf(status) \in [status : {"none", "verified", "rejected"}, patch : MaybePatch,
                                 code : Code, oracles : [Oracle -> Result]]
    BY DEF ReceiptOf, MaybePatch
  <2>. QED
    BY <1>12, <2>1 DEF Finish, Place
<1>13. CASE SignReceipt \/ Raise
  BY <1>13 DEF SignReceipt, Raise, Place
<1>14. CASE Alter
  BY <1>14 DEF Alter, MaybePatch
<1>15. CASE Commanding
  <2>1. state' \in RunState
    BY <1>15, CommandEffect DEF RunState
  <2>. QED
    BY <1>15, <2>1, CommandEffect
<1>16. CASE UNCHANGED vars
  BY <1>16 DEF vars
<1>. QED
  BY <1>2, <1>3, <1>4, <1>5, <1>6, <1>7, <1>8, <1>9, <1>10, <1>11, <1>12, <1>13, <1>14,
     <1>15, <1>16 DEF Next, Preparing, Executing, Patching, Judging

\* All values of all variables are of their types in every reachable state.
THEOREM TypeCorrect == Spec => []TypeOK
BY TypeInit, TypeStep, PTL DEF Spec
-----------------------------------------------------------------------------
(* The invariant.                                                          *)

\* The invariant holds at first.
LEMMA InvInit == Init => IInv
<1>. SUFFICES ASSUME Init PROVE IInv
  OBVIOUS
<1>1. TypeOK
  BY TypeInit
<1>2. StateInv /\ PlaceInv /\ CandidateInv /\ DecisionInv /\ ReceiptInv
  BY OracleOrder DEF Init, StateInv, PlaceInv, CandidateInv, DecisionInv, ReceiptInv, OnBaseline,
     OnFinal, Opening, Testing, Choosing, Closing, Decided
<1>3. \A o \in Oracle : results[o] = "none" /\ o >= oracle
  BY OracleOrder DEF Init, NothingYet, Baseline
<1>4. ResultInv
  BY <1>3 DEF Init, ResultInv, Opening, Choosing, Closing
<1>. QED
  BY <1>1, <1>2, <1>4 DEF IInv

\* The state: a decision is the last step of the worker that changes it.
LEMMA StateStep ==
  ASSUME TypeOK, StateInv, [Next]_vars
  PROVE  StateInv'
<1>. USE DEF StateInv, Decided, Step, evidence
<1>1. CASE PrepareRun \/ PrepareBaseline \/ VerifyBaseline \/ Reproduced \/ NotReproduced
  BY <1>1 DEF PrepareRun, PrepareBaseline, VerifyBaseline, Reproduced, NotReproduced,
     Transition, MoveTo
<1>2. CASE PreparePatch \/ StartPatching \/ StartFinal \/ Capture
  BY <1>2 DEF PreparePatch, StartPatching, StartFinal, Capture, Transition, MoveTo
<1>3. CASE Reject \/ Verify \/ RejectPatch
  BY <1>3 DEF Reject, Verify, RejectPatch, Transition, MoveTo
<1>4. CASE RecordContract \/ Executing
  BY <1>4 DEF RecordContract, Executing, StartOracle, EndOracle, RecordResult, AppendEvent
<1>5. CASE \/ CheckClone("clone", "making", {"BASELINE_PREPARING", "BASELINE_VERIFYING"})
           \/ MakeClone("making", "verifying", "baseline")
           \/ CheckClone("patch clone", "patch making", {"PATCH_PREPARING", "PATCHING"})
           \/ MakeClone("patch making", "patching", "patch")
  BY <1>5 DEF CheckClone, MakeClone
<1>6. CASE HashCandidate \/ ApplyCandidate \/ CompareCandidate \/ CheckCapture \/ RefuseCandidate
  BY <1>6 DEF HashCandidate, ApplyCandidate, CompareCandidate, CheckCapture, RefuseCandidate
<1>7. CASE CheckFinal \/ FreshClone \/ CheckContract
  BY <1>7 DEF CheckFinal, FreshClone, CheckContract
<1>8. CASE Finish \/ SignReceipt
  BY <1>8 DEF Finish, SignReceipt
<1>9. CASE Raise \/ Alter \/ UNCHANGED vars
  BY <1>9 DEF Raise, Alter, vars
<1>10. CASE Commanding
  BY <1>10, CommandEffect
<1>. QED
  BY <1>1, <1>2, <1>3, <1>4, <1>5, <1>6, <1>7, <1>8, <1>9, <1>10
  DEF Next, Preparing, Patching, Judging

\* What is bound and in the workspace follows the places of the call.
LEMMA PlaceStep ==
  ASSUME TypeOK, PlaceInv, ResultInv, CandidateInv, [Next]_vars
  PROVE  PlaceInv'
<1>. USE OracleOrder
     DEF PlaceInv, OnBaseline, OnFinal, Opening, Testing, Choosing, Closing, Step, evidence, disk,
         work, Meant
<1>1. CASE PrepareRun \/ PrepareBaseline \/ VerifyBaseline
  BY <1>1 DEF PrepareRun, PrepareBaseline, VerifyBaseline, Transition
<1>2. CASE Reproduced \/ NotReproduced
  BY <1>2 DEF Reproduced, NotReproduced, Transition
<1>3. CASE PreparePatch \/ StartPatching \/ StartFinal
  BY <1>3 DEF PreparePatch, StartPatching, StartFinal, Transition
<1>4. CASE Reject \/ Verify \/ RejectPatch
  BY <1>4 DEF Reject, Verify, RejectPatch, Transition
<1>5. CASE RecordContract \/ StartOracle
  BY <1>5 DEF RecordContract, StartOracle, AppendEvent
<1>6. CASE EndOracle
  <2>1. oracle # Baseline => results'[Baseline] = results[Baseline]
    BY <1>6 DEF EndOracle, TypeOK
  <2>2. ran'[oracle].left = source'
    BY <1>6 DEF EndOracle, TypeOK
  <2>. QED
    BY <1>6, <2>1, <2>2 DEF EndOracle
<1>7. CASE RecordResult
  <2>1. CASE oracle = Baseline
    BY <1>7, <2>1 DEF RecordResult, Baseline, Fixed
  <2>2. CASE oracle # Baseline
    <3>1. at' \in {"oracle", "judge"} /\ oracle' # Baseline
      BY <1>7, <2>2 DEF RecordResult, TypeOK, Baseline
    <3>2. UNCHANGED <<source, bound, results, ran>> /\ source = ran[oracle].left
      BY <1>7 DEF RecordResult
    <3>3. at' = "oracle" => source' = Meant(oracle)'
      <4>1. at' = "oracle" => oracle' = oracle + 1
        BY <1>7, <2>2, <3>1 DEF RecordResult
      <4>2. at' = "oracle" => /\ oracle' # Baseline /\ oracle' # Fixed
                              /\ oracle' - 1 = oracle
        BY <2>2, <4>1, OraclePrevious DEF TypeOK
      <4>. QED
        BY <3>2, <4>2
    <3>4. bound \in Patch /\ results[Baseline] = "passed"
      BY <1>7, <2>2 DEF RecordResult
    <3>. QED
      BY <2>2, <3>1, <3>2, <3>3, <3>4
  <2>. QED
    BY <2>1, <2>2
<1>8. CASE \/ CheckClone("clone", "making", {"BASELINE_PREPARING", "BASELINE_VERIFYING"})
           \/ CheckClone("patch clone", "patch making", {"PATCH_PREPARING", "PATCHING"})
  BY <1>8 DEF CheckClone
<1>9. CASE \/ MakeClone("making", "verifying", "baseline")
           \/ MakeClone("patch making", "patching", "patch")
  BY <1>9 DEF MakeClone
<1>10. CASE HashCandidate \/ ApplyCandidate
  BY <1>10 DEF HashCandidate, ApplyCandidate
<1>11. CASE CompareCandidate \/ CheckCapture \/ RefuseCandidate
  BY <1>11 DEF CompareCandidate, CheckCapture, RefuseCandidate
<1>12. CASE Capture
  BY <1>12 DEF Capture, CandidateInv
<1>13. CASE CheckFinal
  BY <1>13 DEF CheckFinal
<1>14. CASE FreshClone
  BY <1>14 DEF FreshClone, CandidateInv
<1>15. CASE CheckContract
  BY <1>15 DEF CheckContract
<1>16. CASE Finish \/ SignReceipt
  BY <1>16 DEF Finish, SignReceipt
<1>17. CASE Raise \/ Alter \/ UNCHANGED vars
  BY <1>17 DEF Raise, Alter, vars
<1>18. CASE Commanding
  BY <1>18, CommandEffect
<1>. QED
  BY <1>1, <1>2, <1>3, <1>4, <1>5, <1>6, <1>7, <1>8, <1>9, <1>10, <1>11, <1>12, <1>13, <1>14,
     <1>15, <1>16, <1>17, <1>18
  DEF Next, Preparing, Executing, Patching, Judging

\* The results: which there are is told by the oracle that is next.
LEMMA ResultStep ==
  ASSUME TypeOK, PlaceInv, ResultInv, [Next]_vars
  PROVE  ResultInv'
<1>. USE DEF ResultInv, Opening, Choosing, Closing, Step, evidence, disk, work, Meant
<1>. USE OracleOrder
<1>1. CASE PrepareRun \/ PrepareBaseline \/ VerifyBaseline
  BY <1>1 DEF PrepareRun, PrepareBaseline, VerifyBaseline, Transition
<1>2. CASE Reproduced \/ NotReproduced
  BY <1>2 DEF Reproduced, NotReproduced, Transition
<1>3. CASE PreparePatch \/ StartPatching \/ StartFinal
  BY <1>3 DEF PreparePatch, StartPatching, StartFinal, Transition
<1>4. CASE Reject \/ Verify \/ RejectPatch
  BY <1>4 DEF Reject, Verify, RejectPatch, Transition
<1>5. CASE RecordContract \/ StartOracle
  BY <1>5 DEF RecordContract, StartOracle, AppendEvent
<1>6. CASE EndOracle
  <2>1. /\ at = "running" /\ at' = "evaluated" /\ UNCHANGED <<oracle, recorded, bound>>
        /\ results'[oracle] # "none" /\ ran'[oracle].found = source
        /\ \A o \in Oracle \ {oracle} : results'[o] = results[o] /\ ran'[o] = ran[o]
    BY <1>6 DEF EndOracle, TypeOK
  <2>2. \A o \in Oracle : results'[o] = "none" <=> o > oracle
    BY <2>1 DEF TypeOK
  <2>3. source = Meant(oracle)
    BY <2>1 DEF PlaceInv
  <2>4. ASSUME NEW o \in Oracle, results'[o] # "none"
        PROVE  ran'[o].found = Meant(o)'
    <3>1. ~ (o > oracle)
      BY <2>2, <2>4
    <3>2. o # Baseline /\ o # Fixed => o - 1 \in Oracle \ {oracle}
      BY <3>1, OraclePrevious DEF TypeOK
    <3>3. Meant(o)' = Meant(o)
      BY <2>1, <3>2
    <3>4. CASE o = oracle
      BY <2>1, <2>3, <3>3, <3>4
    <3>5. CASE o # oracle
      BY <2>1, <2>4, <3>3, <3>5
    <3>. QED
      BY <3>4, <3>5
  <2>. QED
    BY <2>1, <2>2, <2>4
<1>7. CASE RecordResult
  <2>1. /\ at = "evaluated" /\ UNCHANGED <<results, ran, bound>>
        /\ recorded' = [recorded EXCEPT ![oracle] = results[oracle]]
    BY <1>7 DEF RecordResult
  <2>2. recorded' = results'
    BY <2>1 DEF TypeOK
  <2>3. \A o \in Oracle : results'[o] = "none" <=> o > oracle
    BY <2>1
  <2>4. \A o \in Oracle : results'[o] # "none" => ran'[o].found = Meant(o)'
    BY <2>1
  <2>5. CASE oracle < Regressions
    <3>1. oracle' = oracle + 1 /\ at' \in {"reproduced", "oracle"}
      BY <1>7, <2>5 DEF RecordResult
    <3>2. ASSUME NEW o \in Oracle
          PROVE  results'[o] = "none" <=> o >= oracle'
      <4>1. o > oracle <=> o >= oracle'
        BY <3>1, OracleNext DEF TypeOK
      <4>. QED
        BY <2>3, <4>1
    <3>. QED
      BY <2>2, <2>4, <3>1, <3>2
  <2>6. CASE ~ (oracle < Regressions)
    <3>1. at' = "judge" /\ oracle' = oracle
      BY <1>7, <2>6 DEF RecordResult, Baseline
    <3>2. ASSUME NEW o \in Oracle
          PROVE  results'[o] # "none"
      <4>1. ~ (o > oracle)
        BY <2>6, OracleNext DEF TypeOK
      <4>. QED
        BY <2>3, <4>1
    <3>. QED
      BY <2>2, <2>4, <3>1, <3>2
  <2>. QED
    BY <2>5, <2>6
<1>8. CASE \/ CheckClone("clone", "making", {"BASELINE_PREPARING", "BASELINE_VERIFYING"})
           \/ CheckClone("patch clone", "patch making", {"PATCH_PREPARING", "PATCHING"})
  BY <1>8 DEF CheckClone
<1>9. CASE \/ MakeClone("making", "verifying", "baseline")
           \/ MakeClone("patch making", "patching", "patch")
  BY <1>9 DEF MakeClone
<1>10. CASE HashCandidate \/ ApplyCandidate
  BY <1>10 DEF HashCandidate, ApplyCandidate
<1>11. CASE CompareCandidate \/ CheckCapture \/ RefuseCandidate
  BY <1>11 DEF CompareCandidate, CheckCapture, RefuseCandidate
<1>12. CASE Capture
  <2>1. /\ at = "capture" /\ at' = "final" /\ oracle = Fixed
        /\ UNCHANGED <<oracle, results, recorded, ran>>
    BY <1>12 DEF Capture, PlaceInv
  <2>2. \A o \in Oracle : results[o] # "none" => o = Baseline
    BY <2>1 DEF Fixed, Baseline
  <2>. QED
    BY <2>1, <2>2
<1>13. CASE CheckFinal \/ CheckContract
  BY <1>13 DEF CheckFinal, CheckContract
<1>14. CASE FreshClone
  BY <1>14 DEF FreshClone
<1>15. CASE Finish \/ SignReceipt
  BY <1>15 DEF Finish, SignReceipt
<1>16. CASE Raise \/ Alter \/ UNCHANGED vars
  BY <1>16 DEF Raise, Alter, vars
<1>17. CASE Commanding
  BY <1>17, CommandEffect
<1>. QED
  BY <1>1, <1>2, <1>3, <1>4, <1>5, <1>6, <1>7, <1>8, <1>9, <1>10, <1>11, <1>12, <1>13, <1>14,
     <1>15, <1>16, <1>17
  DEF Next, Preparing, Executing, Patching, Judging

\* The candidate: what is captured is what was hashed.
LEMMA CandidateStep ==
  ASSUME TypeOK, PlaceInv, CandidateInv, [Next]_vars
  PROVE  CandidateInv'
<1>. USE DEF CandidateInv, Step, evidence, disk, work
<1>1. CASE PrepareRun \/ PrepareBaseline \/ VerifyBaseline \/ Reproduced \/ NotReproduced
  BY <1>1 DEF PrepareRun, PrepareBaseline, VerifyBaseline, Reproduced, NotReproduced, Transition
<1>2. CASE PreparePatch \/ StartPatching \/ StartFinal
  BY <1>2 DEF PreparePatch, StartPatching, StartFinal, Transition
<1>3. CASE Reject \/ Verify \/ RejectPatch
  BY <1>3 DEF Reject, Verify, RejectPatch, Transition
<1>4. CASE RecordContract \/ StartOracle \/ EndOracle \/ RecordResult
  BY <1>4 DEF RecordContract, StartOracle, EndOracle, RecordResult, AppendEvent
<1>5. CASE \/ CheckClone("clone", "making", {"BASELINE_PREPARING", "BASELINE_VERIFYING"})
           \/ CheckClone("patch clone", "patch making", {"PATCH_PREPARING", "PATCHING"})
           \/ MakeClone("making", "verifying", "baseline")
           \/ MakeClone("patch making", "patching", "patch")
  BY <1>5 DEF CheckClone, MakeClone
<1>6. CASE HashCandidate
  BY <1>6 DEF HashCandidate, PlaceInv, Choosing
<1>7. CASE ApplyCandidate
  BY <1>7 DEF ApplyCandidate, TypeOK
<1>8. CASE CompareCandidate \/ CheckCapture \/ RefuseCandidate
  BY <1>8 DEF CompareCandidate, CheckCapture, RefuseCandidate
<1>9. CASE Capture
  BY <1>9 DEF Capture
<1>10. CASE CheckFinal \/ FreshClone \/ CheckContract
  BY <1>10 DEF CheckFinal, FreshClone, CheckContract
<1>11. CASE Finish \/ SignReceipt
  BY <1>11 DEF Finish, SignReceipt
<1>12. CASE Alter
  BY <1>12 DEF Alter
<1>13. CASE Raise \/ UNCHANGED vars
  BY <1>13 DEF Raise, vars
<1>14. CASE Commanding
  BY <1>14, CommandEffect
<1>. QED
  BY <1>1, <1>2, <1>3, <1>4, <1>5, <1>6, <1>7, <1>8, <1>9, <1>10, <1>11, <1>12, <1>13, <1>14
  DEF Next, Preparing, Executing, Patching, Judging

\* The decisions: both rest on results of oracles, or on a candidate that was refused.
LEMMA DecisionStep ==
  ASSUME TypeOK, StateInv, PlaceInv, ResultInv, DecisionInv, [Next]_vars
  PROVE  DecisionInv'
<1>. USE DEF DecisionInv, Backed, Refuted, Decided, Step, evidence, disk, work, Meant
<1>1. CASE PrepareRun \/ PrepareBaseline \/ VerifyBaseline \/ Reproduced
  BY <1>1 DEF PrepareRun, PrepareBaseline, VerifyBaseline, Reproduced, Transition
<1>2. CASE NotReproduced
  <2>1. bound = NoPatch /\ results[Baseline] = "failed"
    BY <1>2 DEF NotReproduced, PlaceInv
  <2>2. ran[Baseline].found = Meant(Baseline)
    BY <2>1, OracleOrder DEF ResultInv
  <2>. QED
    BY <1>2, <2>1, <2>2, OracleOrder DEF NotReproduced, Transition
<1>3. CASE PreparePatch \/ StartPatching \/ StartFinal
  BY <1>3 DEF PreparePatch, StartPatching, StartFinal, Transition
<1>4. CASE Reject
  BY <1>4 DEF Reject, Transition, MoveTo
<1>5. CASE Verify
  <2>1. bound \in Patch /\ code = "none" /\ \A o \in Oracle : results[o] = "passed"
    BY <1>5 DEF Verify, AllPassed, PlaceInv, OnFinal, Oracle
  <2>. QED
    BY <1>5, <2>1 DEF Verify, Transition, MoveTo
<1>6. CASE RejectPatch
  <2>1. PICK o \in Required : results[o] # "passed"
    BY <1>6 DEF RejectPatch, AllPassed
  <2>2. o \in Oracle /\ o # Baseline
    BY OracleOrder DEF Oracle
  <2>3. results[o] = "failed"
    BY <1>6, <2>1, <2>2 DEF RejectPatch, ResultInv, TypeOK, Result
  <2>4. ran[o].found = Meant(o) /\ bound # NoPatch
    BY <1>6, <2>2, <2>3 DEF RejectPatch, ResultInv, PlaceInv, OnFinal
  <2>5. code' # "PP_PATCH_APPLY_FAILED" /\ UNCHANGED <<bound, ran, results>>
    BY <1>6, RejectionCodesTyped DEF RejectPatch, Transition
  <2>. QED
    BY <1>6, <2>2, <2>3, <2>4, <2>5 DEF RejectPatch, Transition, MoveTo
<1>7. CASE RecordContract \/ StartOracle \/ EndOracle
  BY <1>7 DEF RecordContract, StartOracle, EndOracle, AppendEvent
<1>8. CASE RecordResult
  BY <1>8 DEF RecordResult
<1>9. CASE \/ CheckClone("clone", "making", {"BASELINE_PREPARING", "BASELINE_VERIFYING"})
           \/ CheckClone("patch clone", "patch making", {"PATCH_PREPARING", "PATCHING"})
           \/ MakeClone("making", "verifying", "baseline")
           \/ MakeClone("patch making", "patching", "patch")
  BY <1>9 DEF CheckClone, MakeClone
<1>10. CASE HashCandidate \/ ApplyCandidate \/ CompareCandidate \/ CheckCapture \/ Capture
  BY <1>10 DEF HashCandidate, ApplyCandidate, CompareCandidate, CheckCapture, Capture
<1>11. CASE RefuseCandidate
  BY <1>11 DEF RefuseCandidate, PlaceInv, Choosing
<1>12. CASE CheckFinal \/ FreshClone \/ CheckContract
  BY <1>12 DEF CheckFinal, FreshClone, CheckContract
<1>13. CASE Finish \/ SignReceipt
  BY <1>13 DEF Finish, SignReceipt
<1>14. CASE Raise \/ Alter \/ UNCHANGED vars
  BY <1>14 DEF Raise, Alter, vars
<1>15. CASE Commanding
  BY <1>15, CommandEffect
<1>. QED
  BY <1>1, <1>2, <1>3, <1>4, <1>5, <1>6, <1>7, <1>8, <1>9, <1>10, <1>11, <1>12, <1>13, <1>14,
     <1>15
  DEF Next, Preparing, Executing, Patching, Judging

\* The receipt: it is written last, of a decided run, and says what was decided.
LEMMA ReceiptStep ==
  ASSUME TypeOK, StateInv, CandidateInv, DecisionInv, ReceiptInv, [Next]_vars
  PROVE  ReceiptInv'
<1>. USE DEF ReceiptInv, Backed, Step, evidence, disk, work
<1>1. CASE PrepareRun \/ PrepareBaseline \/ VerifyBaseline \/ Reproduced \/ NotReproduced
  BY <1>1 DEF PrepareRun, PrepareBaseline, VerifyBaseline, Reproduced, NotReproduced, Transition
<1>2. CASE PreparePatch \/ StartPatching \/ StartFinal
  BY <1>2 DEF PreparePatch, StartPatching, StartFinal, Transition
<1>3. CASE Reject \/ Verify \/ RejectPatch
  BY <1>3 DEF Reject, Verify, RejectPatch, Transition
<1>4. CASE RecordContract \/ StartOracle \/ EndOracle \/ RecordResult
  BY <1>4 DEF RecordContract, StartOracle, EndOracle, RecordResult, AppendEvent
<1>5. CASE \/ CheckClone("clone", "making", {"BASELINE_PREPARING", "BASELINE_VERIFYING"})
           \/ CheckClone("patch clone", "patch making", {"PATCH_PREPARING", "PATCHING"})
           \/ MakeClone("making", "verifying", "baseline")
           \/ MakeClone("patch making", "patching", "patch")
  BY <1>5 DEF CheckClone, MakeClone
<1>6. CASE HashCandidate \/ ApplyCandidate \/ CompareCandidate \/ CheckCapture \/ Capture
  BY <1>6 DEF HashCandidate, ApplyCandidate, CompareCandidate, CheckCapture, Capture
<1>7. CASE RefuseCandidate
  BY <1>7 DEF RefuseCandidate
<1>8. CASE CheckFinal \/ FreshClone \/ CheckContract
  BY <1>8 DEF CheckFinal, FreshClone, CheckContract
<1>9. CASE Finish
  <2>1. /\ at = "finish" /\ at' = "sign"
        /\ UNCHANGED <<state, signed, bound, record, code, results, contract, altered>>
        /\ receipt' = ReceiptOf(IF state = "VERIFIED" THEN "verified" ELSE "rejected")
    BY <1>9 DEF Finish
  <2>2. state = "VERIFIED" => Backed
    BY <2>1 DEF DecisionInv, Decided
  <2>3. /\ receipt'.status = IF state = "VERIFIED" THEN "verified" ELSE "rejected"
        /\ receipt'.patch \in {NoPatch, record}
        /\ code = "none" => receipt'.patch = record
        /\ receipt'.oracles = results
    BY <2>1 DEF ReceiptOf
  <2>. QED
    BY <2>1, <2>2, <2>3
<1>10. CASE SignReceipt
  BY <1>10 DEF SignReceipt
<1>11. CASE Raise \/ UNCHANGED vars
  BY <1>11 DEF Raise, vars
<1>12. CASE Alter
  BY <1>12 DEF Alter
<1>13. CASE Commanding
  <2>1. at \in {"sign", "returned"} => state \in {"VERIFIED", "REJECTED", "CLEANED"}
    BY DEF StateInv, Decided
  <2>. QED
    BY <1>13, <2>1, CommandEffect
<1>. QED
  BY <1>1, <1>2, <1>3, <1>4, <1>5, <1>6, <1>7, <1>8, <1>9, <1>10, <1>11, <1>12, <1>13
  DEF Next, Preparing, Executing, Patching, Judging

\* The invariant is inductive.
LEMMA InvStep == IInv /\ [Next]_vars => IInv'
BY TypeStep, StateStep, PlaceStep, ResultStep, CandidateStep, DecisionStep, ReceiptStep DEF IInv

\* It holds in every reachable state.
LEMMA Invariance == Spec => []IInv
BY InvInit, InvStep, PTL DEF Spec
-----------------------------------------------------------------------------
(* What follows.                                                           *)

\* A receipt that verifies, of a verified run, is backed by all oracles.
LEMMA ReceiptFollows == IInv => ReceiptIsTrue
<1>. SUFFICES ASSUME IInv, ReceiptVerifies
     PROVE  IF receipt.status = "verified"
            THEN /\ diff = bound /\ bound = hash
                 /\ \A o \in Oracle : results[o] = "passed" /\ ran[o].found = Meant(o)
            ELSE \/ \E o \in Oracle : /\ results[o] = "failed" /\ ran[o].found = Meant(o)
                                     /\ o = Baseline <=> bound = NoPatch
                 \/ code = "PP_PATCH_APPLY_FAILED" /\ bound = NoPatch
  BY DEF ReceiptIsTrue
<1>1. at = "returned"
  BY DEF IInv, ReceiptInv, ReceiptVerifies
<1>2. CASE receipt.status = "verified"
  <2>1. Backed /\ receipt.patch = record
    BY <1>1, <1>2 DEF IInv, ReceiptInv
  <2>2. record = bound /\ bound = hash /\ bound # NoPatch
    BY <2>1 DEF IInv, CandidateInv, Backed
  <2>3. diff = bound
    BY <2>1, <2>2 DEF ReceiptVerifies
  <2>4. \A o \in Oracle : results[o] = "passed" /\ ran[o].found = Meant(o)
    BY <2>1 DEF IInv, ResultInv, Backed
  <2>. QED
    BY <1>2, <2>2, <2>3, <2>4
<1>3. CASE receipt.status # "verified"
  <2>1. Refuted
    BY <1>1, <1>3 DEF ReceiptVerifies, IInv, DecisionInv, Decided
  <2>. QED
    BY <1>3, <2>1 DEF Refuted
<1>. QED
  BY <1>2, <1>3

\* Whatever a receipt that verifies says happened, also with commands in between and
\* files changed from outside: the oracles passed, each on what it was meant for, which
\* begins with the patch that is stored, and the rejected run has an oracle that failed
\* or a candidate that was refused.
THEOREM ReceiptTrue == Spec => []ReceiptIsTrue
BY Invariance, ReceiptFollows, PTL

\* An outcome that is signed in time is returned with a receipt that verifies.
LEMMA OutcomeFollows == IInv => OutcomeIsBacked
<1>. SUFFICES ASSUME IInv, at = "returned", signed = "chained", ~altered, state # "CLEANED"
     PROVE  ReceiptVerifies
  BY DEF OutcomeIsBacked
<1>1. /\ receipt.status \in {"verified", "rejected"}
      /\ receipt.status = IF state = "VERIFIED" THEN "verified" ELSE "rejected"
      /\ receipt.patch \in {NoPatch, record} /\ receipt.oracles = results
      /\ contract = "kept"
  BY DEF IInv, ReceiptInv
<1>2. state \in {"VERIFIED", "REJECTED"}
  BY DEF IInv, StateInv, Decided
<1>3. diff = record /\ recorded = results
  BY DEF IInv, CandidateInv, ResultInv
<1>4. receipt # NoReceipt
  BY <1>1 DEF NoReceipt
<1>. QED
  BY <1>1, <1>2, <1>3, <1>4 DEF ReceiptVerifies

\* The command that reports an outcome has a receipt for it that verifies, unless another
\* command or something outside of ProofPatch came in between, or the run is cleaned up.
THEOREM OutcomeBacked == Spec => []OutcomeIsBacked
BY Invariance, OutcomeFollows, PTL
-----------------------------------------------------------------------------
(* The verdict.                                                            *)

\* A step that changes neither the results nor the patch, nor the phase, is none of
\* PatchVerdict's; one that also closes the run is Close.
LEMMA PhaseStep ==
  ASSUME UNCHANGED <<bound, results, ran>>, Phase' = Phase \/ Phase' = "closed"
  PROVE  [Verdict!Next]_(Verdict!vars)
<1>1. Passed' = Passed
  BY DEF Passed, Meant
<1>. QED
  BY <1>1 DEF Verdict!Next, Verdict!Close, Verdict!vars

\* The end of an oracle is an observation, if it has passed.
LEMMA EndOracleObserves ==
  ASSUME IInv, EndOracle
  PROVE  [Verdict!Next]_(Verdict!vars)
<1>1. /\ at = "running" /\ UNCHANGED <<state, bound, oracle>> /\ oracle \in Oracle
      /\ results'[oracle] \in {"passed", "failed"} /\ ran'[oracle].found = source
      /\ \A o \in Oracle \ {oracle} : results'[o] = results[o] /\ ran'[o] = ran[o]
  BY DEF EndOracle, Step, IInv, TypeOK, evidence
<1>2. source = Meant(oracle)
  BY <1>1 DEF IInv, PlaceInv
<1>3. \A o \in Oracle : results[o] = "none" <=> o >= oracle
  BY <1>1 DEF IInv, ResultInv
<1>4. Passed' = IF results'[oracle] = "passed" THEN Passed \union {oracle} ELSE Passed
  <2>1. ASSUME NEW o \in Oracle, ~ (o > oracle)
        PROVE  Meant(o)' = Meant(o)
    <3>1. o # Baseline /\ o # Fixed => o - 1 \in Oracle \ {oracle}
      BY <1>1, <2>1, OraclePrevious
    <3>. QED
      BY <1>1, <3>1 DEF Meant
  <2>2. ~ (oracle > oracle) /\ results[oracle] = "none"
    BY <1>1, <1>3, OracleOrder
  <2>3. \A o \in Oracle : o > oracle => o >= oracle /\ o # oracle
    BY <1>1, OracleOrder
  <2>. QED
    BY <1>1, <1>2, <1>3, <2>1, <2>2, <2>3 DEF Passed
<1>5. UNCHANGED <<Phase, bound>>
  BY <1>1 DEF Phase
<1>6. CASE results'[oracle] # "passed"
  BY <1>4, <1>5, <1>6 DEF Verdict!vars
<1>7. CASE results'[oracle] = "passed" /\ oracle = Baseline
  <2>1. \A o \in Oracle \ {Baseline} : results[o] = "none"
    BY <1>1, <1>7, OracleOrder DEF IInv, ResultInv
  <2>2. Passed = {}
    BY <1>1, <1>3, <1>7, <2>1, OracleOrder DEF Passed
  <2>3. bound = NoPatch
    BY <1>1, <1>7 DEF IInv, PlaceInv, OnBaseline, Testing
  <2>. QED
    BY <1>4, <1>5, <1>7, <2>2, <2>3 DEF Verdict!Next, Verdict!ObserveFailure
<1>8. CASE results'[oracle] = "passed" /\ oracle # Baseline
  <2>1. bound # NoPatch
    BY <1>1, <1>8 DEF IInv, PlaceInv, OnFinal, Testing, NativeAssumption
  <2>2. oracle \in Required
    BY <1>1, <1>8 DEF Oracle
  <2>. QED
    BY <1>4, <1>5, <1>8, <2>1, <2>2 DEF Verdict!Next, Verdict!ObserveSuccess
<1>. QED
  BY <1>1, <1>6, <1>7, <1>8

\* The capture is the one of PatchVerdict: no result is one of a required oracle yet.
LEMMA CaptureCaptures ==
  ASSUME IInv, Capture
  PROVE  [Verdict!Next]_(Verdict!vars)
<1>1. /\ at = "capture" /\ oracle = Fixed /\ bound = NoPatch /\ source \in Patch
      /\ bound' = source /\ UNCHANGED <<results, ran>>
  BY DEF Capture, Step, work, IInv, PlaceInv, CandidateInv, Choosing
<1>2. \A o \in Oracle : results[o] # "none" => o = Baseline
  BY <1>1, OracleOrder DEF IInv, ResultInv, Choosing, Fixed, Baseline
<1>3. Passed' = Passed
  BY <1>1, <1>2 DEF Passed, Meant
<1>4. state = "PATCHING" /\ state' = "PATCH_CAPTURED"
  BY DEF Capture, MoveTo, CanTransition, ValidTransitions, Progress, Interruptible
<1>5. Phase = "reproduced" /\ Phase' = "reproduced"
  BY <1>4 DEF Phase
<1>. QED
  BY <1>1, <1>3, <1>5 DEF Verdict!Next, Verdict!Capture

\* The reproduction and the verification have the results that PatchVerdict asks for.
LEMMA ReproducedReproduces ==
  ASSUME IInv, Reproduced
  PROVE  [Verdict!Next]_(Verdict!vars)
<1>1. results[Baseline] = "passed" /\ UNCHANGED <<bound, results, ran>>
  BY DEF Reproduced, Transition, work
<1>2. Baseline \in Passed /\ Passed' = Passed
  BY <1>1, OracleOrder DEF Passed, Meant, IInv, ResultInv
<1>3. state = "BASELINE_VERIFYING" /\ state' = "BASELINE_REPRODUCED"
  BY DEF Reproduced, Transition, MoveTo, CanTransition, ValidTransitions, Progress, Interruptible
<1>4. Phase = "open" /\ Phase' = "reproduced"
  BY <1>3 DEF Phase
<1>. QED
  BY <1>1, <1>2, <1>4 DEF Verdict!Next, Verdict!Reproduce

LEMMA VerifyVerifies ==
  ASSUME IInv, Verify
  PROVE  [Verdict!Next]_(Verdict!vars)
<1>1. /\ at = "judge" /\ \A o \in Required : results[o] = "passed"
      /\ UNCHANGED <<bound, results, ran>>
  BY DEF Verify, AllPassed, Step, Transition, work
<1>2. \A o \in Oracle : results[o] = "passed"
  BY <1>1 DEF IInv, PlaceInv, OnFinal, Oracle
<1>3. Passed = Oracle /\ Passed' = Passed
  BY <1>1, <1>2 DEF Passed, Meant, IInv, ResultInv
<1>4. Oracle = Required \union {Baseline}
  BY DEF Oracle
<1>5. state = "FINAL_VERIFYING" /\ state' = "VERIFIED"
  BY DEF Verify, Transition, MoveTo, CanTransition, ValidTransitions, Progress, Interruptible
<1>6. Phase = "reproduced" /\ Phase' = "verified"
  BY <1>5 DEF Phase
<1>. QED
  BY <1>1, <1>3, <1>4, <1>6 DEF Verdict!Next, Verdict!Verify

\* The other transitions of the worker stay in a phase or close the run.
LEMMA OtherTransitions ==
  ASSUME StateInv, at \notin Decided \union {"raised"},
         NEW target \in {"PREFLIGHT", "BASELINE_PREPARING", "BASELINE_VERIFYING",
                         "BASELINE_NOT_REPRODUCED", "PATCH_PREPARING", "PATCHING",
                         "FINAL_VERIFYING", "REJECTED"},
         Transition(target)
  PROVE  Phase' = Phase \/ Phase' = "closed"
BY DEF StateInv, Transition, MoveTo, CanTransition, ValidTransitions, Progress, Interruptible,
   Phase

\* Every step is a step of PatchVerdict, or none.
LEMMA VerdictStep == IInv /\ [Next]_vars => [Verdict!Next]_(Verdict!vars)
<1>. SUFFICES ASSUME IInv, [Next]_vars
     PROVE  [Verdict!Next]_(Verdict!vars)
  OBVIOUS
<1>. USE DEF Step, evidence, disk, work
<1>1. CASE EndOracle \/ Capture \/ Reproduced \/ Verify
  BY <1>1, EndOracleObserves, CaptureCaptures, ReproducedReproduces, VerifyVerifies
<1>2. CASE \/ PrepareRun \/ PrepareBaseline \/ VerifyBaseline \/ NotReproduced \/ Reject
           \/ PreparePatch \/ StartPatching \/ StartFinal \/ RejectPatch
  <2>1. UNCHANGED <<bound, results, ran>>
    BY <1>2 DEF PrepareRun, PrepareBaseline, VerifyBaseline, NotReproduced, Reject, PreparePatch,
       StartPatching, StartFinal, RejectPatch, Transition
  <2>2. at \notin Decided \union {"raised"}
    BY <1>2 DEF PrepareRun, PrepareBaseline, VerifyBaseline, NotReproduced, Reject, PreparePatch,
       StartPatching, StartFinal, RejectPatch, Decided
  <2>3. \E target \in {"PREFLIGHT", "BASELINE_PREPARING", "BASELINE_VERIFYING",
                       "BASELINE_NOT_REPRODUCED", "PATCH_PREPARING", "PATCHING",
                       "FINAL_VERIFYING", "REJECTED"} : Transition(target)
    BY <1>2 DEF PrepareRun, PrepareBaseline, VerifyBaseline, NotReproduced, Reject, PreparePatch,
       StartPatching, StartFinal, RejectPatch
  <2>. QED
    BY <2>1, <2>2, <2>3, OtherTransitions, PhaseStep DEF IInv
<1>3. CASE \/ RecordContract \/ StartOracle \/ RecordResult
           \/ CheckClone("clone", "making", {"BASELINE_PREPARING", "BASELINE_VERIFYING"})
           \/ MakeClone("making", "verifying", "baseline")
           \/ CheckClone("patch clone", "patch making", {"PATCH_PREPARING", "PATCHING"})
           \/ MakeClone("patch making", "patching", "patch")
  <2>1. UNCHANGED <<state, bound, results, ran>>
    BY <1>3 DEF RecordContract, StartOracle, RecordResult, AppendEvent, CheckClone, MakeClone
  <2>. QED
    BY <2>1, PhaseStep DEF Phase
<1>4. CASE HashCandidate \/ ApplyCandidate \/ CompareCandidate \/ CheckCapture \/ RefuseCandidate
  <2>1. UNCHANGED <<state, bound, results, ran>>
    BY <1>4 DEF HashCandidate, ApplyCandidate, CompareCandidate, CheckCapture, RefuseCandidate
  <2>. QED
    BY <2>1, PhaseStep DEF Phase
<1>5. CASE CheckFinal \/ FreshClone \/ CheckContract \/ Finish \/ SignReceipt
  <2>1. UNCHANGED <<state, bound, results, ran>>
    BY <1>5 DEF CheckFinal, FreshClone, CheckContract, Finish, SignReceipt
  <2>. QED
    BY <2>1, PhaseStep DEF Phase
<1>6. CASE Raise \/ Alter \/ UNCHANGED vars
  <2>1. UNCHANGED <<state, bound, results, ran>>
    BY <1>6 DEF Raise, Alter, vars
  <2>. QED
    BY <2>1, PhaseStep DEF Phase
<1>7. CASE Commanding
  <2>1. /\ UNCHANGED <<bound, results, ran>>
        /\ state' = state \/ state' \in {"ABORTED", "ERROR", "CLEANED"}
    BY <1>7, CommandEffect DEF IInv
  <2>2. Phase' = Phase \/ Phase' = "closed"
    BY <2>1 DEF Phase
  <2>. QED
    BY <2>1, <2>2, PhaseStep
<1>. QED
  BY <1>1, <1>2, <1>3, <1>4, <1>5, <1>6, <1>7
  DEF Next, Preparing, Executing, Patching, Judging

\* A patch is verified only after the failure was observed without it, and every oracle
\* has passed: the fix on the one patch that was captured, each regression on what the
\* oracles before it had left of it.
THEOREM VerdictImplemented == Spec => ImplementsVerdict
<1>1. Init => Verdict!Init
  <2>. SUFFICES ASSUME Init PROVE Verdict!Init
    OBVIOUS
  <2>1. Passed = {}
    BY DEF Init, Passed, NothingYet
  <2>2. Phase = "open"
    BY DEF Init, Phase
  <2>. QED
    BY <2>1, <2>2 DEF Init, Verdict!Init
<1>. QED
  BY <1>1, VerdictStep, Invariance, PTL DEF Spec, ImplementsVerdict, Verdict!Spec
=============================================================================
