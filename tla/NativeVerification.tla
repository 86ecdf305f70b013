------------------------- MODULE NativeVerification -------------------------
(***************************************************************************)
(* VerificationService.verify_patch (services/verification.py): a          *)
(* candidate patch is verified with native commands, against the abort,    *)
(* resume and clean commands of another process.  It is a second way to    *)
(* VERIFIED, next to Workflow, but takes no lifecycle lease and has no     *)
(* handler for failures: an error ends the call and leaves the run where   *)
(* it is.                                                                  *)
(*                                                                         *)
(* A patch stands for the tree it makes of the baseline.  Native commands  *)
(* are not confined: the fixed reproduction and the regressions share one  *)
(* writable workspace, and nothing checks what an oracle has left of it.   *)
(* Evidence events and the change of state next to them are one step, and  *)
(* so are the files written next to each other.  Once, something outside   *)
(* ProofPatch may change the candidate, the stored contract or patch.      *)
(***************************************************************************)
EXTENDS RunStates, Integers

CONSTANTS
  Patch,        \* the patches a file may hold
  NoPatch,      \* no patch: the unchanged baseline, or a file that does not exist
  Regressions   \* the number of required regression oracles

ASSUME NativeAssumption == NoPatch \notin Patch /\ Regressions \in Nat

Baseline == -1
Fixed == 0
Required == Fixed .. Regressions
Oracle == Required \union {Baseline}
MaybePatch == Patch \union {NoPatch}
NothingYet == [o \in Oracle |-> "none"]
NoReceipt == [status |-> "none", patch |-> NoPatch, code |-> "none", oracles |-> NothingYet]

VARIABLES
  \* What the evidence says.
  state,      \* the state of the run
  bound,      \* the patch that the event of PATCH_CAPTURED names
  recorded,   \* the results in the events of the oracles
  signed,     \* receipt.created: "none", "chained" to the hash in the receipt, or "broken"
  \* What the directories of the run hold, and the candidate file.
  contract,   \* the contract: "none", "kept" or "altered"
  diff,       \* patch.diff
  record,     \* changed-files.json: the patch it describes
  receipt,    \* the receipt
  trees,      \* the workspaces
  candidate,  \* the candidate patch
  altered,    \* something outside ProofPatch has changed a file
  \* The worker and the process that gives other commands.
  at,         \* where verify_patch is
  oracle,     \* the oracle that is executed, or the next one
  source,     \* the patch in the workspace it works on
  hash,       \* the patch that was hashed before it was applied
  results,    \* the evaluations so far
  code,       \* rejection_code
  tip,        \* the event hash that _finish has read is still the last one
  ran,        \* history: what each oracle found in its workspace, and what it left there
  command,    \* where the other process is
  read        \* the state of the run that it has read

evidence == <<state, bound, recorded, signed>>
disk == <<contract, diff, record, receipt, trees, candidate, altered>>
work == <<oracle, source, hash, results, code>>
other == <<command, read>>
vars == <<evidence, disk, at, work, tip, ran, other>>

Result == {"none", "passed", "failed"}
Code == {"none", "PP_BASELINE_NOT_REPRODUCED", "PP_PATCH_APPLY_FAILED",
         "PP_REPRODUCTION_STILL_FAILS", "PP_REGRESSION_FAILED", "PP_VERIFICATION_TIMEOUT"}
Place == {"prepare", "contract", "preparing", "clone", "making", "verifying", "oracle",
          "running", "evaluated", "reproduced", "reject", "patch", "patch clone",
          "patch making", "patching", "hash", "apply", "compare", "check capture", "capture",
          "final", "check final", "fresh", "check contract", "judge", "finish", "sign",
          "returned", "raised"}

Init ==
  /\ state = "CREATED"
  /\ bound = NoPatch
  /\ recorded = NothingYet
  /\ signed = "none"
  /\ contract = "none"
  /\ diff = NoPatch
  /\ record = NoPatch
  /\ receipt = NoReceipt
  /\ trees = {}
  /\ candidate \in Patch
  /\ altered = FALSE
  /\ at = "prepare"
  /\ oracle = Baseline
  /\ source = NoPatch
  /\ hash = NoPatch
  /\ results = NothingYet
  /\ code = "none"
  /\ tip = FALSE
  /\ ran = [o \in Oracle |-> [found |-> NoPatch, left |-> NoPatch]]
  /\ command = "idle"
  /\ read = NoState

\* The worker is at a place of its call and goes on to the next.
Step(here, next) == at = here /\ at' = next

\* clean holds the operation lock; every change of the evidence needs it.
Free == command # "cleaning"

MoveTo(target) == CanTransition(state, target) /\ state' = target

\* transition: validated under the operation lock, and an event of its own.
Transition(target) ==
  /\ Free
  /\ MoveTo(target)
  /\ tip' = FALSE
  /\ UNCHANGED <<bound, recorded, signed>>

\* append_event does not look at the state.
AppendEvent == Free /\ tip' = FALSE /\ UNCHANGED evidence
-----------------------------------------------------------------------------
(* The contract and the baseline.                                          *)

PrepareRun ==
  /\ Step("prepare", "contract")
  /\ Transition("PREFLIGHT")
  /\ UNCHANGED <<disk, work, ran, other>>

RecordContract ==
  /\ Step("contract", "preparing")
  /\ AppendEvent
  /\ contract' = "kept"
  /\ UNCHANGED <<diff, record, receipt, trees, candidate, altered, work, ran, other>>

PrepareBaseline ==
  /\ Step("preparing", "clone")
  /\ Transition("BASELINE_PREPARING")
  /\ UNCHANGED <<disk, work, ran, other>>

\* create_clone reads the state before it takes the operation lock ...
CheckClone(here, next, allowed) ==
  /\ Step(here, next)
  /\ state \in allowed
  /\ UNCHANGED <<evidence, disk, work, tip, ran, other>>

\* ... and clones the baseline.
MakeClone(here, next, kind) ==
  /\ Step(here, next)
  /\ Free
  /\ trees' = trees \union {kind}
  /\ source' = NoPatch
  /\ UNCHANGED <<evidence, contract, diff, record, receipt, candidate, altered, oracle,
                 hash, results, code, tip, ran, other>>

VerifyBaseline ==
  /\ Step("verifying", "oracle")
  /\ Transition("BASELINE_VERIFYING")
  /\ UNCHANGED <<disk, work, ran, other>>

Reproduced ==
  /\ Step("reproduced", "patch")
  /\ results[Baseline] = "passed"
  /\ Transition("BASELINE_REPRODUCED")
  /\ UNCHANGED <<disk, work, ran, other>>

NotReproduced ==
  /\ Step("reproduced", "reject")
  /\ results[Baseline] = "failed"
  /\ Transition("BASELINE_NOT_REPRODUCED")
  /\ code' = "PP_BASELINE_NOT_REPRODUCED"
  /\ UNCHANGED <<disk, oracle, source, hash, results, ran, other>>

\* The first of the two transitions has been made; or the candidate was refused.
Reject ==
  /\ Step("reject", "finish")
  /\ Transition("REJECTED")
  /\ UNCHANGED <<disk, work, ran, other>>
-----------------------------------------------------------------------------
(* _execute and CommandOracle: an oracle in a workspace.                   *)

Workspace == IF oracle = Baseline THEN "baseline" ELSE "final"

\* oracle.started; the working directory has to be there.
StartOracle ==
  /\ Step("oracle", "running")
  /\ AppendEvent
  /\ Workspace \in trees
  /\ UNCHANGED <<disk, work, ran, other>>

\* The command ends and is evaluated: a timeout, a cancellation or truncated output
\* fails, as does a matcher.  The log directory is a sibling of the workspaces.  What
\* the command has made of its workspace is what the next oracle finds.
EndOracle ==
  /\ Step("running", "evaluated")
  /\ \E result \in {"passed", "failed"} : results' = [results EXCEPT ![oracle] = result]
  /\ source' \in MaybePatch
  /\ ran' = [ran EXCEPT ![oracle] = [found |-> source, left |-> source']]
  /\ UNCHANGED <<evidence, disk, oracle, hash, code, tip, other>>

\* result.json, and oracle.completed or oracle.failed; whatever the result, the next
\* required oracle is executed, and after the last one the patch is judged.
RecordResult ==
  /\ at = "evaluated"
  /\ Free
  /\ recorded' = [recorded EXCEPT ![oracle] = results[oracle]]
  /\ tip' = FALSE
  /\ at' = IF oracle = Baseline THEN "reproduced"
           ELSE IF oracle < Regressions THEN "oracle" ELSE "judge"
  /\ oracle' = IF oracle < Regressions THEN oracle + 1 ELSE oracle
  /\ UNCHANGED <<state, bound, signed, disk, source, hash, results, code, ran, other>>
-----------------------------------------------------------------------------
(* The candidate.                                                          *)

PreparePatch ==
  /\ Step("patch", "patch clone")
  /\ Transition("PATCH_PREPARING")
  /\ UNCHANGED <<disk, work, ran, other>>

StartPatching ==
  /\ Step("patching", "hash")
  /\ Transition("PATCHING")
  /\ UNCHANGED <<disk, work, ran, other>>

HashCandidate ==
  /\ Step("hash", "apply")
  /\ hash' = candidate
  /\ UNCHANGED <<evidence, disk, oracle, source, results, code, tip, ran, other>>

\* The candidate is read again, from its file, to be applied ...
ApplyCandidate ==
  /\ Step("apply", "compare")
  /\ "patch" \in trees
  /\ source' = candidate
  /\ UNCHANGED <<evidence, disk, oracle, hash, results, code, tip, ran, other>>

\* ... and once more to compare it with its hash.
CompareCandidate ==
  /\ Step("compare", "check capture")
  /\ candidate = hash
  /\ UNCHANGED <<evidence, disk, work, tip, ran, other>>

\* capture reads the state before it takes the operation lock.
CheckCapture ==
  /\ Step("check capture", "capture")
  /\ state = "PATCHING"
  /\ UNCHANGED <<evidence, disk, work, tip, ran, other>>

Capture ==
  /\ Step("capture", "final")
  /\ Free
  /\ "patch" \in trees
  /\ MoveTo("PATCH_CAPTURED")
  /\ diff' = source
  /\ record' = source
  /\ bound' = source
  /\ tip' = FALSE
  /\ UNCHANGED <<recorded, signed, contract, receipt, trees, candidate, altered, work, ran,
                 other>>

\* A PatchError or RepositoryError: the candidate does not apply, has changed, is
\* empty or too large, or the operation lock is taken.
RefuseCandidate ==
  /\ at \in {"hash", "apply", "compare", "check capture", "capture"}
  /\ at' = "reject"
  /\ code' = "PP_PATCH_APPLY_FAILED"
  /\ UNCHANGED <<evidence, disk, oracle, source, hash, results, tip, ran, other>>
-----------------------------------------------------------------------------
(* The final verification.                                                 *)

StartFinal ==
  /\ Step("final", "check final")
  /\ Transition("FINAL_VERIFYING")
  /\ UNCHANGED <<disk, work, ran, other>>

\* load_patch and _verify_patch_binding.
PatchLoads == diff = record /\ record = bound /\ bound # NoPatch

CheckFinal ==
  /\ Step("check final", "fresh")
  /\ state \in {"PATCH_CAPTURED", "FINAL_VERIFYING"}
  /\ PatchLoads
  /\ UNCHANGED <<evidence, disk, work, tip, ran, other>>

\* Mutant: the patch is applied without a look at what it is.
ApplyAnything ==
  /\ Step("fresh", "check contract")
  /\ trees' = trees \union {"final"}
  /\ source' = diff
  /\ UNCHANGED <<evidence, contract, diff, record, receipt, candidate, altered, oracle,
                 hash, results, code, tip, ran, other>>

\* The patch is hashed again, applied to a fresh clone, and recaptured from it.
FreshClone ==
  /\ Step("fresh", "check contract")
  /\ diff = record
  /\ trees' = trees \union {"final"}
  /\ source' = diff
  /\ UNCHANGED <<evidence, contract, diff, record, receipt, candidate, altered, oracle,
                 hash, results, code, tip, ran, other>>

CheckContract ==
  /\ Step("check contract", "oracle")
  /\ contract = "kept"
  /\ UNCHANGED <<evidence, disk, work, tip, ran, other>>

AllPassed == \A o \in Required : results[o] = "passed"

\* VERIFIED, verification.completed and run.verified.
Verify ==
  /\ Step("judge", "finish")
  /\ AllPassed
  /\ Transition("VERIFIED")
  /\ UNCHANGED <<disk, work, ran, other>>

\* Why a patch is rejected: a timeout of any required oracle comes first.
RejectionCodes ==
  {"PP_VERIFICATION_TIMEOUT",
   IF results[Fixed] = "passed" THEN "PP_REGRESSION_FAILED" ELSE "PP_REPRODUCTION_STILL_FAILS"}

RejectPatch ==
  /\ Step("judge", "finish")
  /\ ~AllPassed
  /\ Transition("REJECTED")
  /\ code' \in RejectionCodes
  /\ UNCHANGED <<disk, oracle, source, hash, results, ran, other>>
-----------------------------------------------------------------------------
(* The receipt.                                                            *)

ReceiptOf(status) ==
  [status |-> status,
   patch |-> IF code \in {"PP_BASELINE_NOT_REPRODUCED", "PP_PATCH_APPLY_FAILED"}
             THEN NoPatch ELSE record,
   code |-> code, oracles |-> results]

\* Mutant: the status is that of the reproduction.
FinishFixed ==
  /\ Step("finish", "sign")
  /\ receipt' = ReceiptOf(IF results[Fixed] = "passed" THEN "verified" ELSE "rejected")
  /\ tip' = TRUE
  /\ UNCHANGED <<evidence, contract, diff, record, trees, candidate, altered, work, ran, other>>

\* _finish reads state and last event hash, without the operation lock, and writes
\* the receipt.
Finish ==
  /\ Step("finish", "sign")
  /\ receipt' = ReceiptOf(IF state = "VERIFIED" THEN "verified" ELSE "rejected")
  /\ tip' = TRUE
  /\ UNCHANGED <<evidence, contract, diff, record, trees, candidate, altered, work, ran, other>>

SignReceipt ==
  /\ Step("sign", "returned")
  /\ Free
  /\ signed' = IF tip THEN "chained" ELSE "broken"
  /\ tip' = FALSE
  /\ UNCHANGED <<state, bound, recorded, disk, work, ran, other>>

\* Mutant: the stored patch is not hashed again.
VerifiesUnhashed ==
  /\ receipt # NoReceipt
  /\ signed = "chained"
  /\ state = IF receipt.status = "verified" THEN "VERIFIED" ELSE "REJECTED"
  /\ contract = "kept"
  /\ \A o \in Oracle : receipt.oracles[o] = recorded[o]

\* ReceiptService.verify: one event that follows the decision, the state, the
\* contract, the patch and the result of each oracle.
ReceiptVerifies ==
  /\ receipt # NoReceipt
  /\ signed = "chained"
  /\ state = IF receipt.status = "verified" THEN "VERIFIED" ELSE "REJECTED"
  /\ contract = "kept"
  /\ receipt.patch # NoPatch => diff = record /\ record = receipt.patch
  /\ \A o \in Oracle : receipt.oracles[o] = recorded[o]
-----------------------------------------------------------------------------
(* Failures, and changes from outside.                                     *)

\* An error anywhere, or the end of the process: nobody handles it.
Raise ==
  /\ at \notin {"returned", "raised"}
  /\ at' = "raised"
  /\ UNCHANGED <<evidence, disk, work, tip, ran, other>>

Alter ==
  /\ ~altered
  /\ altered' = TRUE
  /\ \/ candidate' \in Patch /\ UNCHANGED <<contract, diff>>
     \/ contract = "kept" /\ contract' = "altered" /\ UNCHANGED <<candidate, diff>>
     \/ diff # NoPatch /\ diff' \in Patch /\ UNCHANGED <<candidate, contract>>
  /\ <<candidate, contract, diff>>' # <<candidate, contract, diff>>
  /\ UNCHANGED <<evidence, record, receipt, trees, at, work, tip, ran, other>>
-----------------------------------------------------------------------------
(* abort, resume and clean, by another process.                            *)

Command(here, next) == command = here /\ command' = next

\* No container is labelled as of a native run: there is nothing to stop.
BeginAbort ==
  /\ Command("idle", "abort")
  /\ read' = state
  /\ UNCHANGED <<evidence, disk, at, work, tip, ran>>

Abortable == {"PREFLIGHT", "INVESTIGATING", "BASELINE_VERIFYING", "PATCHING", "FINAL_VERIFYING"}

RequestAbort ==
  /\ Command("abort", "aborting")
  /\ read \in Abortable
  /\ tip' = FALSE
  /\ UNCHANGED <<evidence, disk, at, work, ran, read>>

ConfirmAbort ==
  /\ Command("aborting", "idle")
  /\ Transition("ABORTED")
  /\ read' = NoState
  /\ UNCHANGED <<disk, at, work, ran>>

\* A native run has no protected checkpoint: resume gets the lease, which nobody
\* holds, and fails to load it; its handler reads the state and records run.error ...
Resume ==
  /\ command = "idle"
  /\ state # "CREATED"
  /\ IF CanTransition(state, "ERROR")
     THEN command' = "erring" /\ tip' = FALSE
     ELSE command' = "sweep" /\ UNCHANGED tip
  /\ UNCHANGED <<evidence, disk, at, work, ran, read>>

\* ... moves the run to ERROR ...
MoveToError ==
  /\ Command("erring", "sweep")
  /\ Transition("ERROR")
  /\ UNCHANGED <<disk, at, work, ran, read>>

\* ... and removes its workspaces, whoever uses them.
Sweep ==
  /\ Command("sweep", "idle")
  /\ trees' = IF state \in {"REJECTED", "ERROR", "ABORTED"} THEN {} ELSE trees
  /\ UNCHANGED <<evidence, contract, diff, record, receipt, candidate, altered, at, work,
                 tip, ran, read>>

Completed == {"VERIFIED", "REJECTED", "ABORTED", "ERROR", "APPLIED"}

\* clean, under the operation lock, asks for a receipt of a verified run, and of any
\* run that has one.
BeginClean ==
  /\ Command("idle", "cleaning")
  /\ state \in Completed
  /\ state \in {"VERIFIED", "APPLIED"} \/ receipt # NoReceipt => ReceiptVerifies
  /\ trees' = {}
  /\ tip' = FALSE
  /\ UNCHANGED <<evidence, contract, diff, record, receipt, candidate, altered, at, work,
                 ran, read>>

EndClean ==
  /\ Command("cleaning", "idle")
  /\ MoveTo("CLEANED")
  /\ UNCHANGED <<bound, recorded, signed, disk, at, work, tip, ran, read>>

\* The command finds that it cannot go on, or a step of it fails.
LeaveCommand ==
  /\ command # "idle"
  /\ command' = "idle"
  /\ read' = NoState
  /\ UNCHANGED <<evidence, disk, at, work, tip, ran>>
-----------------------------------------------------------------------------
Preparing ==
  \/ PrepareRun \/ RecordContract \/ PrepareBaseline
  \/ CheckClone("clone", "making", {"BASELINE_PREPARING", "BASELINE_VERIFYING"})
  \/ MakeClone("making", "verifying", "baseline")
  \/ VerifyBaseline \/ Reproduced \/ NotReproduced \/ Reject

Executing == StartOracle \/ EndOracle \/ RecordResult

Patching ==
  \/ PreparePatch
  \/ CheckClone("patch clone", "patch making", {"PATCH_PREPARING", "PATCHING"})
  \/ MakeClone("patch making", "patching", "patch")
  \/ StartPatching \/ HashCandidate \/ ApplyCandidate \/ CompareCandidate
  \/ CheckCapture \/ Capture \/ RefuseCandidate

Judging ==
  \/ StartFinal \/ CheckFinal \/ FreshClone \/ CheckContract
  \/ Verify \/ RejectPatch \/ Finish \/ SignReceipt

Commanding ==
  \/ BeginAbort \/ RequestAbort \/ ConfirmAbort
  \/ Resume \/ MoveToError \/ Sweep
  \/ BeginClean \/ EndClean \/ LeaveCommand

Next == Preparing \/ Executing \/ Patching \/ Judging \/ Raise \/ Alter \/ Commanding

Spec == Init /\ [][Next]_vars
-----------------------------------------------------------------------------
(* Properties.                                                             *)

TypeOK ==
  /\ state \in RunState
  /\ bound \in MaybePatch
  /\ recorded \in [Oracle -> Result]
  /\ signed \in {"none", "chained", "broken"}
  /\ contract \in {"none", "kept", "altered"}
  /\ diff \in MaybePatch
  /\ record \in MaybePatch
  /\ receipt \in [status : {"none", "verified", "rejected"}, patch : MaybePatch,
                  code : Code, oracles : [Oracle -> Result]]
  /\ trees \subseteq {"baseline", "patch", "final"}
  /\ candidate \in Patch
  /\ altered \in BOOLEAN
  /\ at \in Place
  /\ oracle \in Oracle
  /\ source \in MaybePatch
  /\ hash \in MaybePatch
  /\ results \in [Oracle -> Result]
  /\ code \in Code
  /\ tip \in BOOLEAN
  /\ ran \in [Oracle -> [found : MaybePatch, left : MaybePatch]]
  /\ command \in {"idle", "abort", "aborting", "erring", "sweep", "cleaning"}
  /\ read \in RunState \union {NoState}

\* What an oracle is meant for: the baseline, the patch that evidence binds, and then
\* whatever the required oracle before it has left of that.
Meant(o) ==
  IF o = Baseline THEN NoPatch ELSE IF o = Fixed THEN bound ELSE ran[o - 1].left

\* What a receipt that verifies says is what happened, however other commands came in
\* between and whatever was done to the stored files: the oracles of a verified run
\* passed, the failure was seen without the patch, the fix on the patch that is stored,
\* which is the candidate that was handed in, and each regression on what the oracles
\* before it had left of it; a rejected run has an oracle that failed on what it was
\* meant for, or a candidate that was never captured.
ReceiptIsTrue ==
  ReceiptVerifies =>
    IF receipt.status = "verified"
    THEN /\ diff = bound /\ bound = hash
         /\ \A o \in Oracle : results[o] = "passed" /\ ran[o].found = Meant(o)
    ELSE \/ \E o \in Oracle : /\ results[o] = "failed" /\ ran[o].found = Meant(o)
                             /\ o = Baseline <=> bound = NoPatch
         \/ code = "PP_PATCH_APPLY_FAILED" /\ bound = NoPatch

\* The command reports an outcome only with a receipt that verifies, as the tests of
\* verify_patch have it; unless another command has written evidence between the
\* decision and the receipt, or something outside ProofPatch has changed its files.
OutcomeIsBacked ==
  /\ at = "returned"
  /\ signed = "chained"
  /\ ~altered
  /\ state # "CLEANED"
  => ReceiptVerifies

\* How far the run has come, and the oracles that have passed on what they are meant for.
Phase ==
  IF state = "VERIFIED" THEN "verified"
  ELSE IF state \in {"BASELINE_REPRODUCED", "PATCH_PREPARING", "PATCHING", "PATCH_CAPTURED",
                     "FINAL_VERIFYING"} THEN "reproduced"
  ELSE IF state \in {"CREATED", "PREFLIGHT", "BASELINE_PREPARING", "BASELINE_VERIFYING"}
  THEN "open"
  ELSE "closed"

Passed == {o \in Oracle : results[o] = "passed" /\ ran[o].found = Meant(o)}

Verdict == INSTANCE PatchVerdict WITH phase <- Phase, patch <- bound, passed <- Passed

\* A patch is verified only after the failure was observed without it and every required
\* oracle passed in one fresh clone: the fix on the patch that evidence binds, and each
\* regression on what the oracles before it had left of it.
ImplementsVerdict == Verdict!Spec
=============================================================================
