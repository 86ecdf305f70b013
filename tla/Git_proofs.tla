------------------------------ MODULE Git_proofs ------------------------------
(***************************************************************************)
(* What the controller asks of git.  First the call: the process runner,   *)
(* with the oracle command and the git client that are built on it         *)
(* (GitClient), for any budget and any commands.  Then what a patch may    *)
(* contain: that the policy's regular expressions match the paths that its *)
(* patterns mean (PathPolicy), for every pattern and path, and that a      *)
(* captured patch is in the policy's scope (PatchCapture), for every       *)
(* repository.                                                             *)
(***************************************************************************)
EXTENDS GitClient, PatchCapture, WellFoundedInduction, SequenceTheorems, FiniteSetTheorems, TLAPS


(* What a command and its descendants do not undo. *)
LeaderInv == life[Leader] # "unborn" /\ (life[Leader] = "dead" => code # "none")

(* Where everything is that was written to a stream, and what its reader has seen. *)
FlowInv(s) ==
  /\ kept[s] + held[s] + pipe[s] <= written[s]
  /\ reader[s] = "retain" => held[s] > 0
  /\ reader[s] \in {"ending", "done", "failed"} => held[s] = 0
  /\ reader[s] \in {"ending", "done"} => pipe[s] = 0 /\ Ended(s)

(* The budget is either spent or has kept all that was read. *)
BudgetInv ==
  /\ remaining + Total(kept) = MaxOutput
  /\ ~truncated => \A s \in Stream : kept[s] + held[s] + pipe[s] = written[s]
  /\ truncated =>
       remaining = 0 /\ Total(kept) + Total(held) + Total(pipe) < Total(written)

(* The writer does not stop early. *)
WriterInv ==
  /\ writer = "none" => unsent = 0
  /\ writer \in {"ending", "done"} => unsent = 0 \/ listening = {}

(* The runner asks only for a reason, and reports when the command is over. *)
CallInv ==
  /\ cause = "none" => asked = {}
  /\ at \in {"close", "done"} => ~Running(Leader)
  /\ at # "done" => outcome = NoOutcome
  /\ Returned =>
       /\ \A s \in Stream : reader[s] = "done"
       /\ writer \in {"none", "done"}
       /\ outcome.truncated = truncated
       /\ outcome.kind \in {"exited", "signal"} => cause = "none"

\* The runner's invariant,
RunnerInv ==
  /\ TypeOK /\ LeaderInv /\ (\A s \in Stream : FlowInv(s))
  /\ BudgetInv /\ WriterInv /\ CallInv

(* While git runs its streams are open; a reader lets go of its pipe only when there is *)
(* something to retain or the pipe has ended.                                           *)
GitFlowInv(s) ==
  /\ FlowInv(s)
  /\ ~truncated /\ reader[s] # "failed" => kept[s] + held[s] + pipe[s] = written[s]
  /\ reader[s] # "reading" \/ s \in closed => written[s] > 0 \/ Ended(s)

\* The client's call is over when it says so.
GitCallInv ==
  /\ Running(Leader) => ends[Leader] = Stream
  /\ at = "reaping" \/ (at \in {"close", "done"} /\ cause # "interrupt") => ~Running(Leader)
  /\ at = "done" => closed = Stream
  /\ at # "done" => outcome = NoOutcome
  /\ outcome.kind = "result" => ~truncated /\ \A s \in Stream : reader[s] = "done"

\* The client's invariant,
GitInv == GitTypeOK /\ LeaderInv /\ (\A s \in Stream : GitFlowInv(s)) /\ GitCallInv

\* and that of both, whoever has called.
IInv == (client = "runner" /\ RunnerInv) \/ (client = "git" /\ GitInv)
-----------------------------------------------------------------------------
\* The streams and the processes.
LEMMA Streams ==
  /\ Stream = {"stdout", "stderr"}
  /\ Leader \in Process /\ Leader \notin Descendant /\ Descendant \subseteq Process
BY PipesAssumption DEF Stream, Process

\* What is counted for each stream and process.
LEMMA Types ==
  TypeOK =>
    /\ pipe \in [Stream -> Nat] /\ written \in [Stream -> Nat]
    /\ held \in [Stream -> Nat] /\ kept \in [Stream -> Nat] /\ remaining \in Nat
    /\ reader \in [Stream -> {"reading", "retain", "ending", "done", "failed"}]
    /\ ends \in [Process -> SUBSET Stream] /\ unsent \in Nat /\ input \in Nat
BY PipesAssumption, RunnerAssumption DEF TypeOK, ChildrenTypeOK

\* The lesser of two.
LEMMA MinOfTwo ==
  ASSUME NEW a \in Nat, NEW b \in Nat
  PROVE  Min({a, b}) = IF a <= b THEN a ELSE b
<1>. DEFINE m == IF a <= b THEN a ELSE b
<1>1. m \in {a, b} /\ \A y \in {a, b} : m <= y
  OBVIOUS
<1>2. \A x \in {a, b} : (\A y \in {a, b} : x <= y) => x = m
  OBVIOUS
<1>. QED
  BY <1>1, <1>2 DEF Min

\* Of a read, as much is retained as the budget has left.
LEMMA RetainEffect ==
  ASSUME TypeOK, NEW s \in Stream, Retain(s)
  PROVE  \E length \in Nat :
           /\ length <= held[s] /\ length <= remaining /\ length \in {held[s], remaining}
           /\ kept' = [kept EXCEPT ![s] = kept[s] + length]
           /\ remaining' = remaining - length
           /\ (truncated' <=> truncated \/ length # held[s])
<1>. DEFINE length == Min({held[s], remaining})
<1>1. held[s] \in Nat /\ remaining \in Nat
  BY Types
<1>2. length = IF held[s] <= remaining THEN held[s] ELSE remaining
  BY <1>1, MinOfTwo
<1>3. /\ kept' = [kept EXCEPT ![s] = kept[s] + length]
      /\ remaining' = remaining - length
      /\ (truncated' <=> truncated \/ length # held[s])
  BY DEF Retain
<1>. HIDE DEF length
<1>4. length \in Nat /\ length <= held[s] /\ length <= remaining /\ length \in {held[s], remaining}
  BY <1>1, <1>2
<1>. QED
  BY <1>3, <1>4

\* The same of a call of the git client.
LEMMA TypesGit ==
  GitTypeOK =>
    /\ pipe \in [Stream -> Nat] /\ written \in [Stream -> Nat]
    /\ held \in [Stream -> Nat] /\ kept \in [Stream -> Nat]
    /\ reader \in [Stream -> {"reading", "retain", "ending", "done", "failed"}]
    /\ ends \in [Process -> SUBSET Stream] /\ "stdout" \in Stream
BY PipesAssumption, RunnerAssumption, GitAssumption DEF GitTypeOK, ChildrenTypeOK, Stream

\* Of a read, as much is retained as the stream has left.
LEMMA GitRetainEffect ==
  ASSUME GitTypeOK, NEW s \in Stream, GitRetain(s)
  PROVE  \E length \in Nat :
           /\ length <= held[s] /\ kept[s] + length <= GitLimit
           /\ kept' = [kept EXCEPT ![s] = kept[s] + length]
           /\ (truncated' <=> truncated \/ length # held[s])
<1>. DEFINE left == GitLimit - kept[s]
            length == Min({held[s], left})
<1>1. held[s] \in Nat /\ kept[s] \in Nat /\ left \in Nat
  BY TypesGit, GitAssumption DEF GitTypeOK
<1>2. length = IF held[s] <= left THEN held[s] ELSE left
  BY <1>1, MinOfTwo
<1>3. /\ kept' = [kept EXCEPT ![s] = kept[s] + length]
      /\ (truncated' <=> truncated \/ length # held[s])
  BY DEF GitRetain
<1>4. length \in Nat /\ length <= held[s] /\ kept[s] + length <= GitLimit
  BY <1>1, <1>2, GitAssumption
<1>. HIDE DEF length
<1>. QED
  BY <1>3, <1>4

\* Whatever the processes do, and the controller to them, keeps their types.
LEMMA PipesTypes ==
  ASSUME ChildrenTypeOK,
         \/ \E p \in Process : ProcessStep(p)
         \/ \E s \in Stream : Take(s)
         \/ AskGroup \/ KillGroup \/ Put \/ UNCHANGED children
  PROVE  ChildrenTypeOK'
<1>. USE PipesAssumption, Streams DEF ChildrenTypeOK, output, standardInput
<1>1. CASE \E p \in Process, s \in Stream : Write(p, s)
  BY <1>1 DEF Write
<1>2. CASE \E p \in Process, s \in Stream : CloseEnd(p, s)
  BY <1>2 DEF CloseEnd
<1>3. CASE \E p \in Process : ReadInput(p) \/ CloseInput(p)
  BY <1>3 DEF ReadInput, CloseInput
<1>4. CASE \E p \in Process, c \in Descendant : Fork(p, c)
  BY <1>4 DEF Fork
<1>5. CASE \E p \in Process : Exit(p)
  BY <1>5 DEF Exit, Dies
<1>6. CASE \E s \in Stream : Take(s)
  BY <1>6 DEF Take
<1>7. CASE AskGroup \/ KillGroup
  BY <1>7 DEF AskGroup, KillGroup, Dies
<1>8. CASE Put \/ UNCHANGED children
  BY <1>8 DEF Put, children
<1>. QED
  BY <1>1, <1>2, <1>3, <1>4, <1>5, <1>6, <1>7, <1>8, Zenon DEF ProcessStep

\* The command is born once, and leaves a code when it dies.
LEMMA LeaderStep ==
  ASSUME TypeOK, LeaderInv, [Next]_vars
  PROVE  LeaderInv'
<1>. USE DEF TypeOK, ChildrenTypeOK, LeaderInv, Running, Process, children, output,
   standardInput, threads, feeding, budget, Step
<1>1. CASE Poll \/ Obeyed \/ Reaped
  BY <1>1 DEF Poll, Obeyed, Reaped
<1>2. CASE Terminate("timeout") \/ Terminate("cancelled")
  BY <1>2 DEF Terminate, AskGroup
<1>3. CASE ForceKill
  BY <1>3 DEF ForceKill, KillGroup, Dies
<1>4. CASE Finally
  BY <1>4 DEF Finally, KillGroup, Dies
<1>5. CASE \E s \in Stream : Close(s)
  BY <1>5 DEF Close
<1>6. CASE Report
  BY <1>6 DEF Report
<1>7. CASE \E s \in Stream : Fill(s)
  BY <1>7 DEF Fill, Take, Go
<1>8. CASE \E s \in Stream : ReadReturns(s)
  BY <1>8 DEF ReadReturns, Go
<1>9. CASE \E s \in Stream : Retain(s)
  BY <1>9 DEF Retain, Go
<1>10. CASE \E s \in Stream : EndOfStream(s)
  BY <1>10 DEF EndOfStream, Go
<1>11. CASE \E s \in Stream : ReaderEnds(s)
  BY <1>11 DEF ReaderEnds, Go
<1>12. CASE Feed
  BY <1>12 DEF Feed, Put
<1>13. CASE Fed \/ WriterEnds
  BY <1>13 DEF Fed, WriterEnds
<1>14. CASE \E p \in Process, s \in Stream :
           Write(p, s) /\ UNCHANGED <<at, cause, threads, budget, closed, outcome>>
  BY <1>14 DEF Write
<1>15. CASE \E p \in Process, s \in Stream :
           CloseEnd(p, s) /\ UNCHANGED <<at, cause, threads, budget, closed, outcome>>
  BY <1>15 DEF CloseEnd
<1>16. CASE \E p \in Process :
           ReadInput(p) /\ UNCHANGED <<at, cause, threads, budget, closed, outcome>>
  BY <1>16 DEF ReadInput
<1>17. CASE \E p \in Process :
           CloseInput(p) /\ UNCHANGED <<at, cause, threads, budget, closed, outcome>>
  BY <1>17 DEF CloseInput
<1>18. CASE \E p \in Process, c \in Descendant :
           Fork(p, c) /\ UNCHANGED <<at, cause, threads, budget, closed, outcome>>
  BY <1>18 DEF Fork
<1>19. CASE \E p \in Process :
           Exit(p) /\ UNCHANGED <<at, cause, threads, budget, closed, outcome>>
  BY <1>19 DEF Exit, Dies
<1>20. CASE Interrupt
  BY <1>20 DEF Interrupt
<1>21. CASE UNCHANGED vars
  BY <1>21 DEF vars
<1>. QED
  BY <1>1, <1>2, <1>3, <1>4, <1>5, <1>6, <1>7, <1>8, <1>9, <1>10, <1>11, <1>12, <1>13, <1>14,
     <1>15, <1>16, <1>17, <1>18, <1>19, <1>20, <1>21, Zenon DEF Next, RunnerStep, ReaderStep,
     WriterStep, CommandStep, ProcessStep

\* The writer ends when all is written or nobody reads.
LEMMA WriterStepInv ==
  ASSUME TypeOK, WriterInv, [Next]_vars
  PROVE  WriterInv'
<1>. USE DEF WriterInv, children, output, standardInput, threads, feeding, budget, Step
<1>1. CASE Poll \/ Obeyed \/ Reaped
  BY <1>1, Types DEF Poll, Obeyed, Reaped
<1>2. CASE Terminate("timeout") \/ Terminate("cancelled")
  BY <1>2, Types DEF Terminate, AskGroup
<1>3. CASE ForceKill
  BY <1>3, Types DEF ForceKill, KillGroup, Dies
<1>4. CASE Finally
  BY <1>4, Types DEF Finally, KillGroup, Dies
<1>5. CASE \E s \in Stream : Close(s)
  BY <1>5, Types DEF Close
<1>6. CASE Report
  BY <1>6, Types DEF Report
<1>7. CASE \E s \in Stream : Fill(s)
  BY <1>7, Types DEF Fill, Take, Go
<1>8. CASE \E s \in Stream : ReadReturns(s)
  BY <1>8, Types DEF ReadReturns, Go
<1>9. CASE \E s \in Stream : Retain(s)
  BY <1>9, Types DEF Retain, Go
<1>10. CASE \E s \in Stream : EndOfStream(s)
  BY <1>10, Types DEF EndOfStream, Go
<1>11. CASE \E s \in Stream : ReaderEnds(s)
  BY <1>11, Types DEF ReaderEnds, Go
<1>12. CASE Feed
  BY <1>12, Types DEF Feed, Put
<1>13. CASE Fed \/ WriterEnds
  BY <1>13, Types DEF Fed, WriterEnds
<1>14. CASE \E p \in Process, s \in Stream :
           Write(p, s) /\ UNCHANGED <<at, cause, threads, budget, closed, outcome>>
  BY <1>14, Types DEF Write
<1>15. CASE \E p \in Process, s \in Stream :
           CloseEnd(p, s) /\ UNCHANGED <<at, cause, threads, budget, closed, outcome>>
  BY <1>15, Types DEF CloseEnd
<1>16. CASE \E p \in Process :
           ReadInput(p) /\ UNCHANGED <<at, cause, threads, budget, closed, outcome>>
  BY <1>16, Types DEF ReadInput
<1>17. CASE \E p \in Process :
           CloseInput(p) /\ UNCHANGED <<at, cause, threads, budget, closed, outcome>>
  BY <1>17, Types DEF CloseInput
<1>18. CASE \E p \in Process, c \in Descendant :
           Fork(p, c) /\ UNCHANGED <<at, cause, threads, budget, closed, outcome>>
  BY <1>18, Types DEF Fork
<1>19. CASE \E p \in Process :
           Exit(p) /\ UNCHANGED <<at, cause, threads, budget, closed, outcome>>
  BY <1>19, Types DEF Exit, Dies
<1>20. CASE Interrupt
  BY <1>20, Types DEF Interrupt
<1>21. CASE UNCHANGED vars
  BY <1>21, Types DEF vars
<1>. QED
  BY <1>1, <1>2, <1>3, <1>4, <1>5, <1>6, <1>7, <1>8, <1>9, <1>10, <1>11, <1>12, <1>13, <1>14,
     <1>15, <1>16, <1>17, <1>18, <1>19, <1>20, <1>21, Zenon DEF Next, RunnerStep, ReaderStep,
     WriterStep, CommandStep, ProcessStep

\* A report is about a command that is over, and stays as it is.
LEMMA CallStep ==
  ASSUME TypeOK, LeaderInv, CallInv, [Next]_vars
  PROVE  CallInv'
<1>. USE DEF CallInv, Returned, NoOutcome, Running, children, output, standardInput, threads,
   feeding, budget, Step
<1>1. CASE Poll \/ Obeyed \/ Reaped
  BY <1>1, Types DEF Poll, Obeyed, Reaped
<1>2. CASE Terminate("timeout") \/ Terminate("cancelled")
  BY <1>2, Types DEF Terminate, AskGroup
<1>3. CASE ForceKill
  BY <1>3, Types DEF ForceKill, KillGroup, Dies
<1>4. CASE Finally
  BY <1>4, Types, Streams DEF Finally, KillGroup, Dies, TypeOK, ChildrenTypeOK
<1>5. CASE \E s \in Stream : Close(s)
  BY <1>5, Types DEF Close
<1>6. CASE Report
  BY <1>6, Types DEF Report, TypeOK
<1>7. CASE \E s \in Stream : Fill(s)
  BY <1>7, Types DEF Fill, Take, Go
<1>8. CASE \E s \in Stream : ReadReturns(s)
  BY <1>8, Types DEF ReadReturns, Go
<1>9. CASE \E s \in Stream : Retain(s)
  BY <1>9, Types DEF Retain, Go
<1>10. CASE \E s \in Stream : EndOfStream(s)
  BY <1>10, Types DEF EndOfStream, Go
<1>11. CASE \E s \in Stream : ReaderEnds(s)
  BY <1>11, Types DEF ReaderEnds, Go
<1>12. CASE Feed
  BY <1>12, Types DEF Feed, Put
<1>13. CASE Fed \/ WriterEnds
  BY <1>13, Types DEF Fed, WriterEnds
<1>14. CASE \E p \in Process, s \in Stream :
           Write(p, s) /\ UNCHANGED <<at, cause, threads, budget, closed, outcome>>
  BY <1>14, Types DEF Write
<1>15. CASE \E p \in Process, s \in Stream :
           CloseEnd(p, s) /\ UNCHANGED <<at, cause, threads, budget, closed, outcome>>
  BY <1>15, Types DEF CloseEnd
<1>16. CASE \E p \in Process :
           ReadInput(p) /\ UNCHANGED <<at, cause, threads, budget, closed, outcome>>
  BY <1>16, Types DEF ReadInput
<1>17. CASE \E p \in Process :
           CloseInput(p) /\ UNCHANGED <<at, cause, threads, budget, closed, outcome>>
  BY <1>17, Types DEF CloseInput
<1>18. CASE \E p \in Process, c \in Descendant :
           Fork(p, c) /\ UNCHANGED <<at, cause, threads, budget, closed, outcome>>
  BY <1>18, Types, Streams DEF Fork, TypeOK, ChildrenTypeOK
<1>19. CASE \E p \in Process :
           Exit(p) /\ UNCHANGED <<at, cause, threads, budget, closed, outcome>>
  BY <1>19, Types, Streams DEF Exit, Dies, TypeOK, ChildrenTypeOK
<1>20. CASE Interrupt
  BY <1>20, Types DEF Interrupt
<1>21. CASE UNCHANGED vars
  BY <1>21, Types DEF vars
<1>. QED
  BY <1>1, <1>2, <1>3, <1>4, <1>5, <1>6, <1>7, <1>8, <1>9, <1>10, <1>11, <1>12, <1>13, <1>14,
     <1>15, <1>16, <1>17, <1>18, <1>19, <1>20, <1>21, Zenon DEF Next, RunnerStep, ReaderStep,
     WriterStep, CommandStep, ProcessStep

\* Nothing is read that was not written, or twice.
LEMMA FlowStep ==
  ASSUME TypeOK, \A s \in Stream : FlowInv(s), NEW t \in Stream, [Next]_vars
  PROVE  FlowInv(t)'
<1>. USE DEF FlowInv, Ended, children, output, standardInput, threads, feeding, budget, Step
<1>1. CASE Poll \/ Obeyed \/ Reaped
  BY <1>1, Types DEF Poll, Obeyed, Reaped
<1>2. CASE Terminate("timeout") \/ Terminate("cancelled")
  BY <1>2, Types DEF Terminate, AskGroup
<1>3. CASE ForceKill
  BY <1>3, Types DEF ForceKill, KillGroup, Dies
<1>4. CASE Finally
  BY <1>4, Types DEF Finally, KillGroup, Dies
<1>5. CASE \E s \in Stream : Close(s)
  BY <1>5, Types DEF Close
<1>6. CASE Report
  BY <1>6, Types DEF Report
<1>7. CASE \E s \in Stream : Fill(s)
  BY <1>7, Types DEF Fill, Take, Go
<1>8. CASE \E s \in Stream : ReadReturns(s)
  BY <1>8, Types, RunnerAssumption DEF ReadReturns, Go
<1>9. CASE \E s \in Stream : Retain(s)
  <2>. PICK s \in Stream : Retain(s)
    BY <1>9
  <2>1. PICK length \in Nat :
          /\ length <= held[s] /\ kept' = [kept EXCEPT ![s] = kept[s] + length]
    BY RetainEffect
  <2>. QED
    BY <2>1, Types DEF Retain, Go
<1>10. CASE \E s \in Stream : EndOfStream(s)
  BY <1>10, Types DEF EndOfStream, Go
<1>11. CASE \E s \in Stream : ReaderEnds(s)
  BY <1>11, Types DEF ReaderEnds, Go
<1>12. CASE Feed
  BY <1>12, Types DEF Feed, Put
<1>13. CASE Fed \/ WriterEnds
  BY <1>13, Types DEF Fed, WriterEnds
<1>14. CASE \E p \in Process, s \in Stream :
           Write(p, s) /\ UNCHANGED <<at, cause, threads, budget, closed, outcome>>
  BY <1>14, Types DEF Write
<1>15. CASE \E p \in Process, s \in Stream :
           CloseEnd(p, s) /\ UNCHANGED <<at, cause, threads, budget, closed, outcome>>
  BY <1>15, Types DEF CloseEnd
<1>16. CASE \E p \in Process :
           ReadInput(p) /\ UNCHANGED <<at, cause, threads, budget, closed, outcome>>
  BY <1>16, Types DEF ReadInput
<1>17. CASE \E p \in Process :
           CloseInput(p) /\ UNCHANGED <<at, cause, threads, budget, closed, outcome>>
  BY <1>17, Types DEF CloseInput
<1>18. CASE \E p \in Process, c \in Descendant :
           Fork(p, c) /\ UNCHANGED <<at, cause, threads, budget, closed, outcome>>
  BY <1>18, Types DEF Fork
<1>19. CASE \E p \in Process :
           Exit(p) /\ UNCHANGED <<at, cause, threads, budget, closed, outcome>>
  BY <1>19, Types DEF Exit, Dies
<1>20. CASE Interrupt
  BY <1>20, Types DEF Interrupt
<1>21. CASE UNCHANGED vars
  BY <1>21, Types DEF vars
<1>. QED
  BY <1>1, <1>2, <1>3, <1>4, <1>5, <1>6, <1>7, <1>8, <1>9, <1>10, <1>11, <1>12, <1>13, <1>14,
     <1>15, <1>16, <1>17, <1>18, <1>19, <1>20, <1>21, Zenon DEF Next, RunnerStep, ReaderStep,
     WriterStep, CommandStep, ProcessStep

\* All that was read is kept or was cut off by a spent budget.
LEMMA BudgetStep ==
  ASSUME TypeOK, \A s \in Stream : FlowInv(s), BudgetInv, [Next]_vars
  PROVE  BudgetInv'
<1>. USE DEF BudgetInv, Total, children, output, standardInput, threads, feeding, budget, Step
<1>1. CASE Poll \/ Obeyed \/ Reaped
  BY <1>1, Types, Streams DEF Poll, Obeyed, Reaped
<1>2. CASE Terminate("timeout") \/ Terminate("cancelled")
  BY <1>2, Types, Streams DEF Terminate, AskGroup
<1>3. CASE ForceKill
  BY <1>3, Types, Streams DEF ForceKill, KillGroup, Dies
<1>4. CASE Finally
  BY <1>4, Types, Streams DEF Finally, KillGroup, Dies
<1>5. CASE \E s \in Stream : Close(s)
  BY <1>5, Types, Streams DEF Close
<1>6. CASE Report
  BY <1>6, Types, Streams DEF Report
<1>7. CASE \E s \in Stream : Fill(s)
  BY <1>7, Types, Streams DEF Fill, Take, Go
<1>8. CASE \E s \in Stream : ReadReturns(s)
  BY <1>8, Types, Streams DEF ReadReturns, Go
<1>9. CASE \E s \in Stream : Retain(s)
  <2>. PICK s \in Stream : Retain(s)
    BY <1>9
  <2>1. PICK length \in Nat :
          /\ length <= held[s] /\ length <= remaining /\ length \in {held[s], remaining}
          /\ kept' = [kept EXCEPT ![s] = kept[s] + length]
          /\ remaining' = remaining - length
          /\ (truncated' <=> truncated \/ length # held[s])
    BY RetainEffect
  <2>2. held' = [held EXCEPT ![s] = 0] /\ UNCHANGED <<pipe, written>>
    BY DEF Retain
  <2>3. s = "stdout" \/ s = "stderr"
    BY Streams
  <2>4. \A t \in Stream :
          /\ held[t] \in Nat /\ kept[t] \in Nat /\ pipe[t] \in Nat /\ written[t] \in Nat
          /\ kept[t] + held[t] + pipe[t] <= written[t]
    BY Types DEF FlowInv
  <2>5. \A t \in Stream :
          /\ kept'[t] = IF t = s THEN kept[t] + length ELSE kept[t]
          /\ held'[t] = IF t = s THEN 0 ELSE held[t]
    BY <2>1, <2>2, Types
  <2>6. remaining \in Nat /\ "stdout" \in Stream /\ "stderr" \in Stream
    BY Types, Streams
  <2>7. remaining' + Total(kept)' = MaxOutput
    BY <2>1, <2>3, <2>4, <2>5, <2>6
  <2>8. ASSUME ~truncated'
        PROVE  \A t \in Stream : (kept[t] + held[t] + pipe[t] = written[t])'
    BY <2>1, <2>2, <2>4, <2>5, <2>8
  <2>9. ASSUME truncated'
        PROVE  remaining' = 0 /\ (Total(kept) + Total(held) + Total(pipe) < Total(written))'
    <3>1. CASE truncated
      BY <2>1, <2>2, <2>3, <2>4, <2>5, <2>6, <3>1
    <3>2. CASE ~truncated
      BY <2>1, <2>2, <2>3, <2>4, <2>5, <2>6, <2>9, <3>2
    <3>. QED
      BY <3>1, <3>2
  <2>. QED
    BY <2>7, <2>8, <2>9
<1>10. CASE \E s \in Stream : EndOfStream(s)
  BY <1>10, Types, Streams DEF EndOfStream, Go
<1>11. CASE \E s \in Stream : ReaderEnds(s)
  BY <1>11, Types, Streams DEF ReaderEnds, Go
<1>12. CASE Feed
  BY <1>12, Types, Streams DEF Feed, Put
<1>13. CASE Fed \/ WriterEnds
  BY <1>13, Types, Streams DEF Fed, WriterEnds
<1>14. CASE \E p \in Process, s \in Stream :
           Write(p, s) /\ UNCHANGED <<at, cause, threads, budget, closed, outcome>>
  BY <1>14, Types, Streams DEF Write
<1>15. CASE \E p \in Process, s \in Stream :
           CloseEnd(p, s) /\ UNCHANGED <<at, cause, threads, budget, closed, outcome>>
  BY <1>15, Types, Streams DEF CloseEnd
<1>16. CASE \E p \in Process :
           ReadInput(p) /\ UNCHANGED <<at, cause, threads, budget, closed, outcome>>
  BY <1>16, Types, Streams DEF ReadInput
<1>17. CASE \E p \in Process :
           CloseInput(p) /\ UNCHANGED <<at, cause, threads, budget, closed, outcome>>
  BY <1>17, Types, Streams DEF CloseInput
<1>18. CASE \E p \in Process, c \in Descendant :
           Fork(p, c) /\ UNCHANGED <<at, cause, threads, budget, closed, outcome>>
  BY <1>18, Types, Streams DEF Fork
<1>19. CASE \E p \in Process :
           Exit(p) /\ UNCHANGED <<at, cause, threads, budget, closed, outcome>>
  BY <1>19, Types, Streams DEF Exit, Dies
<1>20. CASE Interrupt
  BY <1>20, Types, Streams DEF Interrupt
<1>21. CASE UNCHANGED vars
  BY <1>21, Types, Streams DEF vars
<1>. QED
  BY <1>1, <1>2, <1>3, <1>4, <1>5, <1>6, <1>7, <1>8, <1>9, <1>10, <1>11, <1>12, <1>13, <1>14,
     <1>15, <1>16, <1>17, <1>18, <1>19, <1>20, <1>21, Zenon DEF Next, RunnerStep, ReaderStep,
     WriterStep, CommandStep, ProcessStep

\* Every step of a call of the runner keeps the types.
LEMMA TypeStep ==
  ASSUME TypeOK, BudgetInv, [Next]_vars
  PROVE  TypeOK'
<1>. USE DEF TypeOK, threads, feeding, budget, Step
<1>1. CASE Poll \/ Obeyed \/ Reaped
  BY <1>1, PipesTypes DEF Poll, Obeyed, Reaped, children
<1>2. CASE Terminate("timeout") \/ Terminate("cancelled")
  BY <1>2, PipesTypes DEF Terminate, children
<1>3. CASE ForceKill
  BY <1>3, PipesTypes DEF ForceKill, children
<1>4. CASE Finally
  BY <1>4, PipesTypes DEF Finally, children
<1>5. CASE \E s \in Stream : Close(s)
  BY <1>5, PipesTypes DEF Close, children
<1>6. CASE Report
  BY <1>6, PipesTypes DEF Report, children
<1>7. CASE \E s \in Stream : Fill(s)
  BY <1>7, PipesTypes, RunnerAssumption DEF Fill, Go, children
<1>8. CASE \E s \in Stream : ReadReturns(s)
  BY <1>8, PipesTypes DEF ReadReturns, Go, children
<1>9. CASE \E s \in Stream : Retain(s)
  <2>. PICK s \in Stream : Retain(s)
    BY <1>9
  <2>1. PICK length \in Nat :
          /\ length <= held[s] /\ length <= remaining /\ length \in {held[s], remaining}
          /\ kept' = [kept EXCEPT ![s] = kept[s] + length]
          /\ remaining' = remaining - length
          /\ (truncated' <=> truncated \/ length # held[s])
    BY RetainEffect
  <2>2. kept[s] + remaining <= MaxOutput
    BY Types, Streams DEF BudgetInv, Total
  <2>3. kept' \in [Stream -> 0 .. MaxOutput] /\ remaining' \in 0 .. MaxOutput
    BY <2>1, <2>2, Types, RunnerAssumption
  <2>4. truncated' \in BOOLEAN
    BY DEF Retain
  <2>5. /\ held' \in [Stream -> 0 .. ReadSize]
        /\ reader' \in [Stream -> {"reading", "retain", "ending", "done", "failed"}]
    BY RunnerAssumption DEF Retain, Go
  <2>6. UNCHANGED <<children, at, cause, writer, unsent, closed, outcome>>
    BY DEF Retain
  <2>. QED
    BY <2>3, <2>4, <2>5, <2>6, PipesTypes
<1>10. CASE \E s \in Stream : EndOfStream(s)
  BY <1>10, PipesTypes DEF EndOfStream, Go, children
<1>11. CASE \E s \in Stream : ReaderEnds(s)
  BY <1>11, PipesTypes DEF ReaderEnds, Go, children
<1>12. CASE Feed
  BY <1>12, PipesTypes, RunnerAssumption DEF Feed, children
<1>13. CASE Fed \/ WriterEnds
  BY <1>13, PipesTypes DEF Fed, WriterEnds, children
<1>14. CASE \E p \in Process, s \in Stream :
           Write(p, s) /\ UNCHANGED <<at, cause, threads, budget, closed, outcome>>
  BY <1>14, PipesTypes DEF ProcessStep, children
<1>15. CASE \E p \in Process, s \in Stream :
           CloseEnd(p, s) /\ UNCHANGED <<at, cause, threads, budget, closed, outcome>>
  BY <1>15, PipesTypes DEF ProcessStep, children
<1>16. CASE \E p \in Process :
           ReadInput(p) /\ UNCHANGED <<at, cause, threads, budget, closed, outcome>>
  BY <1>16, PipesTypes DEF ProcessStep, children
<1>17. CASE \E p \in Process :
           CloseInput(p) /\ UNCHANGED <<at, cause, threads, budget, closed, outcome>>
  BY <1>17, PipesTypes DEF ProcessStep, children
<1>18. CASE \E p \in Process, c \in Descendant :
           Fork(p, c) /\ UNCHANGED <<at, cause, threads, budget, closed, outcome>>
  BY <1>18, PipesTypes DEF ProcessStep, children
<1>19. CASE \E p \in Process :
           Exit(p) /\ UNCHANGED <<at, cause, threads, budget, closed, outcome>>
  BY <1>19, PipesTypes DEF ProcessStep, children
<1>20. CASE Interrupt
  BY <1>20, PipesTypes DEF Interrupt, children
<1>21. CASE UNCHANGED vars
  BY <1>21, PipesTypes DEF vars, children
<1>. QED
  BY <1>1, <1>2, <1>3, <1>4, <1>5, <1>6, <1>7, <1>8, <1>9, <1>10, <1>11, <1>12, <1>13, <1>14,
     <1>15, <1>16, <1>17, <1>18, <1>19, <1>20, <1>21, Zenon DEF Next, RunnerStep, ReaderStep,
     WriterStep, CommandStep, ProcessStep

\* Every step of a call of the git client keeps the types.
LEMMA GitTypeStep ==
  ASSUME GitTypeOK, [GitNext]_vars
  PROVE  GitTypeOK'
<1>. USE DEF GitTypeOK, threads, feeding, budget, Step
<1>1. CASE GitExits \/ GitReaped
  BY <1>1, PipesTypes DEF GitExits, GitReaped, children
<1>2. CASE GitTimesOut
  BY <1>2, PipesTypes DEF GitTimesOut, children
<1>3. CASE \E s \in Stream : Close(s)
  BY <1>3, PipesTypes DEF Close, children
<1>4. CASE GitReport
  BY <1>4, PipesTypes DEF GitReport, children
<1>5. CASE \E s \in Stream : Fill(s)
  <2>. PICK s \in Stream : Fill(s)
    BY <1>5
  <2>1. held' \in [Stream -> 0 .. ReadSize]
    BY RunnerAssumption DEF Fill
  <2>2. UNCHANGED <<at, cause, reader, writer, unsent, kept, remaining, truncated, closed, outcome>>
    BY DEF Fill
  <2>3. ChildrenTypeOK'
    BY PipesTypes DEF Fill
  <2>. QED
    BY <2>1, <2>2, <2>3
<1>6. CASE \E s \in Stream : ReadReturns(s)
  BY <1>6, PipesTypes DEF ReadReturns, Go, children
<1>7. CASE \E s \in Stream : GitRetain(s)
  <2>. PICK s \in Stream : GitRetain(s)
    BY <1>7
  <2>1. PICK length \in Nat :
          /\ length <= held[s] /\ kept[s] + length <= GitLimit
          /\ kept' = [kept EXCEPT ![s] = kept[s] + length]
          /\ (truncated' <=> truncated \/ length # held[s])
    BY GitRetainEffect
  <2>2. kept' \in [Stream -> 0 .. GitLimit]
    BY <2>1, TypesGit, GitAssumption
  <2>3. truncated' \in BOOLEAN
    BY DEF GitRetain
  <2>4. /\ held' \in [Stream -> 0 .. ReadSize]
        /\ reader' \in [Stream -> {"reading", "retain", "ending", "done", "failed"}]
    BY RunnerAssumption DEF GitRetain, Go
  <2>5. UNCHANGED <<children, at, cause, writer, unsent, remaining, closed, outcome>>
    BY DEF GitRetain
  <2>. QED
    BY <2>2, <2>3, <2>4, <2>5, PipesTypes
<1>8. CASE \E s \in Stream : EndOfStream(s)
  BY <1>8, PipesTypes DEF EndOfStream, Go, children
<1>9. CASE \E s \in Stream : ReaderEnds(s)
  BY <1>9, PipesTypes DEF ReaderEnds, Go, children
<1>10. CASE TargetFails
  <2>1. reader' \in [Stream -> {"reading", "retain", "ending", "done", "failed"}]
    BY <1>10, Streams DEF TargetFails, Go
  <2>2. held' \in [Stream -> 0 .. ReadSize]
    <3>1. held' = [held EXCEPT !["stdout"] = 0]
      BY <1>10 DEF TargetFails
    <3>2. 0 \in 0 .. ReadSize /\ held \in [Stream -> 0 .. ReadSize]
      BY RunnerAssumption
    <3>. QED
      BY <3>1, <3>2, Zenon
  <2>3. UNCHANGED <<children, at, cause, writer, unsent, kept, remaining, truncated, closed, outcome>>
    BY <1>10 DEF TargetFails
  <2>. QED
    BY <2>1, <2>2, <2>3, PipesTypes
<1>11. CASE \E p \in Process, s \in Stream :
           Write(p, s) /\ UNCHANGED <<at, cause, threads, budget, closed, outcome>>
  BY <1>11, PipesTypes DEF ProcessStep, children
<1>12. CASE \E p \in Process \ {Leader}, s \in Stream :
           CloseEnd(p, s) /\ UNCHANGED <<at, cause, threads, budget, closed, outcome>>
  BY <1>12, PipesTypes DEF ProcessStep, children
<1>13. CASE \E p \in Process, c \in Descendant :
           Fork(p, c) /\ UNCHANGED <<at, cause, threads, budget, closed, outcome>>
  BY <1>13, PipesTypes DEF ProcessStep, children
<1>14. CASE \E p \in Process :
           Exit(p) /\ UNCHANGED <<at, cause, threads, budget, closed, outcome>>
  BY <1>14, PipesTypes DEF ProcessStep, children
<1>15. CASE GitInterrupted
  BY <1>15, PipesTypes DEF GitInterrupted, children
<1>16. CASE UNCHANGED vars
  BY <1>16, PipesTypes DEF vars, children
<1>. QED
  BY <1>1, <1>2, <1>3, <1>4, <1>5, <1>6, <1>7, <1>8, <1>9, <1>10, <1>11, <1>12, <1>13, <1>14,
     <1>15, <1>16, Zenon DEF GitNext, GitStep, GitReaderStep, GitProcessStep

\* Git is born once, and leaves a code when it dies.
LEMMA GitLeaderStep ==
  ASSUME GitTypeOK, LeaderInv, [GitNext]_vars
  PROVE  LeaderInv'
<1>. USE DEF GitTypeOK, ChildrenTypeOK, LeaderInv, Running, Process, children, output,
   standardInput, threads, feeding, budget, Step
<1>1. CASE GitExits \/ GitReaped
  BY <1>1 DEF GitExits, GitReaped
<1>2. CASE GitTimesOut
  BY <1>2 DEF GitTimesOut, KillGroup, Dies
<1>3. CASE \E s \in Stream : Close(s)
  BY <1>3 DEF Close
<1>4. CASE GitReport
  BY <1>4 DEF GitReport, KillGroup, Dies
<1>5. CASE \E s \in Stream : Fill(s)
  BY <1>5 DEF Fill, Take, Go
<1>6. CASE \E s \in Stream : ReadReturns(s)
  BY <1>6 DEF ReadReturns, Go
<1>7. CASE \E s \in Stream : GitRetain(s)
  BY <1>7 DEF GitRetain, Go
<1>8. CASE \E s \in Stream : EndOfStream(s)
  BY <1>8 DEF EndOfStream, Go
<1>9. CASE \E s \in Stream : ReaderEnds(s)
  BY <1>9 DEF ReaderEnds, Go
<1>10. CASE TargetFails
  BY <1>10 DEF TargetFails, Go
<1>11. CASE \E p \in Process, s \in Stream :
           Write(p, s) /\ UNCHANGED <<at, cause, threads, budget, closed, outcome>>
  BY <1>11 DEF Write
<1>12. CASE \E p \in Process \ {Leader}, s \in Stream :
           CloseEnd(p, s) /\ UNCHANGED <<at, cause, threads, budget, closed, outcome>>
  BY <1>12 DEF CloseEnd
<1>13. CASE \E p \in Process, c \in Descendant :
           Fork(p, c) /\ UNCHANGED <<at, cause, threads, budget, closed, outcome>>
  BY <1>13 DEF Fork
<1>14. CASE \E p \in Process :
           Exit(p) /\ UNCHANGED <<at, cause, threads, budget, closed, outcome>>
  BY <1>14 DEF Exit, Dies
<1>15. CASE GitInterrupted
  BY <1>15 DEF GitInterrupted
<1>16. CASE UNCHANGED vars
  BY <1>16 DEF vars
<1>. QED
  BY <1>1, <1>2, <1>3, <1>4, <1>5, <1>6, <1>7, <1>8, <1>9, <1>10, <1>11, <1>12, <1>13, <1>14,
     <1>15, <1>16, Zenon DEF GitNext, GitStep, GitReaderStep, GitProcessStep

\* A reader of git lets go of its pipe for a reason, and loses nothing before.
LEMMA GitFlowStep ==
  ASSUME GitTypeOK, \A s \in Stream : GitFlowInv(s), NEW t \in Stream, [GitNext]_vars
  PROVE  GitFlowInv(t)'
<1>. USE DEF GitFlowInv, FlowInv, Ended, children, output, standardInput, threads, feeding,
   budget, Step
<1>1. CASE GitExits \/ GitReaped
  BY <1>1, TypesGit DEF GitExits, GitReaped
<1>2. CASE GitTimesOut
  BY <1>2, TypesGit DEF GitTimesOut, KillGroup, Dies
<1>3. CASE \E s \in Stream : Close(s)
  BY <1>3, TypesGit DEF Close
<1>4. CASE GitReport
  BY <1>4, TypesGit DEF GitReport, KillGroup, Dies
<1>5. CASE \E s \in Stream : Fill(s)
  BY <1>5, TypesGit DEF Fill, Take, Go
<1>6. CASE \E s \in Stream : ReadReturns(s)
  BY <1>6, TypesGit, RunnerAssumption DEF ReadReturns, Go
<1>7. CASE \E s \in Stream : GitRetain(s)
  <2>. PICK s \in Stream : GitRetain(s)
    BY <1>7
  <2>1. PICK length \in Nat :
          /\ length <= held[s] /\ kept[s] + length <= GitLimit
          /\ kept' = [kept EXCEPT ![s] = kept[s] + length]
          /\ (truncated' <=> truncated \/ length # held[s])
    BY GitRetainEffect
  <2>2. /\ held' = [held EXCEPT ![s] = 0] /\ UNCHANGED <<pipe, written, ends, closed>>
        /\ reader' = [reader EXCEPT ![s] = IF s \in closed THEN "failed" ELSE "reading"]
    BY DEF GitRetain, Go
  <2>. QED
    BY <2>1, <2>2, TypesGit DEF GitRetain
<1>8. CASE \E s \in Stream : EndOfStream(s)
  BY <1>8, TypesGit DEF EndOfStream, Go
<1>9. CASE \E s \in Stream : ReaderEnds(s)
  BY <1>9, TypesGit DEF ReaderEnds, Go
<1>10. CASE TargetFails
  BY <1>10, TypesGit DEF TargetFails, Go
<1>11. CASE \E p \in Process, s \in Stream :
           Write(p, s) /\ UNCHANGED <<at, cause, threads, budget, closed, outcome>>
  BY <1>11, TypesGit DEF Write
<1>12. CASE \E p \in Process \ {Leader}, s \in Stream :
           CloseEnd(p, s) /\ UNCHANGED <<at, cause, threads, budget, closed, outcome>>
  BY <1>12, TypesGit DEF CloseEnd
<1>13. CASE \E p \in Process, c \in Descendant :
           Fork(p, c) /\ UNCHANGED <<at, cause, threads, budget, closed, outcome>>
  BY <1>13, TypesGit DEF Fork
<1>14. CASE \E p \in Process :
           Exit(p) /\ UNCHANGED <<at, cause, threads, budget, closed, outcome>>
  BY <1>14, TypesGit DEF Exit, Dies
<1>15. CASE GitInterrupted
  BY <1>15, TypesGit DEF GitInterrupted
<1>16. CASE UNCHANGED vars
  BY <1>16, TypesGit DEF vars
<1>. QED
  BY <1>1, <1>2, <1>3, <1>4, <1>5, <1>6, <1>7, <1>8, <1>9, <1>10, <1>11, <1>12, <1>13, <1>14,
     <1>15, <1>16, Zenon DEF GitNext, GitStep, GitReaderStep, GitProcessStep

\* Git is over when its call is, except after an interruption.
LEMMA GitCallStep ==
  ASSUME GitTypeOK, LeaderInv, GitCallInv, [GitNext]_vars
  PROVE  GitCallInv'
<1>. USE DEF GitCallInv, NoOutcome, Running, children, output, standardInput, threads, feeding,
   budget, Step
<1>1. CASE GitExits \/ GitReaped
  BY <1>1, TypesGit DEF GitExits, GitReaped
<1>2. CASE GitTimesOut
  BY <1>2, TypesGit, Streams DEF GitTimesOut, KillGroup, Dies, GitTypeOK, ChildrenTypeOK
<1>3. CASE \E s \in Stream : Close(s)
  BY <1>3, TypesGit DEF Close
<1>4. CASE GitReport
  BY <1>4, TypesGit, Streams DEF GitReport, KillGroup, Dies, GitTypeOK, ChildrenTypeOK
<1>5. CASE \E s \in Stream : Fill(s)
  BY <1>5, TypesGit DEF Fill, Take, Go
<1>6. CASE \E s \in Stream : ReadReturns(s)
  BY <1>6, TypesGit DEF ReadReturns, Go
<1>7. CASE \E s \in Stream : GitRetain(s)
  BY <1>7, TypesGit DEF GitRetain, Go
<1>8. CASE \E s \in Stream : EndOfStream(s)
  BY <1>8, TypesGit DEF EndOfStream, Go
<1>9. CASE \E s \in Stream : ReaderEnds(s)
  BY <1>9, TypesGit DEF ReaderEnds, Go
<1>10. CASE TargetFails
  BY <1>10, TypesGit DEF TargetFails, Go
<1>11. CASE \E p \in Process, s \in Stream :
           Write(p, s) /\ UNCHANGED <<at, cause, threads, budget, closed, outcome>>
  BY <1>11, TypesGit DEF Write
<1>12. CASE \E p \in Process \ {Leader}, s \in Stream :
           CloseEnd(p, s) /\ UNCHANGED <<at, cause, threads, budget, closed, outcome>>
  BY <1>12, TypesGit, Streams DEF CloseEnd, GitTypeOK, ChildrenTypeOK
<1>13. CASE \E p \in Process, c \in Descendant :
           Fork(p, c) /\ UNCHANGED <<at, cause, threads, budget, closed, outcome>>
  BY <1>13, TypesGit, Streams DEF Fork, GitTypeOK, ChildrenTypeOK
<1>14. CASE \E p \in Process :
           Exit(p) /\ UNCHANGED <<at, cause, threads, budget, closed, outcome>>
  BY <1>14, TypesGit, Streams DEF Exit, Dies, GitTypeOK, ChildrenTypeOK
<1>15. CASE GitInterrupted
  BY <1>15, TypesGit DEF GitInterrupted
<1>16. CASE UNCHANGED vars
  BY <1>16, TypesGit DEF vars
<1>. QED
  BY <1>1, <1>2, <1>3, <1>4, <1>5, <1>6, <1>7, <1>8, <1>9, <1>10, <1>11, <1>12, <1>13, <1>14,
     <1>15, <1>16, Zenon DEF GitNext, GitStep, GitReaderStep, GitProcessStep
-----------------------------------------------------------------------------
(* The invariants hold at the start and through every step.                *)

\* Nothing has been written, read or decided when the processes and threads start.
LEMMA RunnerStarts == Init => RunnerInv
<1>. SUFFICES ASSUME Init PROVE RunnerInv
  OBVIOUS
<1>. USE Streams DEF Init, Started, NoOutcome
<1>1. ChildrenTypeOK
  BY PipesAssumption DEF ChildrenInit, ChildrenTypeOK
<1>2. TypeOK
  <2>1. /\ 0 \in 0 .. ReadSize /\ 0 \in 0 .. MaxOutput /\ MaxOutput \in 0 .. MaxOutput
        /\ 0 \in 0 .. InputSize /\ InputSize \in 0 .. InputSize
    BY RunnerAssumption
  <2>2. /\ held \in [Stream -> 0 .. ReadSize] /\ kept \in [Stream -> 0 .. MaxOutput]
        /\ unsent \in 0 .. InputSize /\ remaining \in 0 .. MaxOutput
    BY <2>1, Zenon
  <2>. QED
    BY <1>1, <2>2 DEF TypeOK
<1>3. LeaderInv
  BY DEF ChildrenInit, LeaderInv
<1>4. \A s \in Stream : FlowInv(s)
  BY DEF ChildrenInit, FlowInv
<1>5. BudgetInv
  BY RunnerAssumption DEF ChildrenInit, BudgetInv, Total
<1>6. WriterInv
  BY DEF WriterInv
<1>7. CallInv
  BY DEF ChildrenInit, CallInv, Returned
<1>. QED
  BY <1>2, <1>3, <1>4, <1>5, <1>6, <1>7 DEF RunnerInv

\* So does the client's invariant.
LEMMA GitStarts == GitInit => GitInv
<1>. SUFFICES ASSUME GitInit PROVE GitInv
  OBVIOUS
<1>. USE Streams DEF GitInit, Started, NoOutcome
<1>1. ChildrenTypeOK
  BY PipesAssumption DEF ChildrenInit, ChildrenTypeOK
<1>2. GitTypeOK
  <2>1. 0 \in 0 .. ReadSize /\ 0 \in 0 .. GitLimit
    BY RunnerAssumption, GitAssumption
  <2>2. held \in [Stream -> 0 .. ReadSize] /\ kept \in [Stream -> 0 .. GitLimit]
    BY <2>1, Zenon
  <2>. QED
    BY <1>1, <2>2 DEF GitTypeOK
<1>3. LeaderInv
  BY DEF ChildrenInit, LeaderInv
<1>4. \A s \in Stream : GitFlowInv(s)
  BY DEF ChildrenInit, FlowInv, GitFlowInv
<1>5. GitCallInv
  BY DEF ChildrenInit, GitCallInv
<1>. QED
  BY <1>2, <1>3, <1>4, <1>5 DEF GitInv

\* Every step keeps the runner's invariant,
LEMMA RunnerSteps == RunnerInv /\ [Next]_vars => RunnerInv'
BY LeaderStep, FlowStep, BudgetStep, WriterStepInv, CallStep, TypeStep DEF RunnerInv

\* and the client's.
LEMMA GitSteps == GitInv /\ [GitNext]_vars => GitInv'
BY GitLeaderStep, GitFlowStep, GitCallStep, GitTypeStep DEF GitInv, GitFlowInv

\* A call is the runner's or the git client's from its beginning to its end.
LEMMA ClientStarts == ClientInit => IInv
BY RunnerStarts, GitStarts DEF ClientInit, IInv

\* So every step keeps the invariant of both.
LEMMA ClientSteps == IInv /\ [ClientNext]_clientVars => IInv'
<1>. SUFFICES ASSUME IInv, [ClientNext]_clientVars PROVE IInv'
  OBVIOUS
<1>1. /\ client' = client
      /\ client = "runner" => [Next]_vars
      /\ client = "git" => [GitNext]_vars
  BY DEF IInv, ClientNext, Of, clientVars
<1>. QED
  BY <1>1, RunnerSteps, GitSteps DEF IInv
-----------------------------------------------------------------------------
(* What the invariants say of a call that is over.                         *)

\* All that was written is accounted for when the readers have ended.
LEMMA InvWhole == RunnerInv => OutcomeIsWhole
<1>. SUFFICES ASSUME RunnerInv, Returned PROVE OutcomeIsWhole
  BY DEF OutcomeIsWhole
<1>1. \A s \in Stream : held[s] = 0 /\ pipe[s] = 0
  BY DEF RunnerInv, CallInv, FlowInv
<1>2. /\ \A s \in Stream : kept[s] \in Nat /\ written[s] \in Nat
      /\ remaining \in Nat /\ "stdout" \in Stream /\ "stderr" \in Stream
  BY Types, Streams DEF RunnerInv
<1>. DEFINE all == Total(written)
            whole == Total(kept)
<1>3. all \in Nat /\ whole \in Nat /\ Total(held) = 0 /\ Total(pipe) = 0
  BY <1>1, <1>2 DEF Total
<1>4. remaining + whole = MaxOutput
  BY DEF RunnerInv, BudgetInv
<1>5. ~truncated => whole = all
  BY <1>1, <1>2 DEF RunnerInv, BudgetInv, Total
<1>6. truncated => remaining = 0 /\ whole < all
  BY <1>2, <1>3 DEF RunnerInv, BudgetInv
<1>. HIDE DEF all, whole
<1>7. whole = IF all <= MaxOutput THEN all ELSE MaxOutput
  BY <1>2, <1>3, <1>4, <1>5, <1>6, RunnerAssumption
<1>8. whole = Min({all, MaxOutput})
  BY <1>3, <1>7, MinOfTwo, RunnerAssumption
<1>9. outcome.truncated <=> all > MaxOutput
  <2>1. outcome.truncated = truncated
    BY DEF RunnerInv, CallInv
  <2>2. truncated <=> all > MaxOutput
    BY <1>2, <1>3, <1>4, <1>5, <1>6, RunnerAssumption
  <2>. QED
    BY <2>1, <2>2
<1>10. unsent = 0 \/ listening = {}
  BY DEF RunnerInv, CallInv, WriterInv
<1>11. outcome.kind \in {"exited", "signal"} => asked = {} /\ code # "none"
  BY Streams DEF RunnerInv, CallInv, LeaderInv, Running, Returned, TypeOK, ChildrenTypeOK
<1>. QED
  BY <1>8, <1>9, <1>10, <1>11 DEF OutcomeIsWhole, all, whole

\* What is not marked as cut off is, stream by stream, what was written.
LEMMA InvUncut ==
  RunnerInv /\ Returned /\ ~outcome.truncated => \A s \in Stream : kept[s] = written[s]
<1>. SUFFICES ASSUME RunnerInv, Returned, ~outcome.truncated, NEW s \in Stream
              PROVE  kept[s] = written[s]
  OBVIOUS
<1>1. held[s] = 0 /\ pipe[s] = 0 /\ ~truncated
  BY DEF RunnerInv, CallInv, FlowInv
<1>2. kept[s] \in Nat /\ kept[s] + held[s] + pipe[s] = written[s]
  BY <1>1, Types DEF RunnerInv, BudgetInv
<1>. QED
  BY <1>1, <1>2

\* The verdict is one on all that was written.
LEMMA InvEarned == RunnerInv => VerdictIsEarned
<1>. SUFFICES ASSUME RunnerInv, Returned,
                     NEW exit \in CodeMatcher, NEW text \in TextMatcher,
                     NEW actual \in ExitCodes, NEW overtaxed \in BOOLEAN,
                     NEW last \in 0 .. written[text.stream]
              PROVE  Passed(exit, text, actual, last, overtaxed) <=>
                       /\ outcome.kind \in {"exited", "signal"} /\ asked = {}
                       /\ Total(written) <= MaxOutput
                       /\ IF exit.negated THEN actual # {exit.value} ELSE actual = {exit.value}
                       /\ IF text.negated THEN last = 0 ELSE last > 0
                       /\ ~ (text.regex /\ overtaxed)
  BY DEF VerdictIsEarned
<1>. DEFINE ended == outcome.kind \in {"exited", "signal"}
            coded == EvaluateExitCode(exit, actual)
            matched == EvaluateText(text, last, overtaxed)
<1>1. Passed(exit, text, actual, last, overtaxed)
        <=> ended /\ ~outcome.truncated /\ coded /\ matched
  BY DEF Passed, FailureCode, Returned, EvaluateExitCode, EvaluateText
<1>2. /\ Total(written) \in Nat
      /\ outcome.truncated <=> Total(written) > MaxOutput
      /\ ended => asked = {}
  BY InvWhole, Types, Streams DEF OutcomeIsWhole, Total, RunnerInv
<1>3. ended => (coded <=> IF exit.negated THEN actual # {exit.value} ELSE actual = {exit.value})
  <2>1. ended => actual # {}
    BY DEF ExitCodes
  <2>2. exit.negated \in BOOLEAN
    BY DEF CodeMatcher
  <2>. QED
    BY <2>1, <2>2 DEF EvaluateExitCode
<1>4. ~outcome.truncated =>
        (matched <=> ~ (text.regex /\ overtaxed) /\ IF text.negated THEN last = 0 ELSE last > 0)
  <2>1. text.stream \in Stream /\ text.regex \in BOOLEAN /\ text.negated \in BOOLEAN
    BY DEF TextMatcher
  <2>2. written[text.stream] \in Nat /\ last \in Nat /\ last <= written[text.stream]
    BY <2>1, Types DEF RunnerInv
  <2>3. ~outcome.truncated => (last \in 1 .. kept[text.stream] <=> last > 0)
    BY <2>1, <2>2, InvUncut
  <2>4. last = 0 <=> ~ (last > 0)
    BY <2>2
  <2>. HIDE DEF matched
  <2>5. matched <=> ~ (text.regex /\ overtaxed)
                      /\ IF text.negated THEN ~ (last \in 1 .. kept[text.stream])
                                         ELSE last \in 1 .. kept[text.stream]
    BY <2>1 DEF matched, EvaluateText
  <2>. QED
    BY <2>3, <2>4, <2>5
<1>. HIDE DEF ended, coded, matched
<1>5. outcome.truncated <=> ~ (Total(written) <= MaxOutput)
  BY <1>2, RunnerAssumption
<1>. QED
  BY <1>1, <1>2, <1>3, <1>4, <1>5 DEF ended

\* A running git has its streams open, so that no silent one is left behind.
LEMMA InvOver == client = "git" /\ GitInv => GitIsOver
<1>. SUFFICES ASSUME GitInv, at = "done" PROVE GitIsOver
  BY DEF GitIsOver
<1>1. ASSUME Running(Leader), NEW s \in Stream PROVE cause = "interrupt" /\ written[s] > 0
  BY <1>1, Streams DEF GitInv, GitCallInv, GitFlowInv, Ended
<1>2. ASSUME outcome.kind = "result", NEW s \in Stream
      PROVE  kept[s] = written[s] /\ written[s] <= GitLimit
  <2>1. held[s] = 0 /\ pipe[s] = 0 /\ kept[s] + held[s] + pipe[s] = written[s]
    BY <1>2 DEF GitInv, GitCallInv, GitFlowInv, FlowInv
  <2>2. kept[s] \in 0 .. GitLimit
    BY DEF GitInv, GitTypeOK
  <2>. QED
    BY <2>1, <2>2, GitAssumption
<1>. QED
  BY <1>1, <1>2, Streams DEF GitIsOver

\* The guards of a reader's and of the writer's actions, one disjunct for each.
ReaderReady(s) ==
  \/ reader[s] = "reading" /\ held[s] < ReadSize /\ pipe[s] > 0
  \/ reader[s] = "reading" /\ (held[s] = ReadSize \/ (held[s] > 0 /\ pipe[s] = 0 /\ Ended(s)))
  \/ reader[s] = "retain"
  \/ reader[s] = "reading" /\ held[s] = 0 /\ pipe[s] = 0 /\ Ended(s)
  \/ reader[s] = "ending"

\* The writer thread can take a step.
WriterReady ==
  \/ writer = "writing" /\ unsent > 0 /\ listening # {} /\ input < Capacity
  \/ writer = "writing" /\ (unsent = 0 \/ listening = {})
  \/ writer = "ending"

\* CommandNeverWaits, with these guards where it asks whether the step is enabled.
CommandIsServed ==
  at # "close" /\ at # "done" =>
    /\ \A s \in Stream : pipe[s] > 0 /\ reader[s] # "failed" => ReaderReady(s)
    /\ listening # {} /\ unsent > 0 /\ input < Capacity => WriterReady

\* A reader is gone only when its pipe has ended, the writer when nobody reads.
LEMMA InvServed == IInv => CommandIsServed
<1>1. ASSUME RunnerInv PROVE CommandIsServed
  <2>1. ASSUME NEW s \in Stream, pipe[s] > 0, reader[s] # "failed" PROVE ReaderReady(s)
    <3>1. pipe[s] \in Nat /\ held[s] \in 0 .. ReadSize
      BY <1>1, Types DEF RunnerInv, TypeOK
    <3>2. held[s] < ReadSize \/ held[s] = ReadSize
      BY <3>1, RunnerAssumption
    <3>3. reader[s] \in {"reading", "retain"}
      BY <1>1, <2>1, <3>1 DEF RunnerInv, TypeOK, FlowInv
    <3>. QED
      BY <2>1, <3>2, <3>3 DEF ReaderReady
  <2>2. ASSUME listening # {}, unsent > 0, input < Capacity PROVE WriterReady
    <3>1. unsent # 0
      BY <2>2, <1>1, Types DEF RunnerInv
    <3>. QED
      BY <1>1, <2>2, <3>1 DEF RunnerInv, TypeOK, WriterInv, WriterReady
  <2>. QED
    BY <2>1, <2>2 DEF CommandIsServed
<1>2. ASSUME GitInv PROVE CommandIsServed
  <2>1. ASSUME NEW s \in Stream, pipe[s] > 0, reader[s] # "failed" PROVE ReaderReady(s)
    <3>1. pipe[s] \in Nat /\ held[s] \in 0 .. ReadSize
      BY <1>2, TypesGit DEF GitInv, GitTypeOK
    <3>2. held[s] < ReadSize \/ held[s] = ReadSize
      BY <3>1, RunnerAssumption
    <3>3. reader[s] \in {"reading", "retain"}
      BY <1>2, <2>1, <3>1 DEF GitInv, GitTypeOK, GitFlowInv, FlowInv
    <3>. QED
      BY <2>1, <3>2, <3>3 DEF ReaderReady
  <2>2. ~ (unsent > 0)
    BY <1>2 DEF GitInv, GitTypeOK
  <2>. QED
    BY <2>1, <2>2 DEF CommandIsServed
<1>. QED
  BY <1>1, <1>2 DEF IInv
-----------------------------------------------------------------------------
(* The theorems.                                                           *)

\* Every variable of a call, of the runner or of the git client, has its type.
THEOREM ClientTypeCorrect == ClientSpec => []ClientTypeOK
<1>1. IInv => ClientTypeOK
  BY DEF IInv, RunnerInv, GitInv, ClientTypeOK
<1>. QED
  BY <1>1, ClientStarts, ClientSteps, PTL DEF ClientSpec

\* What the runner returns holds all that the command wrote, up to the limit, is marked
\* as cut off exactly if it wrote more, and names what ended the command: for any
\* processes, sizes of pipes and reads, and any limit and input.
THEOREM RunnerIsWhole == Spec => [](TypeOK /\ OutcomeIsWhole)
<1>1. RunnerInv => TypeOK /\ OutcomeIsWhole
  BY InvWhole DEF RunnerInv
<1>. QED
  BY <1>1, RunnerStarts, RunnerSteps, PTL DEF Spec

\* The same when either client may have made the call: one of git returns no outcome.
THEOREM OutcomesAreWhole == ClientSpec => []OutcomeIsWhole
<1>1. GitInv => ~Returned
  BY DEF GitInv, GitTypeOK, Returned
<1>2. IInv => OutcomeIsWhole
  BY <1>1, InvWhole DEF IInv, OutcomeIsWhole
<1>. QED
  BY <1>2, ClientStarts, ClientSteps, PTL DEF ClientSpec

\* An oracle's verdict is one on all that the command wrote and on how it ended, for any
\* matchers and exit codes.
THEOREM VerdictsAreEarned == ClientSpec => []VerdictIsEarned
<1>1. GitInv => ~Returned
  BY DEF GitInv, GitTypeOK, Returned
<1>2. IInv => VerdictIsEarned
  BY <1>1, InvEarned DEF IInv, VerdictIsEarned
<1>. QED
  BY <1>2, ClientStarts, ClientSteps, PTL DEF ClientSpec

\* When a git command is over for its caller git has ended, unless the call was interrupted
\* after git had written to both streams; and a result holds all that git wrote, within the
\* limits (client.py, _execute_bounded).
THEOREM GitCallsAreOver == ClientSpec => []GitIsOver
<1>1. IInv => GitIsOver
  BY InvOver DEF IInv, GitIsOver
<1>. QED
  BY <1>1, ClientStarts, ClientSteps, PTL DEF ClientSpec

\* The command is never left to wait for the controller before the pipes are closed:
\* some thread's guard holds whenever a pipe has to be emptied or filled for it.
THEOREM CommandsAreServed == ClientSpec => []CommandIsServed
<1>. QED
  BY InvServed, ClientStarts, ClientSteps, PTL DEF ClientSpec

-----------------------------------------------------------------------------
(* Recursion and induction.  The library's theorems about these take operators, which *)
(* the provers do not instantiate; here the step is a function and the induction is   *)
(* over a set.                                                                        *)

\* A function that is given by its first value and a step, or by its last and steps down.
Upwards(f, n, A, base, step) ==
  /\ f \in [0 .. n -> A]
  /\ f[0] = base
  /\ \A i \in 1 .. n : f[i] = step[i][f[i - 1]]

\* By its last value, and each of the others from one further up.
Downwards(f, n, A, base, next, step) ==
  /\ f \in [1 .. n + 1 -> A]
  /\ f[n + 1] = base
  /\ \A i \in 1 .. n : f[i] = step[i][f[next[i]]]

\* Two functions have the same values on a set.
AgreeOn(S, f, g) == \A i \in S : f[i] = g[i]

\* Induction, about a set instead of a formula.
LEMMA SetInduction ==
  ASSUME NEW S, 0 \in S, \A n \in Nat : n \in S => n + 1 \in S
  PROVE  Nat \subseteq S
<1>. DEFINE R == OpToRel(<, Nat)
            T == Nat \ S
<1>1. \A m, n \in Nat : m < n => <<m, n>> \in R
  BY DEF OpToRel
<1>2. IsWellFoundedOn(R, Nat)
  BY NatLessThanWellFounded
<1>. HIDE DEF R
<1>3. ASSUME T # {} PROVE FALSE
  <2>1. PICK x \in T : \A y \in T : ~(<<y, x>> \in R)
    BY <1>2, <1>3, WFMin
  <2>2. x # 0 /\ x - 1 \in Nat /\ x - 1 \notin S
    BY <2>1
  <2>. QED
    <3>1. x - 1 \in T /\ x \in Nat /\ x - 1 < x
      BY <2>2
    <3>2. <<x - 1, x>> \in R
      BY <1>1, <2>2, <3>1
    <3>. QED
      BY <2>1, <3>1, <3>2
<1>. QED
  BY <1>3

\* A function on 0 .. n that is given by its first value and a step exists.
LEMMA ForwardRecursion ==
  ASSUME NEW n \in Nat, NEW A, NEW base \in A, NEW step \in [1 .. n -> [A -> A]]
  PROVE  \E f : Upwards(f, n, A, base, step)
<1>. DEFINE Upto(m, f) == f[0] = base /\ \A i \in 1 .. m : f[i] = step[i][f[i - 1]]
            S == {m \in Nat : m <= n => \E f \in [0 .. m -> A] : Upto(m, f)}
<1>1. 0 \in S
  <2>. DEFINE f == [i \in 0 .. 0 |-> base]
  <2>1. f \in [0 .. 0 -> A] /\ Upto(0, f)
    OBVIOUS
  <2>. QED
    BY <2>1
<1>2. ASSUME NEW m \in Nat, m \in S PROVE m + 1 \in S
  <2>. SUFFICES ASSUME m + 1 <= n PROVE \E f \in [0 .. m + 1 -> A] : Upto(m + 1, f)
    OBVIOUS
  <2>1. PICK g \in [0 .. m -> A] : Upto(m, g)
    BY <1>2
  <2>. DEFINE f == [i \in 0 .. m + 1 |-> IF i = m + 1 THEN step[m + 1][g[m]] ELSE g[i]]
  <2>2. step[m + 1][g[m]] \in A
    OBVIOUS
  <2>3. f \in [0 .. m + 1 -> A]
    BY <2>2
  <2>4. Upto(m + 1, f)
    <3>1. f[0] = base
      BY <2>1
    <3>2. ASSUME NEW i \in 1 .. m + 1 PROVE f[i] = step[i][f[i - 1]]
      <4>1. CASE i = m + 1
        <5>1. f[m + 1] = step[m + 1][g[m]] /\ f[m] = g[m] /\ i - 1 = m
          BY <4>1
        <5>. QED
          BY <4>1, <5>1
      <4>2. CASE i # m + 1
        BY <4>2, <2>1
      <4>. QED
        BY <4>1, <4>2
    <3>. QED
      BY <3>1, <3>2
  <2>. QED
    BY <2>3, <2>4
<1>. HIDE DEF S
<1>3. n \in S
  BY <1>1, <1>2, SetInduction
<1>. QED
  BY <1>3 DEF S, Upwards

\* So does one on 1 .. n + 1 whose every value is given by one further up.
LEMMA BackwardRecursion ==
  ASSUME NEW n \in Nat, NEW A, NEW base \in A, NEW next \in [1 .. n -> 1 .. n + 1],
         \A i \in 1 .. n : next[i] > i, NEW step \in [1 .. n -> [A -> A]]
  PROVE  \E f : Downwards(f, n, A, base, next, step)
<1>. DEFINE From(m, f) ==
              f[n + 1] = base /\ \A i \in m .. n : f[i] = step[i][f[next[i]]]
            S == {k \in Nat : k <= n =>
                    \E f \in [n + 1 - k .. n + 1 -> A] : From(n + 1 - k, f)}
<1>1. 0 \in S
  <2>. DEFINE f == [i \in n + 1 - 0 .. n + 1 |-> base]
  <2>1. f \in [n + 1 - 0 .. n + 1 -> A] /\ From(n + 1 - 0, f)
    OBVIOUS
  <2>. QED
    BY <2>1
<1>2. ASSUME NEW k \in Nat, k \in S PROVE k + 1 \in S
  <2>. SUFFICES ASSUME k + 1 <= n
                PROVE  \E f \in [n + 1 - (k + 1) .. n + 1 -> A] : From(n + 1 - (k + 1), f)
    OBVIOUS
  <2>. DEFINE m == n - k
  <2>0. m \in 1 .. n /\ n + 1 - (k + 1) = m /\ n + 1 - k = m + 1
    OBVIOUS
  <2>1. PICK g \in [m + 1 .. n + 1 -> A] : From(m + 1, g)
    BY <1>2, <2>0
  <2>. HIDE DEF m
  <2>2. next[m] \in m + 1 .. n + 1
    BY <2>0
  <2>3. step[m][g[next[m]]] \in A
    BY <2>0, <2>2
  <2>. DEFINE f == [i \in m .. n + 1 |-> IF i = m THEN step[m][g[next[m]]] ELSE g[i]]
  <2>4. f \in [m .. n + 1 -> A]
    BY <2>0, <2>3
  <2>5. From(m, f)
    <3>1. f[n + 1] = base
      BY <2>0, <2>1
    <3>2. ASSUME NEW i \in m .. n PROVE f[i] = step[i][f[next[i]]]
      <4>1. next[i] \in i + 1 .. n + 1 /\ next[i] # m
        BY <2>0
      <4>2. f[next[i]] = g[next[i]]
        BY <4>1, <2>0
      <4>3. CASE i = m
        <5>1. f[m] = step[m][g[next[m]]]
          BY <2>0
        <5>. QED
          BY <4>2, <4>3, <5>1
      <4>4. CASE i # m
        BY <4>2, <4>4, <2>0, <2>1
      <4>. QED
        BY <4>3, <4>4
    <3>. QED
      BY <3>1, <3>2
  <2>. QED
    BY <2>0, <2>4, <2>5
<1>. HIDE DEF S
<1>3. n \in S
  BY <1>1, <1>2, SetInduction
<1>4. CASE n = 0
  BY <1>3, <1>4 DEF S, Downwards
<1>. QED
  BY <1>3 DEF S, Downwards
\* Two functions are the same on an interval if they are wherever they are before.
LEMMA SameUpwards ==
  ASSUME NEW n \in Nat, NEW f, NEW g, NEW m \in {0, 1}, f[m] = g[m],
         \A i \in m .. n : i # m /\ f[i - 1] = g[i - 1] => f[i] = g[i]
  PROVE  AgreeOn(m .. n, f, g)
<1>. DEFINE S == {i \in Nat : i \in m .. n => f[i] = g[i]}
<1>1. 0 \in S
  OBVIOUS
<1>2. ASSUME NEW i \in Nat, i \in S PROVE i + 1 \in S
  <2>1. CASE i + 1 \in m + 1 .. n
    <3>1. i + 1 \in m .. n /\ i + 1 # m /\ f[(i + 1) - 1] = g[(i + 1) - 1]
      BY <1>2, <2>1
    <3>. QED
      BY <2>1, <3>1
  <2>2. CASE i + 1 \notin m + 1 .. n
    <3>1. i + 1 \in m .. n => i + 1 = m
      BY <2>2
    <3>. QED
      BY <3>1
  <2>. QED
    BY <2>1, <2>2
<1>. HIDE DEF S
<1>3. Nat \subseteq S
  BY <1>1, <1>2, SetInduction
<1>. QED
  BY <1>3 DEF S, AgreeOn

\* The same, from the end downwards.
LEMMA SameDownwards ==
  ASSUME NEW n \in Nat, NEW f, NEW g, f[n + 1] = g[n + 1],
         \A i \in 1 .. n : (\A j \in i + 1 .. n + 1 : f[j] = g[j]) => f[i] = g[i]
  PROVE  AgreeOn(1 .. n + 1, f, g)
<1>. DEFINE S == {k \in Nat : k <= n => \A j \in n + 1 - k .. n + 1 : f[j] = g[j]}
<1>1. 0 \in S
  OBVIOUS
<1>2. ASSUME NEW k \in Nat, k \in S PROVE k + 1 \in S
  <2>. SUFFICES ASSUME k + 1 <= n PROVE \A j \in n + 1 - (k + 1) .. n + 1 : f[j] = g[j]
    OBVIOUS
  <2>. DEFINE m == n - k
  <2>1. m \in 1 .. n /\ n + 1 - (k + 1) = m /\ n + 1 - k = m + 1
    OBVIOUS
  <2>2. \A j \in m + 1 .. n + 1 : f[j] = g[j]
    BY <1>2, <2>1
  <2>. HIDE DEF m
  <2>3. f[m] = g[m]
    BY <2>1, <2>2
  <2>4. \A j \in m .. n + 1 : j = m \/ j \in m + 1 .. n + 1
    BY <2>1
  <2>. QED
    BY <2>1, <2>2, <2>3, <2>4
<1>. HIDE DEF S
<1>3. n \in S
  BY <1>1, <1>2, SetInduction
<1>. QED
  BY <1>3 DEF S, AgreeOn

-----------------------------------------------------------------------------
(* The text of a path.                                                       *)

\* FlattenSeq appends one sequence after the other.
LEMMA FlattenUnfolds ==
  ASSUME NEW C, NEW seqs \in Seq(Seq(C)), seqs # <<>>
  PROVE  \E f \in [1 .. Len(seqs) -> Seq(C)] :
           /\ f[1] = seqs[1]
           /\ \A i \in 2 .. Len(seqs) : f[i] = f[i - 1] \o seqs[i]
           /\ FlattenSeq(seqs) = f[Len(seqs)]
<1>. DEFINE n == Len(seqs)
            step == [i \in 1 .. n |-> [x \in Seq(C) |-> x \o seqs[i]]]
            g(h) == [i \in 1 .. n |-> h[i]]
            P(f) == f = [i \in 1 .. n |-> IF i = 1 THEN seqs[i] ELSE f[i - 1] \o seqs[i]]
            chosen == CHOOSE f : P(f)
<1>1. n \in Nat /\ n # 0 /\ \A i \in 1 .. n : seqs[i] \in Seq(C)
  OBVIOUS
<1>2. FlattenSeq(seqs) = chosen[n]
  BY <1>1 DEF FlattenSeq, n
<1>3. step \in [1 .. n -> [Seq(C) -> Seq(C)]] /\ <<>> \in Seq(C)
  BY <1>1, ConcatProperties
<1>4. \A i \in 1 .. n, x \in Seq(C) : step[i][x] = x \o seqs[i]
  OBVIOUS
<1>. HIDE DEF n, step, chosen
<1>5. PICK h \in [0 .. n -> Seq(C)] :
        h[0] = <<>> /\ \A i \in 1 .. n : h[i] = step[i][h[i - 1]]
  <2>. DEFINE A == Seq(C)
  <2>1. \E h : Upwards(h, n, A, <<>>, step)
    BY <1>1, <1>3, ForwardRecursion
  <2>. QED
    BY <2>1, Zenon DEF Upwards
<1>6. \A i \in 1 .. n : h[i - 1] \in Seq(C) /\ h[i] \in Seq(C)
  BY <1>1
<1>7. \A i \in 1 .. n : h[i] = h[i - 1] \o seqs[i]
  BY <1>4, <1>5, <1>6
<1>8. h[1] = seqs[1]
  <2>1. 1 \in 1 .. n /\ 1 - 1 = 0
    BY <1>1
  <2>2. h[1] = h[1 - 1] \o seqs[1]
    BY <1>7, <2>1
  <2>3. seqs[1] \in Seq(C)
    BY <1>1, <2>1
  <2>4. h[1] = <<>> \o seqs[1]
    BY <1>5, <2>1, <2>2
  <2>. QED
    BY <2>3, <2>4, ConcatEmptySeq
<1>9. P(g(h))
  <2>1. \A i \in 1 .. n : i = 1 \/ (i # 1 /\ i - 1 \in 1 .. n)
    BY <1>1
  <2>2. \A i \in 1 .. n : g(h)[i] = IF i = 1 THEN seqs[i] ELSE g(h)[i - 1] \o seqs[i]
    BY <1>7, <1>8, <2>1
  <2>. QED
    BY <2>2
<1>10. P(chosen)
  BY <1>9 DEF chosen
<1>11. /\ DOMAIN chosen = 1 .. n
       /\ \A i \in 1 .. n : chosen[i] = IF i = 1 THEN seqs[i] ELSE chosen[i - 1] \o seqs[i]
  BY <1>10, Zenon
<1>. HIDE DEF P
<1>12. \A i \in 1 .. n : chosen[i] = h[i]
  <2>1. 1 \in 1 .. n
    BY <1>1
  <2>2. chosen[1] = h[1]
    BY <1>8, <1>11, <2>1
  <2>3. \A i \in 1 .. n : i # 1 /\ chosen[i - 1] = h[i - 1] => chosen[i] = h[i]
    BY <1>7, <1>11
  <2>4. AgreeOn(1 .. n, chosen, h)
    BY <1>1, <2>2, <2>3, SameUpwards
  <2>. QED
    BY <2>4 DEF AgreeOn
<1>13. /\ g(h)[1] = seqs[1]
       /\ \A i \in 2 .. n : g(h)[i] = g(h)[i - 1] \o seqs[i]
       /\ FlattenSeq(seqs) = g(h)[n]
  <2>1. 1 \in 1 .. n /\ n \in 1 .. n /\ \A i \in 2 .. n : i \in 1 .. n /\ i - 1 \in 1 .. n
    BY <1>1
  <2>2. \A i \in 1 .. n : g(h)[i] = h[i]
    OBVIOUS
  <2>. HIDE DEF g
  <2>. QED
    BY <1>2, <1>7, <1>8, <1>12, <2>1, <2>2
<1>14. g(h) \in [1 .. n -> Seq(C)]
  BY <1>6
<1>. QED
  BY <1>13, <1>14 DEF n

\* Where the segments of a path, or pattern, are in its text.
Layout(off, path, text) ==
  /\ off \in [1 .. Len(path) + 1 -> Nat]
  /\ off[1] = 1
  /\ \A k \in 1 .. Len(path) : off[k + 1] = off[k] + Len(path[k]) + 1
  /\ text \in Seq(Char \union {Slash}) /\ Len(text) + 2 = off[Len(path) + 1]
  /\ \A k \in 1 .. Len(path) : \A j \in 1 .. Len(path[k]) : text[off[k] - 1 + j] = path[k][j]
  /\ \A k \in 2 .. Len(path) : text[off[k] - 1] = Slash

\* A path is not empty, nor is any of its segments.
LEMMA PathTypes ==
  ASSUME NEW path \in Path
  PROVE  /\ Len(path) \in Nat /\ Len(path) >= 1
         /\ \A k \in 1 .. Len(path) :
              /\ path[k] \in Seq(Char) /\ Len(path[k]) \in Nat /\ Len(path[k]) >= 1
              /\ \A j \in 1 .. Len(path[k]) : path[k][j] \in Char /\ path[k][j] # Slash
<1>1. path \in Seq(Name) /\ path # <<>>
  BY DEF Path
<1>2. Len(path) \in Nat /\ Len(path) >= 1
  BY <1>1, EmptySeq
<1>3. ASSUME NEW k \in 1 .. Len(path)
      PROVE  path[k] \in Seq(Char) /\ Len(path[k]) \in Nat /\ Len(path[k]) >= 1
  <2>1. path[k] \in Name
    BY <1>1, <1>3
  <2>2. path[k] \in Seq(Char) /\ path[k] # <<>>
    BY <2>1 DEF Name
  <2>. QED
    BY <2>2, EmptySeq
<1>4. ASSUME NEW k \in 1 .. Len(path), NEW j \in 1 .. Len(path[k])
      PROVE  path[k][j] \in Char /\ path[k][j] # Slash
  BY <1>3, PathAssumption
<1>. QED
  BY <1>2, <1>3, <1>4

\* The text is the names of the segments with a slash between them.

\* Where sequences are in what they flatten to.
Placed(off, seqs, flat) ==
  /\ off \in [1 .. Len(seqs) + 1 -> Nat]
  /\ off[1] = 1
  /\ \A k \in 1 .. Len(seqs) : off[k] >= 1 /\ off[k + 1] = off[k] + Len(seqs[k])
  /\ Len(flat) + 1 = off[Len(seqs) + 1]
  /\ \A k \in 1 .. Len(seqs) : \A j \in 1 .. Len(seqs[k]) :
       off[k] - 1 + j \in 1 .. Len(flat) /\ flat[off[k] - 1 + j] = seqs[k][j]

\* A sequence is another one and then a third.
Joined(r, s, t) ==
  /\ Len(r) = Len(s) + Len(t)
  /\ \A p \in 1 .. Len(s) : r[p] = s[p]
  /\ \A p \in 1 .. Len(t) : r[Len(s) + p] = t[p]

\* What a concatenation consists of.
LEMMA ConcatParts ==
  ASSUME NEW C, NEW s \in Seq(C), NEW t \in Seq(C)
  PROVE  s \o t \in Seq(C) /\ Joined(s \o t, s, t)
<1>1. Len(s) \in Nat /\ Len(t) \in Nat
  OBVIOUS
<1>2. /\ s \o t \in Seq(C) /\ Len(s \o t) = Len(s) + Len(t)
      /\ \A p \in 1 .. Len(s) + Len(t) : (s \o t)[p] = IF p <= Len(s) THEN s[p] ELSE t[p - Len(s)]
  BY ConcatProperties
<1>3. \A p \in 1 .. Len(s) : p \in 1 .. Len(s) + Len(t) /\ p <= Len(s)
  BY <1>1
<1>4. \A p \in 1 .. Len(t) : /\ Len(s) + p \in 1 .. Len(s) + Len(t)
                             /\ (Len(s) + p) - Len(s) = p /\ ~ (Len(s) + p <= Len(s))
  BY <1>1
<1>. QED
  BY <1>2, <1>3, <1>4 DEF Joined

\* The sequences follow each other, without a gap, in what they flatten to.
LEMMA FlattenPlaces ==
  ASSUME NEW C, NEW seqs \in Seq(Seq(C)), seqs # <<>>
  PROVE  FlattenSeq(seqs) \in Seq(C) /\ \E off : Placed(off, seqs, FlattenSeq(seqs))
<1>. DEFINE K == Len(seqs)
<1>1. K \in Nat /\ K >= 1 /\ \A k \in 1 .. K : seqs[k] \in Seq(C) /\ Len(seqs[k]) \in Nat
  BY EmptySeq
<1>2. PICK f \in [1 .. K -> Seq(C)] :
        /\ f[1] = seqs[1]
        /\ \A i \in 2 .. K : f[i] = f[i - 1] \o seqs[i]
        /\ FlattenSeq(seqs) = f[K]
  BY FlattenUnfolds
<1>. HIDE DEF K
<1>3. \A i \in 1 .. K : f[i] \in Seq(C) /\ Len(f[i]) \in Nat
  BY <1>1
<1>. DEFINE off == [k \in 1 .. K + 1 |-> IF k = 1 THEN 1 ELSE Len(f[k - 1]) + 1]
<1>4. off \in [1 .. K + 1 -> Nat] /\ off[1] = 1
  BY <1>1, <1>3
<1>5. \A k \in 1 .. K : off[k + 1] = Len(f[k]) + 1
  BY <1>1
<1>. HIDE DEF off
<1>6. \A k \in 1 .. K : k # 1 => /\ k - 1 \in 1 .. K /\ k \in 2 .. K /\ (k - 1) + 1 = k
                                 /\ off[k] = Len(f[k - 1]) + 1
  <2>1. \A k \in 1 .. K : k # 1 => k - 1 \in 1 .. K /\ k \in 2 .. K /\ (k - 1) + 1 = k
    BY <1>1
  <2>. QED
    BY <1>5, <2>1
<1>7. \A k \in 1 .. K : off[k] \in Nat /\ off[k] >= 1
  <2>1. SUFFICES ASSUME NEW k \in 1 .. K PROVE off[k] \in Nat /\ off[k] >= 1
    OBVIOUS
  <2>2. CASE k = 1
    BY <1>4, <2>2
  <2>3. CASE k # 1
    <3>1. off[k] = Len(f[k - 1]) + 1 /\ Len(f[k - 1]) \in Nat
      BY <1>3, <1>6, <2>3
    <3>. QED
      BY <3>1
  <2>. QED
    BY <2>2, <2>3
\* What each sequence adds.
<1>8. ASSUME NEW k \in 1 .. K
      PROVE  /\ Len(f[k]) = off[k] - 1 + Len(seqs[k])
             /\ k # 1 => \A p \in 1 .. Len(f[k - 1]) : f[k][p] = f[k - 1][p]
             /\ \A j \in 1 .. Len(seqs[k]) : f[k][off[k] - 1 + j] = seqs[k][j]
  <2>1. CASE k = 1
    <3>1. f[k] = seqs[k] /\ off[k] = 1 /\ Len(seqs[k]) \in Nat
      BY <1>1, <1>2, <1>4, <2>1
    <3>2. \A j \in 1 .. Len(seqs[k]) : off[k] - 1 + j = j
      BY <3>1
    <3>3. off[k] - 1 + Len(seqs[k]) = Len(seqs[k])
      BY <3>1
    <3>. QED
      BY <2>1, <3>1, <3>2, <3>3
  <2>2. CASE k # 1
    <3>. DEFINE before == f[k - 1]
    <3>1. /\ before \in Seq(C) /\ Len(before) \in Nat /\ off[k] = Len(before) + 1
          /\ f[k] = before \o seqs[k] /\ seqs[k] \in Seq(C) /\ Len(seqs[k]) \in Nat
      BY <1>1, <1>2, <1>3, <1>6, <2>2
    <3>. HIDE DEF before
    <3>2. off[k] - 1 = Len(before)
      BY <3>1
    <3>3. /\ Len(f[k]) = Len(before) + Len(seqs[k])
          /\ \A p \in 1 .. Len(before) : f[k][p] = before[p]
          /\ \A p \in 1 .. Len(seqs[k]) : f[k][Len(before) + p] = seqs[k][p]
      BY <3>1, ConcatParts DEF Joined
    <3>. QED
      BY <3>2, <3>3 DEF before
  <2>. QED
    BY <2>1, <2>2
\* All that is added stays where it is.
<1>. DEFINE In(i) == \A k \in 1 .. i : \A j \in 1 .. Len(seqs[k]) :
                        /\ off[k] - 1 + j \in 1 .. Len(f[i])
                        /\ f[i][off[k] - 1 + j] = seqs[k][j]
            S == {i \in Nat : i \in 1 .. K => In(i)}
<1>9. 0 \in S
  OBVIOUS
<1>10. ASSUME NEW i \in Nat, i \in S PROVE i + 1 \in S
  <2>. DEFINE m == i + 1
  <2>. SUFFICES ASSUME m \in 1 .. K PROVE In(m)
    OBVIOUS
  <2>1. i = 0 \/ (m # 1 /\ m - 1 = i /\ i \in 1 .. K)
    BY <1>1
  <2>2. i \in 1 .. K => In(i)
    <3>. HIDE DEF In
    <3>. QED
      BY <1>10
  <2>3. \A k \in 1 .. m : k = m \/ (k \in 1 .. i /\ i # 0)
    OBVIOUS
  <2>. SUFFICES ASSUME NEW k \in 1 .. m, NEW j \in 1 .. Len(seqs[k])
                PROVE  /\ off[k] - 1 + j \in 1 .. Len(f[m])
                       /\ f[m][off[k] - 1 + j] = seqs[k][j]
    OBVIOUS
  <2>4. k \in 1 .. K /\ Len(seqs[k]) \in Nat /\ off[k] \in Nat /\ off[k] >= 1
    <3>1. k \in 1 .. K
      BY <1>1
    <3>. QED
      BY <1>1, <1>7, <3>1
  <2>5. CASE k = m
    <3>1. Len(f[k]) = off[k] - 1 + Len(seqs[k]) /\ f[k][off[k] - 1 + j] = seqs[k][j]
      BY <1>8, <2>4
    <3>2. \A x, y \in Nat : \A z \in 1 .. y : x >= 1 => x - 1 + z \in 1 .. x - 1 + y
      OBVIOUS
    <3>3. off[k] - 1 + j \in 1 .. off[k] - 1 + Len(seqs[k])
      BY <2>4, <3>2
    <3>. QED
      BY <2>5, <3>1, <3>3
  <2>6. CASE k # m
    <3>. HIDE DEF m
    <3>1. k \in 1 .. i /\ i \in 1 .. K /\ m - 1 = i /\ m # 1 /\ m \in 1 .. K
      BY <2>1, <2>3, <2>6
    <3>2. off[k] - 1 + j \in 1 .. Len(f[i]) /\ f[i][off[k] - 1 + j] = seqs[k][j]
      BY <2>2, <3>1
    <3>3. Len(f[i]) \in Nat /\ \A p \in 1 .. Len(f[i]) : f[m][p] = f[i][p]
      BY <1>3, <1>8, <3>1
    <3>4. \A p \in 1 .. Len(f[i]) : p \in 1 .. Len(f[m])
      <4>1. /\ off[m] = Len(f[i]) + 1 /\ Len(f[m]) = off[m] - 1 + Len(seqs[m])
            /\ Len(seqs[m]) \in Nat
        BY <1>1, <1>6, <1>8, <3>1
      <4>2. \A x, y \in Nat : \A p \in 1 .. x : p \in 1 .. (x + 1) - 1 + y
        OBVIOUS
      <4>. QED
        BY <3>3, <4>1, <4>2
    <3>. QED
      BY <3>2, <3>3, <3>4
  <2>. QED
    BY <2>5, <2>6
<1>. HIDE DEF S
<1>11. K \in S
  BY <1>1, <1>9, <1>10, SetInduction
<1>12. In(K)
  BY <1>1, <1>11 DEF S
<1>13. \A k \in 1 .. K : off[k] >= 1 /\ off[k + 1] = off[k] + Len(seqs[k])
  <2>1. SUFFICES ASSUME NEW k \in 1 .. K
                 PROVE  off[k] >= 1 /\ off[k + 1] = off[k] + Len(seqs[k])
    OBVIOUS
  <2>2. \A x, y \in Nat : x - 1 + y + 1 = x + y
    OBVIOUS
  <2>3. off[k + 1] = off[k] - 1 + Len(seqs[k]) + 1
    BY <1>5, <1>8
  <2>4. off[k] \in Nat /\ off[k] >= 1 /\ Len(seqs[k]) \in Nat
    BY <1>1, <1>7
  <2>. QED
    BY <2>2, <2>3, <2>4
<1>14. K \in 1 .. K
  BY <1>1
<1>15. Len(f[K]) + 1 = off[K + 1]
  BY <1>5, <1>14
<1>16. Placed(off, seqs, f[K])
  <2>1. \A k \in 1 .. K : \A j \in 1 .. Len(seqs[k]) :
          off[k] - 1 + j \in 1 .. Len(f[K]) /\ f[K][off[k] - 1 + j] = seqs[k][j]
    BY <1>12
  <2>. HIDE DEF In
  <2>. QED
    BY <1>4, <1>13, <1>15, <2>1 DEF Placed, K
<1>. QED
  BY <1>2, <1>3, <1>14, <1>16

\* The text of a path is its names with one slash between each and the next.
LEMMA TextLayout ==
  ASSUME NEW path \in Path
  PROVE  \E off : Layout(off, path, Text(path))
<1>. DEFINE K == Len(path)
            C == Char \union {Slash}
            seqs == [i \in DOMAIN path |-> <<Slash>> \o path[i]]
            flat == FlattenSeq(seqs)
            text == Tail(flat)
<1>1. K \in Nat /\ K >= 1 /\ DOMAIN path = 1 .. K
  BY PathTypes DEF Path
<1>2. /\ \A k \in 1 .. K : path[k] \in Seq(C) /\ Len(path[k]) \in Nat
      /\ <<Slash>> \in Seq(C) /\ Len(<<Slash>>) = 1 /\ <<Slash>>[1] = Slash
  BY PathTypes
<1>. HIDE DEF K, C
<1>3. \A k \in 1 .. K :
        /\ seqs[k] \in Seq(C) /\ Len(seqs[k]) = Len(path[k]) + 1
        /\ seqs[k][1] = Slash
        /\ \A j \in 1 .. Len(path[k]) : seqs[k][j + 1] = path[k][j]
  <2>. SUFFICES ASSUME NEW k \in 1 .. K
                PROVE  /\ <<Slash>> \o path[k] \in Seq(C)
                       /\ Len(<<Slash>> \o path[k]) = Len(path[k]) + 1
                       /\ (<<Slash>> \o path[k])[1] = Slash
                       /\ \A j \in 1 .. Len(path[k]) : (<<Slash>> \o path[k])[j + 1] = path[k][j]
    BY <1>1
  <2>. QED
    BY <1>2
<1>4. seqs \in Seq(Seq(C)) /\ seqs # <<>> /\ Len(seqs) = K
  <2>1. seqs \in [1 .. K -> Seq(C)]
    BY <1>1, <1>3
  <2>. HIDE DEF seqs
  <2>2. seqs \in Seq(Seq(C)) /\ Len(seqs) = K
    BY <2>1, <1>1
  <2>. QED
    BY <2>2, <1>1, EmptySeq
<1>5. Text(path) = text
  BY DEF Text
<1>. HIDE DEF seqs, flat
<1>6. flat \in Seq(C) /\ \E off : Placed(off, seqs, flat)
  BY <1>4, FlattenPlaces DEF flat
<1>7. PICK off : Placed(off, seqs, flat)
  BY <1>6
<1>8. /\ off \in [1 .. K + 1 -> Nat] /\ off[1] = 1 /\ Len(flat) + 1 = off[K + 1]
      /\ \A k \in 1 .. K : off[k] >= 1 /\ off[k + 1] = off[k] + Len(seqs[k])
      /\ \A k \in 1 .. K : \A j \in 1 .. Len(seqs[k]) :
           off[k] - 1 + j \in 1 .. Len(flat) /\ flat[off[k] - 1 + j] = seqs[k][j]
  BY <1>4, <1>7 DEF Placed
<1>9. \A k \in 1 .. K : off[k] \in Nat /\ off[k] >= 1 /\ off[k + 1] = off[k] + Len(path[k]) + 1
  <2>1. SUFFICES ASSUME NEW k \in 1 .. K
                 PROVE  /\ off[k] \in Nat /\ off[k] >= 1
                        /\ off[k + 1] = off[k] + Len(path[k]) + 1
    OBVIOUS
  <2>2. off[k] \in Nat
    <3>1. k \in 1 .. K + 1
      BY <1>1
    <3>. QED
      BY <1>8, <3>1
  <2>3. \A x, y \in Nat : x + (y + 1) = x + y + 1
    OBVIOUS
  <2>. QED
    BY <1>2, <1>3, <1>8, <2>2, <2>3
\* The character after the slash of a name, in the flat sequence.
<1>10. ASSUME NEW k \in 1 .. K
       PROVE  /\ off[k] \in 1 .. Len(flat) /\ flat[off[k]] = Slash
              /\ \A j \in 1 .. Len(path[k]) :
                   off[k] + j \in 1 .. Len(flat) /\ flat[off[k] + j] = path[k][j]
  <2>1. Len(seqs[k]) = Len(path[k]) + 1 /\ Len(path[k]) \in Nat /\ off[k] \in Nat
    BY <1>2, <1>3, <1>9
  <2>2. 1 \in 1 .. Len(seqs[k]) /\ off[k] - 1 + 1 = off[k]
    BY <2>1
  <2>3. off[k] \in 1 .. Len(flat) /\ flat[off[k]] = Slash
    BY <1>3, <1>8, <2>2
  <2>4. ASSUME NEW j \in 1 .. Len(path[k])
        PROVE  off[k] + j \in 1 .. Len(flat) /\ flat[off[k] + j] = path[k][j]
    <3>. DEFINE i == j + 1
    <3>1. i \in 1 .. Len(seqs[k]) /\ off[k] - 1 + i = off[k] + j
      BY <2>1
    <3>2. seqs[k][i] = path[k][j]
      BY <1>3
    <3>. HIDE DEF i
    <3>. QED
      BY <1>8, <3>1, <3>2
  <2>. QED
    BY <2>3, <2>4
<1>11. Len(flat) \in Nat /\ Len(flat) >= 1 /\ flat # <<>>
  <2>1. 1 \in 1 .. K
    BY <1>1
  <2>2. Len(flat) \in Nat
    BY <1>6
  <2>3. Len(flat) >= 1
    BY <1>10, <2>1, <2>2
  <2>. QED
    BY <2>2, <2>3, EmptySeq
<1>12. text \in Seq(C) /\ Len(text) = Len(flat) - 1 /\ \A p \in 1 .. Len(text) : text[p] = flat[p + 1]
  BY <1>6, <1>11, HeadTailProperties
<1>. HIDE DEF text
<1>13. Len(text) + 2 = off[K + 1]
  BY <1>8, <1>11, <1>12
<1>14. ASSUME NEW k \in 1 .. K, NEW j \in 1 .. Len(path[k])
       PROVE  text[off[k] - 1 + j] = path[k][j]
  <2>1. off[k] + j \in 1 .. Len(flat) /\ flat[off[k] + j] = path[k][j]
    BY <1>10
  <2>2. off[k] \in Nat /\ off[k] >= 1 /\ Len(path[k]) \in Nat
    BY <1>2, <1>9
  <2>. DEFINE p == off[k] - 1 + j
  <2>3. p \in 1 .. Len(text) /\ p + 1 = off[k] + j
    BY <1>11, <1>12, <2>1, <2>2
  <2>. HIDE DEF p
  <2>4. text[p] = path[k][j]
    BY <1>12, <2>1, <2>3
  <2>. QED
    BY <2>4 DEF p
<1>15. ASSUME NEW k \in 2 .. K PROVE text[off[k] - 1] = Slash
  <2>1. k \in 1 .. K /\ k - 1 \in 1 .. K /\ (k - 1) + 1 = k
    BY <1>1
  <2>2. off[k] \in 1 .. Len(flat) /\ flat[off[k]] = Slash
    BY <1>10, <2>1
  <2>3. off[k] >= 2
    <3>1. /\ off[k - 1] \in Nat /\ off[k - 1] >= 1 /\ Len(path[k - 1]) \in Nat
          /\ off[k] = off[k - 1] + Len(path[k - 1]) + 1
      <4>1. off[(k - 1) + 1] = off[k - 1] + Len(path[k - 1]) + 1
        BY <1>9, <2>1
      <4>. QED
        BY <1>2, <1>9, <2>1, <4>1
    <3>. QED
      BY <3>1
  <2>. DEFINE p == off[k] - 1
  <2>4. p \in 1 .. Len(text) /\ p + 1 = off[k]
    BY <1>11, <1>12, <2>2, <2>3
  <2>. HIDE DEF p
  <2>5. text[p] = Slash
    BY <1>12, <2>2, <2>4
  <2>. QED
    BY <2>5 DEF p
<1>16. Layout(off, path, text)
  <2>1. \A k \in 1 .. K : off[k + 1] = off[k] + Len(path[k]) + 1
    BY <1>9
  <2>. QED
    BY <1>8, <1>12, <1>13, <1>14, <1>15, <2>1 DEF Layout, K, C
<1>. QED
  BY <1>5, <1>16

-----------------------------------------------------------------------------
(* What the policy's recursive functions compute.                            *)

\* What NameGlobs, Globs and FullMatch compute on the way.
NameMove(symbol, name, j, k) ==
  CASE symbol = "*" -> k >= j
    [] symbol = "?" -> k = j + 1
    [] OTHER -> k = j + 1 /\ name[j] = symbol

\* The positions of a name that NameGlobs reaches with the first characters of a segment.
NameReached(r, segment, name) ==
  /\ r \in [0 .. Len(segment) -> SUBSET (1 .. Len(name) + 1)]
  /\ r[0] = {1}
  /\ \A i \in 1 .. Len(segment) :
       r[i] = {k \in 1 .. Len(name) + 1 : \E j \in r[i - 1] : NameMove(segment[i], name, j, k)}
  /\ NameGlobs(segment, name) <=> Len(name) + 1 \in r[Len(segment)]

\* From which segment of a path to which a segment of a pattern leads.
SegmentMove(pattern, i, path, j, k) ==
  IF pattern[i] = TwoStars
  THEN k > j \/ (k = j /\ i < Len(pattern))
  ELSE k = j + 1 /\ NameGlobs(pattern[i], path[j])

\* The segments of a path that Globs reaches with the first segments of a pattern.
Reached(r, pattern, path) ==
  /\ r \in [0 .. Len(pattern) -> SUBSET (1 .. Len(path) + 1)]
  /\ r[0] = {1}
  /\ \A i \in 1 .. Len(pattern) :
       r[i] = {k \in 1 .. Len(path) + 1 : \E j \in r[i - 1] : SegmentMove(pattern, i, path, j, k)}
  /\ Globs(pattern, path) <=>
       \/ Len(path) + 1 \in r[Len(pattern)]
       \/ ~ Wild(pattern) /\ r[Len(pattern)] # {}

\* Where a set of positions leaves to through an atom.
Onto(atom, text, positions) == UNION {LeavesTo(atom, text, j) : j \in positions}

\* The positions of a text that FullMatch reaches with the first atoms.
Matching(r, atoms, text) ==
  /\ r \in [0 .. Len(atoms) -> SUBSET Nat]
  /\ r[0] = {1}
  /\ \A i \in 1 .. Len(atoms) : r[i] = Onto(atoms[i], text, r[i - 1])
  /\ FullMatch(atoms, text) <=> Len(text) + 1 \in r[Len(atoms)]

\* NameGlobs is computed position by position,
LEMMA NameGlobsUnfolds ==
  ASSUME NEW segment, NEW name, Len(segment) \in Nat, Len(name) \in Nat
  PROVE  \E r : NameReached(r, segment, name)
<1>. DEFINE n == Len(segment)
            rest == 1 .. Len(name) + 1
            After(i, x) == {k \in rest : \E j \in x : NameMove(segment[i], name, j, k)}
            step == [i \in 1 .. n |-> [x \in SUBSET rest |-> After(i, x)]]
            P(f) == f = [i \in 0 .. n |-> IF i = 0 THEN {1} ELSE After(i, f[i - 1])]
            chosen == CHOOSE f : P(f)
<1>1. NameGlobs(segment, name) <=> Len(name) + 1 \in chosen[n]
  BY DEF NameGlobs, NameMove
<1>2. n \in Nat /\ {1} \in SUBSET rest
  OBVIOUS
<1>. HIDE DEF rest, n, chosen
<1>3. step \in [1 .. n -> [SUBSET rest -> SUBSET rest]]
  OBVIOUS
<1>4. \A i \in 1 .. n, x \in SUBSET rest : step[i][x] = After(i, x)
  OBVIOUS
<1>. HIDE DEF step, After
<1>5. PICK h : Upwards(h, n, SUBSET rest, {1}, step)
  BY <1>2, <1>3, ForwardRecursion
<1>6. h \in [0 .. n -> SUBSET rest] /\ h[0] = {1} /\ \A i \in 1 .. n : h[i] = step[i][h[i - 1]]
  BY <1>5 DEF Upwards
<1>7. \A i \in 1 .. n : i \in 0 .. n /\ i # 0 /\ i - 1 \in 0 .. n
  BY <1>2
<1>8. \A i \in 1 .. n : h[i] = After(i, h[i - 1])
  BY <1>4, <1>6, <1>7
<1>9. P(h)
  <2>1. \A i \in 0 .. n : i = 0 \/ i \in 1 .. n
    BY <1>2
  <2>2. \A i \in 0 .. n : h[i] = IF i = 0 THEN {1} ELSE After(i, h[i - 1])
    BY <1>6, <1>7, <1>8, <2>1
  <2>. QED
    BY <1>6, <2>2
<1>10. P(chosen)
  BY <1>9 DEF chosen
<1>11. /\ DOMAIN chosen = 0 .. n
       /\ \A i \in 0 .. n : chosen[i] = IF i = 0 THEN {1} ELSE After(i, chosen[i - 1])
  BY <1>10, Zenon
<1>12. AgreeOn(0 .. n, chosen, h)
  <2>1. 0 \in 0 .. n
    BY <1>2
  <2>2. chosen[0] = h[0]
    BY <1>6, <1>11, <2>1
  <2>3. \A i \in 0 .. n : i # 0 /\ chosen[i - 1] = h[i - 1] => chosen[i] = h[i]
    <3>1. \A i \in 0 .. n : i # 0 => i \in 1 .. n
      BY <1>2
    <3>. QED
      BY <1>8, <1>11, <3>1
  <2>. HIDE DEF P
  <2>. QED
    BY <1>2, <2>2, <2>3, SameUpwards
<1>13. chosen[n] = h[n]
  BY <1>2, <1>12 DEF AgreeOn
<1>14. NameReached(h, segment, name)
  BY <1>1, <1>6, <1>8, <1>13 DEF NameReached, n, rest, After
<1>. QED
  BY <1>14

\* Globs segment by segment,
LEMMA GlobsUnfolds ==
  ASSUME NEW pattern, NEW path, Len(pattern) \in Nat, Len(path) \in Nat
  PROVE  \E r : Reached(r, pattern, path)
<1>. DEFINE n == Len(pattern)
            rest == 1 .. Len(path) + 1
            After(i, x) == {k \in rest : \E j \in x : SegmentMove(pattern, i, path, j, k)}
            step == [i \in 1 .. n |-> [x \in SUBSET rest |-> After(i, x)]]
            P(f) == f = [i \in 0 .. n |-> IF i = 0 THEN {1} ELSE After(i, f[i - 1])]
            chosen == CHOOSE f : P(f)
<1>1. Globs(pattern, path) <=>
        Len(path) + 1 \in chosen[n] \/ (~ Wild(pattern) /\ chosen[n] # {})
  BY DEF Globs, SegmentMove
<1>2. n \in Nat /\ {1} \in SUBSET rest
  OBVIOUS
<1>. HIDE DEF rest, n, chosen
<1>3. step \in [1 .. n -> [SUBSET rest -> SUBSET rest]]
  OBVIOUS
<1>4. \A i \in 1 .. n, x \in SUBSET rest : step[i][x] = After(i, x)
  OBVIOUS
<1>. HIDE DEF step, After
<1>5. PICK h : Upwards(h, n, SUBSET rest, {1}, step)
  BY <1>2, <1>3, ForwardRecursion
<1>6. h \in [0 .. n -> SUBSET rest] /\ h[0] = {1} /\ \A i \in 1 .. n : h[i] = step[i][h[i - 1]]
  BY <1>5 DEF Upwards
<1>7. \A i \in 1 .. n : i \in 0 .. n /\ i # 0 /\ i - 1 \in 0 .. n
  BY <1>2
<1>8. \A i \in 1 .. n : h[i] = After(i, h[i - 1])
  BY <1>4, <1>6, <1>7
<1>9. P(h)
  <2>1. \A i \in 0 .. n : i = 0 \/ i \in 1 .. n
    BY <1>2
  <2>2. \A i \in 0 .. n : h[i] = IF i = 0 THEN {1} ELSE After(i, h[i - 1])
    BY <1>6, <1>7, <1>8, <2>1
  <2>. QED
    BY <1>6, <2>2
<1>10. P(chosen)
  BY <1>9 DEF chosen
<1>11. /\ DOMAIN chosen = 0 .. n
       /\ \A i \in 0 .. n : chosen[i] = IF i = 0 THEN {1} ELSE After(i, chosen[i - 1])
  BY <1>10, Zenon
<1>12. AgreeOn(0 .. n, chosen, h)
  <2>1. 0 \in 0 .. n
    BY <1>2
  <2>2. chosen[0] = h[0]
    BY <1>6, <1>11, <2>1
  <2>3. \A i \in 0 .. n : i # 0 /\ chosen[i - 1] = h[i - 1] => chosen[i] = h[i]
    <3>1. \A i \in 0 .. n : i # 0 => i \in 1 .. n
      BY <1>2
    <3>. QED
      BY <1>8, <1>11, <3>1
  <2>. HIDE DEF P
  <2>. QED
    BY <1>2, <2>2, <2>3, SameUpwards
<1>13. chosen[n] = h[n]
  BY <1>2, <1>12 DEF AgreeOn
<1>14. Reached(h, pattern, path)
  BY <1>1, <1>6, <1>8, <1>13 DEF Reached, n, rest, After
<1>. QED
  BY <1>14
\* Every atom leaves to a later position.
LEMMA LeavesOnwards ==
  ASSUME NEW atom, NEW text, NEW j \in Nat, Len(text) \in Nat
  PROVE  LeavesTo(atom, text, j) \in SUBSET Nat
BY DEF LeavesTo

\* and FullMatch atom by atom.
LEMMA FullMatchUnfolds ==
  ASSUME NEW atoms, NEW text, Len(atoms) \in Nat, Len(text) \in Nat
  PROVE  \E r : Matching(r, atoms, text)
<1>. DEFINE n == Len(atoms)
            After(i, x) == Onto(atoms[i], text, x)
            step == [i \in 1 .. n |-> [x \in SUBSET Nat |-> After(i, x)]]
            P(f) == f = [i \in 0 .. n |-> IF i = 0 THEN {1} ELSE After(i, f[i - 1])]
            chosen == CHOOSE f : P(f)
<1>1. FullMatch(atoms, text) <=> Len(text) + 1 \in chosen[n]
  BY DEF FullMatch, Onto
<1>2. n \in Nat /\ {1} \in SUBSET Nat
  OBVIOUS
<1>. HIDE DEF n, chosen
<1>3. step \in [1 .. n -> [SUBSET Nat -> SUBSET Nat]]
  BY LeavesOnwards DEF Onto
<1>4. \A i \in 1 .. n, x \in SUBSET Nat : step[i][x] = After(i, x)
  OBVIOUS
<1>. HIDE DEF step, After
<1>5. PICK h : Upwards(h, n, SUBSET Nat, {1}, step)
  BY <1>2, <1>3, ForwardRecursion
<1>6. h \in [0 .. n -> SUBSET Nat] /\ h[0] = {1} /\ \A i \in 1 .. n : h[i] = step[i][h[i - 1]]
  BY <1>5 DEF Upwards
<1>7. \A i \in 1 .. n : i \in 0 .. n /\ i # 0 /\ i - 1 \in 0 .. n
  BY <1>2
<1>8. \A i \in 1 .. n : h[i] = After(i, h[i - 1])
  BY <1>4, <1>6, <1>7
<1>9. P(h)
  <2>1. \A i \in 0 .. n : i = 0 \/ i \in 1 .. n
    BY <1>2
  <2>2. \A i \in 0 .. n : h[i] = IF i = 0 THEN {1} ELSE After(i, h[i - 1])
    BY <1>6, <1>7, <1>8, <2>1
  <2>. QED
    BY <1>6, <2>2
<1>10. P(chosen)
  BY <1>9 DEF chosen
<1>11. /\ DOMAIN chosen = 0 .. n
       /\ \A i \in 0 .. n : chosen[i] = IF i = 0 THEN {1} ELSE After(i, chosen[i - 1])
  BY <1>10, Zenon
<1>12. AgreeOn(0 .. n, chosen, h)
  <2>1. 0 \in 0 .. n
    BY <1>2
  <2>2. chosen[0] = h[0]
    BY <1>6, <1>11, <2>1
  <2>3. \A i \in 0 .. n : i # 0 /\ chosen[i - 1] = h[i - 1] => chosen[i] = h[i]
    <3>1. \A i \in 0 .. n : i # 0 => i \in 1 .. n
      BY <1>2
    <3>. QED
      BY <1>8, <1>11, <3>1
  <2>. HIDE DEF P
  <2>. QED
    BY <1>2, <2>2, <2>3, SameUpwards
<1>13. chosen[n] = h[n]
  BY <1>2, <1>12 DEF AgreeOn
<1>14. Matching(h, atoms, text)
  BY <1>1, <1>6, <1>8, <1>13 DEF Matching, n, After
<1>. QED
  BY <1>14

\* The characters of a prefix stand in a text from a position on.
StandsAt(prefix, text, i) ==
  /\ i + Len(prefix) <= Len(text) + 1
  /\ \A x \in 1 .. Len(prefix) : prefix[x] = text[i + x - 1]

\* StartsWith compares characters.
LEMMA StartsWithChars ==
  ASSUME NEW S, NEW prefix \in Seq(S), NEW text \in Seq(S), NEW i \in 1 .. Len(text)
  PROVE  StartsWith(prefix, text, i) <=> StandsAt(prefix, text, i)
<1>. DEFINE t == SubSeq(text, i, Len(text))
            p == Len(prefix)
<1>1. p \in Nat /\ Len(text) \in Nat
  OBVIOUS
<1>2. t \in Seq(S) /\ Len(t) = Len(text) - i + 1 /\ \A x \in 1 .. Len(t) : t[x] = text[i + x - 1]
  BY <1>1, SubSeqProperties
<1>3. SubSeq(prefix, 1, p) = prefix
  BY SubSeqFull
<1>4. StartsWith(prefix, text, i) <=> p <= Len(t) /\ prefix = SubSeq(t, 1, p)
  BY <1>3 DEF StartsWith, IsPrefix
<1>. HIDE DEF t, p
<1>5. ASSUME p <= Len(t)
      PROVE  prefix = SubSeq(t, 1, p) <=> \A x \in 1 .. p : prefix[x] = text[i + x - 1]
  <2>. DEFINE u == SubSeq(t, 1, p)
  <2>1. Len(t) \in Nat
    BY <1>2
  <2>2. u \in Seq(S) /\ Len(u) = p /\ \A x \in 1 .. p : u[x] = t[x]
    BY <1>1, <1>2, <1>5, <2>1, SubSeqProperties
  <2>. HIDE DEF u
  <2>3. \A x \in 1 .. p : u[x] = text[i + x - 1]
    <3>1. \A x \in 1 .. p : x \in 1 .. Len(t)
      BY <1>1, <1>5, <2>1
    <3>. QED
      BY <1>2, <2>2, <3>1
  <2>4. prefix = u <=> \A x \in 1 .. p : prefix[x] = u[x]
    BY <1>1, <2>2, SeqEqual DEF p
  <2>. QED
    BY <2>3, <2>4 DEF u
<1>. QED
  BY <1>1, <1>2, <1>4, <1>5 DEF p, StandsAt

\* Two stars and a slash, two stars, one star or another character.
LEMMA AtomTypes ==
  ASSUME NEW text \in Seq(Char \union {Slash}), NEW i \in 1 .. Len(text)
  PROVE  /\ AtomAt(text, i)[1] \in Char \union {Slash, Folders, Anything, WithinName, OneOfName}
         /\ AtomAt(text, i)[2] \in 1 .. Len(text) + 1 - i
<1>. DEFINE C == Char \union {Slash, "*"}
<1>1. text \in Seq(C) /\ text[i] \in Char \union {Slash} /\ Len(text) \in Nat
  OBVIOUS
<1>2. /\ TwoStars \in Seq(C) /\ Len(TwoStars) = 2
      /\ Append(TwoStars, Slash) \in Seq(C) /\ Len(Append(TwoStars, Slash)) = 3
  BY DEF TwoStars
<1>. HIDE DEF C
<1>3. StartsWith(TwoStars, text, i) => i + 2 <= Len(text) + 1
  BY <1>1, <1>2, StartsWithChars DEF StandsAt
<1>4. StartsWith(Append(TwoStars, Slash), text, i) => i + 3 <= Len(text) + 1
  BY <1>1, <1>2, StartsWithChars DEF StandsAt
<1>. QED
  BY <1>1, <1>3, <1>4 DEF AtomAt

\* The text of a pattern is translated atom by atom.
Compiles(atoms, text) ==
  /\ \A i \in 1 .. Len(text) + 1 :
       atoms[i] \in Seq(Char \union {Slash, Folders, Anything, WithinName, OneOfName})
  /\ atoms[Len(text) + 1] = <<>>
  /\ \A i \in 1 .. Len(text) :
       atoms[i] = <<AtomAt(text, i)[1]>> \o atoms[i + AtomAt(text, i)[2]]
  /\ Compiled(text) = IF \E i \in DOMAIN text : text[i] \in {"*", "?"} THEN atoms[1]
                      ELSE Append(atoms[1], AndBelow)

\* Compiled goes through the text of a pattern from the end.
LEMMA CompiledUnfolds ==
  ASSUME NEW text \in Seq(Char \union {Slash})
  PROVE  \E atoms : Compiles(atoms, text)
<1>. DEFINE n == Len(text)
            A == Char \union {Slash, Folders, Anything, WithinName, OneOfName}
            next == [i \in 1 .. n |-> i + AtomAt(text, i)[2]]
            step == [i \in 1 .. n |-> [x \in Seq(A) |-> <<AtomAt(text, i)[1]>> \o x]]
            P(f) == f = [i \in 1 .. n + 1 |->
                           IF i = n + 1 THEN <<>>
                           ELSE <<AtomAt(text, i)[1]>> \o f[i + AtomAt(text, i)[2]]]
            chosen == CHOOSE f : P(f)
            wild == \E i \in DOMAIN text : text[i] \in {"*", "?"}
<1>1. Compiled(text) = IF wild THEN chosen[1] ELSE Append(chosen[1], AndBelow)
  BY DEF Compiled
<1>2. n \in Nat /\ \A i \in 1 .. n : <<AtomAt(text, i)[1]>> \in Seq(A) /\ AtomAt(text, i)[2] \in 1 .. n + 1 - i
  <2>. SUFFICES ASSUME NEW i \in 1 .. n
                PROVE  <<AtomAt(text, i)[1]>> \in Seq(A) /\ AtomAt(text, i)[2] \in 1 .. n + 1 - i
    OBVIOUS
  <2>1. AtomAt(text, i)[1] \in A /\ AtomAt(text, i)[2] \in 1 .. n + 1 - i
    BY AtomTypes
  <2>. HIDE DEF A, n
  <2>. QED
    BY <2>1
<1>. HIDE DEF n, A, chosen, wild
<1>3. next \in [1 .. n -> 1 .. n + 1] /\ \A i \in 1 .. n : next[i] > i
  <2>1. \A i \in 1 .. n : i + AtomAt(text, i)[2] \in 1 .. n + 1 /\ i + AtomAt(text, i)[2] > i
    BY <1>2
  <2>. QED
    BY <2>1
<1>4. \A i \in 1 .. n : next[i] = i + AtomAt(text, i)[2]
  OBVIOUS
<1>5. step \in [1 .. n -> [Seq(A) -> Seq(A)]] /\ <<>> \in Seq(A)
  <2>1. \A i \in 1 .. n, x \in Seq(A) : <<AtomAt(text, i)[1]>> \o x \in Seq(A)
    BY <1>2, ConcatProperties
  <2>. QED
    BY <2>1, EmptySeq
<1>6. \A i \in 1 .. n, x \in Seq(A) : step[i][x] = <<AtomAt(text, i)[1]>> \o x
  OBVIOUS
<1>. HIDE DEF next, step
<1>7. PICK h : Downwards(h, n, Seq(A), <<>>, next, step)
  BY <1>2, <1>3, <1>5, BackwardRecursion
<1>8. /\ h \in [1 .. n + 1 -> Seq(A)] /\ h[n + 1] = <<>>
      /\ \A i \in 1 .. n : h[i] = step[i][h[next[i]]]
  BY <1>7 DEF Downwards
<1>9. \A i \in 1 .. n : h[i] = <<AtomAt(text, i)[1]>> \o h[i + AtomAt(text, i)[2]]
  <2>1. SUFFICES ASSUME NEW i \in 1 .. n
                 PROVE  h[i] = <<AtomAt(text, i)[1]>> \o h[i + AtomAt(text, i)[2]]
    OBVIOUS
  <2>2. h[next[i]] \in Seq(A)
    BY <1>3, <1>8
  <2>3. h[i] = <<AtomAt(text, i)[1]>> \o h[next[i]]
    BY <1>6, <1>8, <2>2
  <2>. QED
    BY <1>4, <2>3
<1>10. P(h)
  <2>1. \A i \in 1 .. n + 1 : i # n + 1 => i \in 1 .. n
    BY <1>2
  <2>2. \A i \in 1 .. n + 1 : h[i] = IF i = n + 1 THEN <<>>
                                    ELSE <<AtomAt(text, i)[1]>> \o h[i + AtomAt(text, i)[2]]
    BY <1>8, <1>9, <2>1
  <2>. QED
    BY <1>8, <2>2
<1>11. P(chosen)
  BY <1>10 DEF chosen
<1>12. \A i \in 1 .. n + 1 : chosen[i] = IF i = n + 1 THEN <<>>
                                       ELSE <<AtomAt(text, i)[1]>> \o chosen[i + AtomAt(text, i)[2]]
  BY <1>11, Zenon
<1>. HIDE DEF P
<1>13. AgreeOn(1 .. n + 1, chosen, h)
  <2>1. chosen[n + 1] = h[n + 1]
    <3>1. n + 1 \in 1 .. n + 1
      BY <1>2
    <3>. QED
      BY <1>8, <1>12, <3>1
  <2>2. ASSUME NEW i \in 1 .. n, \A j \in i + 1 .. n + 1 : chosen[j] = h[j] PROVE chosen[i] = h[i]
    <3>1. i + AtomAt(text, i)[2] \in i + 1 .. n + 1 /\ i \in 1 .. n + 1 /\ i # n + 1
      BY <1>2
    <3>. QED
      BY <1>9, <1>12, <2>2, <3>1
  <2>. QED
    BY <1>2, <2>1, <2>2, SameDownwards
<1>14. \A i \in 1 .. n + 1 : chosen[i] = h[i]
  BY <1>13 DEF AgreeOn
<1>15. Compiled(text) = IF wild THEN h[1] ELSE Append(h[1], AndBelow)
  <2>1. 1 \in 1 .. n + 1
    BY <1>2
  <2>. QED
    BY <1>1, <1>14, <2>1
<1>16. Compiles(h, text)
  BY <1>8, <1>9, <1>15 DEF Compiles, n, A, wild
<1>. QED
  BY <1>16

-----------------------------------------------------------------------------
(* Matching, as a walk along the text of a pattern.                          *)

\* A star or question mark in a text.
WildText(text) == \E i \in DOMAIN text : text[i] \in {"*", "?"}

\* The positions of a text that are reached when the atoms before a position of the
\* pattern are matched.
Walk(seen, pattern, text) ==
  /\ {1} \in seen[1]
  /\ \A i \in 1 .. Len(pattern) : \A positions \in seen[i] :
       Onto(AtomAt(pattern, i)[1], text, positions) \in seen[i + AtomAt(pattern, i)[2]]
  /\ \A positions \in seen[Len(pattern) + 1] :
       FullMatch(Compiled(pattern), text) <=>
         Len(text) + 1 \in IF WildText(pattern) THEN positions
                           ELSE Onto(AndBelow, text, positions)

\* Matching what Compiled has written is walking along the text of the pattern.
LEMMA MatchWalks ==
  ASSUME NEW pattern \in Seq(Char \union {Slash}), NEW text, Len(text) \in Nat
  PROVE  \E seen : Walk(seen, pattern, text)
<1>. DEFINE n == Len(pattern)
            A == Char \union {Slash, Folders, Anything, WithinName, OneOfName}
            B == A \union {AndBelow}
            all == Compiled(pattern)
            Sym(i) == AtomAt(pattern, i)[1]
            Next_(i) == i + AtomAt(pattern, i)[2]
<1>1. n \in Nat
  OBVIOUS
<1>2. PICK atoms : Compiles(atoms, pattern)
  BY CompiledUnfolds
<1>. DEFINE first == atoms[1]
            m == Len(first)
<1>3. \A i \in 1 .. n + 1 : atoms[i] \in Seq(A) /\ atoms[i] \in Seq(B) /\ Len(atoms[i]) \in Nat
  <2>. HIDE DEF A
  <2>1. \A i \in 1 .. n + 1 : atoms[i] \in Seq(A) /\ Len(atoms[i]) \in Nat
    BY <1>2 DEF Compiles, A
  <2>2. \A x \in Seq(A) : x \in Seq(B)
    OBVIOUS
  <2>. QED
    BY <2>1, <2>2
<1>4. \A i \in 1 .. n : Sym(i) \in A /\ Next_(i) \in 1 .. n + 1 /\ atoms[i] = <<Sym(i)>> \o atoms[Next_(i)]
  <2>1. \A i \in 1 .. n : AtomAt(pattern, i)[1] \in A /\ AtomAt(pattern, i)[2] \in 1 .. n + 1 - i
    BY AtomTypes
  <2>2. \A i \in 1 .. n : i + AtomAt(pattern, i)[2] \in 1 .. n + 1
    BY <1>1, <2>1
  <2>. QED
    BY <1>2, <2>1, <2>2 DEF Compiles
<1>5. atoms[n + 1] = <<>>
  BY <1>2 DEF Compiles
<1>6. all = IF WildText(pattern) THEN first ELSE Append(first, AndBelow)
  BY <1>2 DEF Compiles, WildText
<1>7. first \in Seq(B) /\ m \in Nat /\ AndBelow \in B
  BY <1>1, <1>3
<1>. HIDE DEF n, A, B, all, first, Sym, Next_
<1>8. /\ WildText(pattern) => Len(all) = m
      /\ ~ WildText(pattern) => Len(all) = m + 1 /\ all[m + 1] = AndBelow
      /\ \A i \in 1 .. m : all[i] = first[i]
  BY <1>6, <1>7, AppendProperties
<1>. HIDE DEF m
<1>9. Len(all) \in Nat /\ m <= Len(all)
  BY <1>7, <1>8
<1>10. PICK r : Matching(r, all, text)
  BY <1>9, FullMatchUnfolds
<1>11. /\ r[0] = {1}
       /\ \A i \in 1 .. Len(all) : r[i] = Onto(all[i], text, r[i - 1])
       /\ FullMatch(all, text) <=> Len(text) + 1 \in r[Len(all)]
  BY <1>10 DEF Matching
<1>. DEFINE Rest(k, i) ==
              /\ k + Len(atoms[i]) = m
              /\ \A x \in 1 .. Len(atoms[i]) : first[k + x] = atoms[i][x]
            seen == [i \in 1 .. n + 1 |-> {r[k] : k \in {k \in 0 .. m : Rest(k, i)}}]
<1>12. {1} \in seen[1]
  <2>1. Rest(0, 1)
    <3>1. \A x \in 1 .. Len(first) : 0 + x = x
      OBVIOUS
    <3>2. 0 + m = m
      BY <1>7
    <3>. QED
      BY <3>1, <3>2 DEF first, m
  <2>2. 0 \in 0 .. m /\ 1 \in 1 .. n + 1
    BY <1>1, <1>7
  <2>3. r[0] \in seen[1]
    BY <2>1, <2>2
  <2>. QED
    BY <1>11, <2>3
<1>13. ASSUME NEW i \in 1 .. n, NEW positions \in seen[i]
       PROVE  Onto(Sym(i), text, positions) \in seen[Next_(i)]
  <2>1. i \in 1 .. n + 1
    BY <1>1
  <2>2. PICK k \in 0 .. m : Rest(k, i) /\ positions = r[k]
    BY <2>1
  <2>. DEFINE rest == atoms[Next_(i)]
  <2>3. /\ rest \in Seq(A) /\ Len(rest) \in Nat
        /\ <<Sym(i)>> \in Seq(A) /\ Len(<<Sym(i)>>) = 1 /\ <<Sym(i)>>[1] = Sym(i)
        /\ atoms[i] = <<Sym(i)>> \o rest
    <3>1. Sym(i) \in A /\ Next_(i) \in 1 .. n + 1 /\ atoms[i] = <<Sym(i)>> \o rest
      BY <1>4
    <3>2. rest \in Seq(A) /\ Len(rest) \in Nat
      BY <1>3, <3>1
    <3>. HIDE DEF rest
    <3>3. <<Sym(i)>> \in Seq(A) /\ Len(<<Sym(i)>>) = 1 /\ <<Sym(i)>>[1] = Sym(i)
      BY <3>1
    <3>. QED
      BY <3>1, <3>2, <3>3
  <2>. HIDE DEF rest
  <2>4. /\ Len(atoms[i]) = Len(rest) + 1
        /\ atoms[i][1] = Sym(i)
        /\ \A x \in 1 .. Len(rest) : atoms[i][x + 1] = rest[x]
    <3>. DEFINE both == <<Sym(i)>> \o rest
    <3>1. /\ Len(both) = 1 + Len(rest)
          /\ \A x \in 1 .. 1 + Len(rest) : both[x] = IF x <= 1 THEN <<Sym(i)>>[x] ELSE rest[x - 1]
      BY <2>3, ConcatProperties
    <3>. HIDE DEF both
    <3>2. both[1] = Sym(i)
      BY <2>3, <3>1
    <3>3. ASSUME NEW x \in 1 .. Len(rest) PROVE both[x + 1] = rest[x]
      <4>1. x + 1 \in 1 .. 1 + Len(rest) /\ ~ (x + 1 <= 1) /\ (x + 1) - 1 = x
        BY <2>3
      <4>. QED
        BY <3>1, <4>1
    <3>4. Len(both) = Len(rest) + 1
      BY <2>3, <3>1
    <3>. QED
      BY <2>3, <3>2, <3>3, <3>4 DEF both
  <2>5. k + (Len(rest) + 1) = m
    BY <2>2, <2>4
  <2>6. k + 1 \in 1 .. m /\ k + 1 \in 0 .. m /\ (k + 1) - 1 = k /\ (k + 1) + Len(rest) = m
    BY <1>7, <2>3, <2>5
  <2>7. first[k + 1] = Sym(i)
    <3>1. 1 \in 1 .. Len(atoms[i])
      BY <2>3, <2>4
    <3>. QED
      BY <2>2, <2>4, <3>1
  <2>8. ASSUME NEW x \in 1 .. Len(rest) PROVE first[(k + 1) + x] = rest[x]
    <3>1. x + 1 \in 1 .. Len(atoms[i]) /\ k + (x + 1) = (k + 1) + x
      BY <2>3, <2>4
    <3>2. first[k + (x + 1)] = atoms[i][x + 1]
      BY <2>2, <3>1
    <3>. QED
      BY <2>4, <3>1, <3>2
  <2>9. Rest(k + 1, Next_(i))
    BY <2>6, <2>8 DEF rest
  <2>10. r[k + 1] = Onto(Sym(i), text, positions)
    <3>1. k + 1 \in 1 .. Len(all)
      BY <1>7, <1>9, <2>6
    <3>2. r[k + 1] = Onto(all[k + 1], text, r[(k + 1) - 1])
      BY <1>11, <3>1
    <3>. QED
      BY <1>8, <2>2, <2>6, <2>7, <3>2
  <2>11. r[k + 1] \in seen[Next_(i)]
    BY <1>4, <2>6, <2>9
  <2>. QED
    BY <2>10, <2>11
<1>14. ASSUME NEW positions \in seen[n + 1]
       PROVE  FullMatch(all, text) <=>
                Len(text) + 1 \in IF WildText(pattern) THEN positions
                                  ELSE Onto(AndBelow, text, positions)
  <2>1. n + 1 \in 1 .. n + 1
    BY <1>1
  <2>2. PICK k \in 0 .. m : Rest(k, n + 1) /\ positions = r[k]
    BY <2>1
  <2>3. k = m
    <3>1. Len(atoms[n + 1]) = 0
      BY <1>5
    <3>2. k + 0 = m
      BY <2>2, <3>1
    <3>. QED
      BY <1>7, <3>2
  <2>4. CASE WildText(pattern)
    BY <1>8, <1>11, <2>2, <2>3, <2>4
  <2>5. CASE ~ WildText(pattern)
    <3>1. m + 1 \in 1 .. Len(all) /\ (m + 1) - 1 = m
      <4>1. Len(all) = m + 1
        BY <1>8, <2>5
      <4>. QED
        BY <1>7, <4>1
    <3>2. r[m + 1] = Onto(AndBelow, text, r[m])
      BY <1>8, <1>11, <2>5, <3>1
    <3>. QED
      BY <1>8, <1>11, <2>2, <2>3, <2>5, <3>2
  <2>. QED
    BY <2>4, <2>5
<1>15. Walk(seen, pattern, text)
  <2>. HIDE DEF seen
  <2>. QED
    BY <1>12, <1>13, <1>14 DEF Walk, n, all, Sym, Next_
<1>. QED
  BY <1>15

-----------------------------------------------------------------------------
(* Positions in the text of a path.                                          *)

\* The segments of a path lie one after the other in its text, and leave no gap.
LEMMA OffsetsGrow ==
  ASSUME NEW path \in Path, NEW text, NEW off, Layout(off, path, text)
  PROVE  /\ \A k \in 1 .. Len(path) + 1 : off[k] \in Nat /\ off[k] >= 1
         /\ \A l \in 1 .. Len(path) + 1, k \in 1 .. Len(path) :
              k < l => off[k] + Len(path[k]) + 1 <= off[l]
<1>. DEFINE K == Len(path)
            S == {l \in Nat : l \in 1 .. K + 1 =>
                    off[l] >= 1 /\ \A k \in 1 .. K : k < l => off[k] + Len(path[k]) + 1 <= off[l]}
<1>1. /\ K \in Nat /\ \A k \in 1 .. K : Len(path[k]) \in Nat
      /\ off \in [1 .. K + 1 -> Nat] /\ off[1] = 1
      /\ \A k \in 1 .. K : off[k + 1] = off[k] + Len(path[k]) + 1
  BY PathTypes DEF Layout
<1>. HIDE DEF K
<1>2. 0 \in S
  OBVIOUS
<1>3. ASSUME NEW l \in Nat, l \in S PROVE l + 1 \in S
  <2>. SUFFICES ASSUME l + 1 \in 1 .. K + 1
                PROVE  /\ off[l + 1] >= 1
                       /\ \A k \in 1 .. K : k < l + 1 => off[k] + Len(path[k]) + 1 <= off[l + 1]
    OBVIOUS
  <2>1. CASE l = 0
    BY <1>1, <2>1
  <2>2. CASE l # 0
    <3>1. l \in 1 .. K /\ l \in 1 .. K + 1
      BY <1>1, <2>2
    <3>2. /\ off[l] >= 1 /\ off[l] \in Nat /\ Len(path[l]) \in Nat
          /\ \A k \in 1 .. K : k < l => off[k] + Len(path[k]) + 1 <= off[l]
          /\ off[l + 1] = off[l] + Len(path[l]) + 1
      BY <1>1, <1>3, <3>1
    <3>3. off[l + 1] >= 1
      BY <3>2
    <3>4. ASSUME NEW k \in 1 .. K, k < l + 1 PROVE off[k] + Len(path[k]) + 1 <= off[l + 1]
      <4>1. CASE k = l
        BY <3>2, <4>1
      <4>2. CASE k # l
        <5>1. k < l /\ off[k] \in Nat /\ Len(path[k]) \in Nat
          BY <1>1, <3>4, <4>2
        <5>2. off[k] + Len(path[k]) + 1 <= off[l]
          BY <3>2, <5>1
        <5>. QED
          BY <3>2, <5>1, <5>2
      <4>. QED
        BY <4>1, <4>2
    <3>. QED
      BY <3>3, <3>4
  <2>. QED
    BY <2>1, <2>2
<1>. HIDE DEF S
<1>4. Nat \subseteq S
  BY <1>2, <1>3, SetInduction
<1>5. \A l \in 1 .. K + 1 : l \in S
  BY <1>1, <1>4
<1>. QED
  BY <1>1, <1>5 DEF S, K

\* Each position in the text of a path is in one of its segments, or at its end.
LEMMA Located ==
  ASSUME NEW path \in Path, NEW text, NEW off, Layout(off, path, text),
         NEW p \in 1 .. Len(text) + 1
  PROVE  \E k \in 1 .. Len(path) : \E y \in 1 .. Len(path[k]) + 1 : p = off[k] - 1 + y
<1>. DEFINE K == Len(path)
            S == {l \in Nat : l \in 0 .. K =>
                    \A q \in 1 .. off[l + 1] - 1 : \E k \in 1 .. K :
                      \E y \in 1 .. Len(path[k]) + 1 : q = off[k] - 1 + y}
<1>1. /\ K \in Nat /\ \A k \in 1 .. K : Len(path[k]) \in Nat
      /\ off \in [1 .. K + 1 -> Nat] /\ off[1] = 1
      /\ \A k \in 1 .. K : off[k + 1] = off[k] + Len(path[k]) + 1
      /\ Len(text) \in Nat /\ Len(text) + 2 = off[K + 1]
  BY PathTypes DEF Layout
<1>. HIDE DEF K
<1>2. 0 \in S
  <2>1. off[1] = 1
    BY <1>1
  <2>2. 0 + 1 = 1 /\ 0 \in Nat
    OBVIOUS
  <2>3. off[0 + 1] = 1
    BY <2>1, <2>2
  <2>. DEFINE e == off[0 + 1]
  <2>4. 1 .. e - 1 = {}
    BY <2>3
  <2>. HIDE DEF e
  <2>. QED
    BY <2>2, <2>4 DEF e
<1>3. ASSUME NEW l \in Nat, l \in S PROVE l + 1 \in S
  <2>. SUFFICES ASSUME l + 1 \in 0 .. K, NEW q \in 1 .. off[(l + 1) + 1] - 1
                PROVE  \E k \in 1 .. K : \E y \in 1 .. Len(path[k]) + 1 : q = off[k] - 1 + y
    OBVIOUS
  <2>. DEFINE m == l + 1
  <2>1. l \in 0 .. K /\ m \in 1 .. K /\ m \in Nat
    BY <1>1
  <2>2. /\ off[m] \in Nat /\ Len(path[m]) \in Nat /\ off[m + 1] = off[m] + Len(path[m]) + 1
        /\ \A r \in 1 .. off[m] - 1 : \E k \in 1 .. K :
             \E y \in 1 .. Len(path[k]) + 1 : r = off[k] - 1 + y
    <3>1. \A r \in 1 .. off[m] - 1 : \E k \in 1 .. K :
            \E y \in 1 .. Len(path[k]) + 1 : r = off[k] - 1 + y
      BY <1>3, <2>1
    <3>. HIDE DEF m, S
    <3>2. m \in 1 .. K + 1
      BY <1>1, <2>1
    <3>3. off[m] \in Nat /\ Len(path[m]) \in Nat
      BY <1>1, <2>1, <3>2
    <3>4. off[m + 1] = off[m] + Len(path[m]) + 1
      BY <1>1, <2>1
    <3>. QED
      BY <3>1, <3>3, <3>4
  <2>. HIDE DEF m
  <2>3. CASE q <= off[m] - 1
    BY <2>2, <2>3
  <2>4. CASE ~ (q <= off[m] - 1)
    <3>. DEFINE y == q + 1 - off[m]
    <3>1. q \in 1 .. off[m + 1] - 1
      BY DEF m
    <3>2. y \in 1 .. Len(path[m]) + 1 /\ q = off[m] - 1 + y
      <4>1. \A a, b \in Nat : \A c \in 1 .. a + b + 1 - 1 :
              ~ (c <= a - 1) => c + 1 - a \in 1 .. b + 1 /\ c = a - 1 + (c + 1 - a)
        OBVIOUS
      <4>2. off[m] \in Nat /\ Len(path[m]) \in Nat /\ q \in 1 .. off[m] + Len(path[m]) + 1 - 1
        BY <2>2, <3>1
      <4>. QED
        BY <2>4, <4>1, <4>2
    <3>. QED
      BY <2>1, <3>2
  <2>. QED
    BY <2>3, <2>4
<1>. HIDE DEF S
<1>4. K \in S
  BY <1>1, <1>2, <1>3, SetInduction
<1>5. p \in 1 .. off[K + 1] - 1
  BY <1>1
<1>. QED
  BY <1>1, <1>4, <1>5 DEF S, K

\* What is at a position, y - 1 characters into the k-th segment.
LEMMA AtPosition ==
  ASSUME NEW path \in Path, NEW text, NEW off, Layout(off, path, text),
         NEW k \in 1 .. Len(path), NEW y \in 1 .. Len(path[k]) + 1
  PROVE  /\ off[k] - 1 + y \in 1 .. Len(text) + 1
         /\ y # Len(path[k]) + 1 =>
              /\ y \in 1 .. Len(path[k]) /\ off[k] - 1 + y \in 1 .. Len(text)
              /\ text[off[k] - 1 + y] = path[k][y] /\ text[off[k] - 1 + y] # Slash
         /\ y = Len(path[k]) + 1 /\ k # Len(path) =>
              /\ off[k] - 1 + y \in 1 .. Len(text) /\ text[off[k] - 1 + y] = Slash
              /\ k + 1 \in 2 .. Len(path) /\ (off[k] - 1 + y) + 1 = off[k + 1]
         /\ y = Len(path[k]) + 1 /\ k = Len(path) => off[k] - 1 + y = Len(text) + 1
         /\ off[k] - 1 + y = Len(text) + 1 => y = Len(path[k]) + 1 /\ k = Len(path)
<1>. DEFINE K == Len(path)
            N == Len(text)
            n == Len(path[k])
            a == off[k]
            b == off[K + 1]
<1>1. /\ K \in Nat /\ n \in Nat /\ N \in Nat
      /\ \A j \in 1 .. n : path[k][j] # Slash /\ text[a - 1 + j] = path[k][j]
  <2>1. K \in Nat /\ n \in Nat /\ \A j \in 1 .. n : path[k][j] # Slash
    BY PathTypes
  <2>2. N \in Nat
    BY DEF Layout
  <2>3. \A j \in 1 .. n : text[a - 1 + j] = path[k][j]
    BY DEF Layout
  <2>. QED
    BY <2>1, <2>2, <2>3
<1>2. a \in Nat /\ a >= 1 /\ b \in Nat /\ b = N + 2 /\ a + n + 1 <= b
  <2>1. K + 1 \in 1 .. K + 1 /\ k \in 1 .. K + 1 /\ k < K + 1
    BY <1>1
  <2>2. b = N + 2
    BY <1>1 DEF Layout
  <2>3. \A l \in 1 .. K + 1 : off[l] \in Nat /\ off[l] >= 1
    BY OffsetsGrow
  <2>4. \A l \in 1 .. K + 1 : k < l => a + n + 1 <= off[l]
    BY OffsetsGrow
  <2>. QED
    BY <2>1, <2>2, <2>3, <2>4
<1>3. k # K => /\ k + 1 \in 2 .. K /\ off[k + 1] \in Nat /\ off[k + 1] = a + n + 1
               /\ text[off[k + 1] - 1] = Slash /\ off[k + 1] + 2 <= b
  <2>. SUFFICES ASSUME k # K
                PROVE  /\ k + 1 \in 2 .. K /\ off[k + 1] \in Nat /\ off[k + 1] = a + n + 1
                       /\ text[off[k + 1] - 1] = Slash /\ off[k + 1] + 2 <= b
    OBVIOUS
  <2>1. k + 1 \in 2 .. K /\ k + 1 \in 1 .. K /\ k + 1 < K + 1 /\ K + 1 \in 1 .. K + 1
    BY <1>1
  <2>2. off[k + 1] = a + n + 1 /\ text[off[k + 1] - 1] = Slash
    BY <2>1 DEF Layout
  <2>3. Len(path[k + 1]) \in Nat /\ Len(path[k + 1]) >= 1
    BY <2>1, PathTypes
  <2>4. off[k + 1] + Len(path[k + 1]) + 1 <= b
    BY <2>1, OffsetsGrow
  <2>5. off[k + 1] \in Nat
    BY <1>1, <1>2, <2>2
  <2>. QED
    BY <1>2, <2>1, <2>2, <2>3, <2>4, <2>5
<1>4. k = K => a + n + 1 = b
  BY DEF Layout
<1>. HIDE DEF K, N, n, a, b
<1>5. y \in 1 .. n + 1 /\ k \in 1 .. K
  BY DEF n, K
<1>6. a - 1 + y \in 1 .. N + 1
  BY <1>1, <1>2, <1>5
<1>7. y # n + 1 => /\ y \in 1 .. n /\ a - 1 + y \in 1 .. N
                   /\ text[a - 1 + y] = path[k][y] /\ text[a - 1 + y] # Slash
  <2>1. y # n + 1 => y \in 1 .. n /\ a - 1 + y \in 1 .. N
    BY <1>1, <1>2, <1>5
  <2>. QED
    BY <1>1, <2>1
<1>8. y = n + 1 /\ k # K => /\ a - 1 + y \in 1 .. N /\ text[a - 1 + y] = Slash
                            /\ k + 1 \in 2 .. K /\ (a - 1 + y) + 1 = off[k + 1]
  <2>. SUFFICES ASSUME y = n + 1, k # K
                PROVE  /\ a - 1 + y \in 1 .. N /\ text[a - 1 + y] = Slash
                       /\ k + 1 \in 2 .. K /\ (a - 1 + y) + 1 = off[k + 1]
    OBVIOUS
  <2>1. a - 1 + y = off[k + 1] - 1 /\ a - 1 + y \in 1 .. N /\ (a - 1 + y) + 1 = off[k + 1]
    BY <1>1, <1>2, <1>3
  <2>. QED
    BY <1>3, <2>1
<1>9. y = n + 1 /\ k = K => a - 1 + y = N + 1
  <2>. SUFFICES ASSUME y = n + 1, k = K PROVE a - 1 + y = N + 1
    OBVIOUS
  <2>1. a \in Nat /\ n \in Nat /\ N \in Nat
    BY <1>1, <1>2
  <2>2. a + n + 1 = N + 2
    BY <1>2, <1>4
  <2>3. a - 1 + (n + 1) = N + 1
    BY <2>1, <2>2
  <2>. QED
    BY <2>3
<1>10. a - 1 + y = N + 1 => y = n + 1 /\ k = K
  <2>1. k # K => a + n + 3 <= b
    BY <1>1, <1>2, <1>3
  <2>. QED
    BY <1>1, <1>2, <1>5, <2>1
<1>. QED
  BY <1>6, <1>7, <1>8, <1>9, <1>10 DEF K, N, n, a

\* The last segment ends where the text does.
LEMMA EndPosition ==
  ASSUME NEW path \in Path, NEW text, NEW off, Layout(off, path, text)
  PROVE  off[Len(path)] + Len(path[Len(path)]) = Len(text) + 1
<1>. DEFINE K == Len(path)
<1>1. K \in 1 .. K /\ K \in Nat /\ Len(path[K]) \in Nat
  BY PathTypes
<1>2. off[K] \in Nat /\ Len(text) \in Nat
  BY <1>1, OffsetsGrow DEF Layout
<1>3. off[K + 1] = off[K] + Len(path[K]) + 1 /\ Len(text) + 2 = off[K + 1]
  BY <1>1 DEF Layout
<1>. QED
  BY <1>1, <1>2, <1>3

\* A slash is nowhere but before a segment.
LEMMA SlashAt ==
  ASSUME NEW path \in Path, NEW text, NEW off, Layout(off, path, text),
         NEW p \in 1 .. Len(text), text[p] = Slash
  PROVE  \E l \in 2 .. Len(path) : p + 1 = off[l]
<1>1. Len(text) \in Nat
  BY DEF Layout
<1>2. p \in 1 .. Len(text) + 1 /\ p # Len(text) + 1
  BY <1>1
<1>3. PICK k \in 1 .. Len(path) : \E y \in 1 .. Len(path[k]) + 1 : p = off[k] - 1 + y
  BY <1>2, Located
<1>4. PICK y \in 1 .. Len(path[k]) + 1 : p = off[k] - 1 + y
  BY <1>3
<1>5. y = Len(path[k]) + 1 /\ k # Len(path)
  BY <1>2, <1>4, AtPosition
<1>. QED
  BY <1>4, <1>5, AtPosition

\* What a part of a text contains.
LEMMA ContainsWithin ==
  ASSUME NEW S, NEW text \in Seq(S), NEW e, NEW j \in 1 .. Len(text) + 1, NEW k \in j .. Len(text) + 1
  PROVE  Contains(SubSeq(text, j, k - 1), e) <=> \E p \in j .. k - 1 : text[p] = e
<1>. DEFINE t == SubSeq(text, j, k - 1)
<1>1. Len(text) \in Nat
  OBVIOUS
<1>2. \A i \in j .. k - 1 : text[i] \in S
  BY <1>1
<1>3. /\ Len(t) = (IF j <= k - 1 THEN (k - 1) - j + 1 ELSE 0)
      /\ \A i \in 1 .. (k - 1) - j + 1 : t[i] = text[j + i - 1]
  BY <1>1, <1>2, SubSeqProperties
<1>4. Len(t) = k - j /\ \A i \in 1 .. k - j : t[i] = text[j + i - 1]
  BY <1>1, <1>3
<1>. HIDE DEF t
<1>5. Contains(t, e) <=> \E i \in 1 .. k - j : text[j + i - 1] = e
  BY <1>4 DEF Contains
<1>6. ASSUME NEW i \in 1 .. k - j, text[j + i - 1] = e PROVE \E p \in j .. k - 1 : text[p] = e
  <2>1. j + i - 1 \in j .. k - 1
    BY <1>1
  <2>. QED
    BY <1>6, <2>1
<1>7. ASSUME NEW p \in j .. k - 1, text[p] = e PROVE \E i \in 1 .. k - j : text[j + i - 1] = e
  <2>1. p - j + 1 \in 1 .. k - j /\ j + (p - j + 1) - 1 = p
    BY <1>1
  <2>. QED
    BY <1>7, <2>1
<1>. QED
  BY <1>5, <1>6, <1>7 DEF t

-----------------------------------------------------------------------------
(* Where each atom leads in the text of a path.                              *)

\* The atom of one character of a pattern.
AtomOf(symbol) == IF symbol = "*" THEN WithinName ELSE IF symbol = "?" THEN OneOfName ELSE symbol

\* The positions of a segment's text.
Spots(off, k, ys) == {off[k] - 1 + y : y \in ys}

\* Where one character of a pattern leads in a name.
Moves(symbol, name, y) == {z \in 1 .. Len(name) + 1 : NameMove(symbol, name, y, z)}

\* An atom that is not a character is not one.
LEMMA AtomsDiffer ==
  /\ WithinName \notin {Folders, Anything} /\ OneOfName \notin {Folders, Anything, WithinName}
  /\ \A c \in Char \union {Slash} : c \notin {Folders, Anything, WithinName, OneOfName, AndBelow}
  /\ AndBelow \notin {Folders, Anything, WithinName, OneOfName}
  /\ Anything # Folders
BY PathAssumption DEF Slash, Folders, Anything, WithinName, OneOfName, AndBelow

\* A star takes any part of a name, and nothing beyond it.
LEMMA LeavesWithin ==
  ASSUME NEW path \in Path, NEW text, NEW off, Layout(off, path, text),
         NEW k \in 1 .. Len(path), NEW y \in 1 .. Len(path[k]) + 1
  PROVE  LeavesTo(WithinName, text, off[k] - 1 + y)
           = Spots(off, k, {z \in 1 .. Len(path[k]) + 1 : z >= y})
<1>. DEFINE N == Len(text)
            n == Len(path[k])
            a == off[k]
            p == a - 1 + y
<1>1. N \in Nat /\ n \in Nat /\ a \in Nat /\ p \in 1 .. N + 1
      /\ text \in Seq(Char \union {Slash})
  <2>1. n \in Nat
    BY PathTypes
  <2>2. N \in Nat /\ text \in Seq(Char \union {Slash})
    BY DEF Layout
  <2>3. p \in 1 .. N + 1
    BY AtPosition
  <2>4. Len(path) \in Nat
    BY PathTypes
  <2>5. k \in 1 .. Len(path) + 1
    BY <2>4
  <2>6. a \in Nat
    BY <2>5, OffsetsGrow
  <2>. QED
    BY <2>1, <2>2, <2>3, <2>6
<1>2. \A z \in 1 .. n + 1 : a - 1 + z \in 1 .. N + 1
  BY AtPosition
<1>3. \A z \in 1 .. n + 1 : z # n + 1 => text[a - 1 + z] # Slash
  BY AtPosition
<1>4. (a - 1 + (n + 1) = N + 1) \/ (a - 1 + (n + 1) \in 1 .. N /\ text[a - 1 + (n + 1)] = Slash)
  <2>1. n + 1 \in 1 .. Len(path[k]) + 1
    BY <1>1
  <2>. QED
    BY <2>1, AtPosition
<1>5. LeavesTo(WithinName, text, p) = {q \in p .. N + 1 : ~ Contains(SubSeq(text, p, q - 1), Slash)}
  BY AtomsDiffer DEF LeavesTo
<1>6. \A q \in p .. N + 1 :
        Contains(SubSeq(text, p, q - 1), Slash) <=> \E r \in p .. q - 1 : text[r] = Slash
  BY <1>1, ContainsWithin
<1>7. y \in 1 .. n + 1
  OBVIOUS
<1>. HIDE DEF N, n, a
<1>8. ASSUME NEW z \in 1 .. n + 1, z >= y
      PROVE  a - 1 + z \in p .. N + 1 /\ ~ \E r \in p .. (a - 1 + z) - 1 : text[r] = Slash
  <2>1. a - 1 + z \in p .. N + 1
    <3>1. a - 1 + z \in 1 .. N + 1
      BY <1>2
    <3>2. p <= a - 1 + z
      BY <1>1, <1>7, <1>8
    <3>. HIDE DEF p
    <3>. QED
      BY <1>1, <3>1, <3>2
  <2>2. ASSUME NEW r \in p .. (a - 1 + z) - 1 PROVE text[r] # Slash
    <3>. DEFINE w == r + 1 - a
    <3>1. w \in 1 .. n + 1 /\ w # n + 1 /\ a - 1 + w = r
      BY <1>1, <1>7
    <3>. HIDE DEF w
    <3>. QED
      BY <1>3, <3>1
  <2>. QED
    BY <2>1, <2>2
<1>9. ASSUME NEW q \in p .. N + 1, ~ \E r \in p .. q - 1 : text[r] = Slash
      PROVE  \E z \in 1 .. n + 1 : z >= y /\ q = a - 1 + z
  <2>. DEFINE z == q + 1 - a
              e == a - 1 + (n + 1)
  <2>1. q <= e
    <3>1. CASE e = N + 1
      BY <1>1, <3>1
    <3>2. CASE e \in 1 .. N /\ text[e] = Slash
      <4>1. e \notin p .. q - 1
        BY <1>9, <3>2
      <4>2. e >= p /\ e \in Int /\ p \in Int
        BY <1>1, <1>7
      <4>3. q \in Int
        BY <1>1
      <4>. HIDE DEF e, p
      <4>. QED
        BY <4>1, <4>2, <4>3
    <3>. QED
      BY <1>4, <3>1, <3>2
  <2>2. z \in 1 .. n + 1 /\ z >= y /\ q = a - 1 + z
    BY <1>1, <1>7, <2>1
  <2>. QED
    BY <2>2
<1>10. LeavesTo(WithinName, text, p) = {a - 1 + z : z \in {z \in 1 .. n + 1 : z >= y}}
  <2>1. ASSUME NEW q \in LeavesTo(WithinName, text, p)
        PROVE  q \in {a - 1 + z : z \in {z \in 1 .. n + 1 : z >= y}}
    <3>1. q \in p .. N + 1 /\ ~ \E r \in p .. q - 1 : text[r] = Slash
      BY <1>5, <1>6
    <3>. QED
      BY <3>1, <1>9
  <2>2. ASSUME NEW z \in 1 .. n + 1, z >= y PROVE a - 1 + z \in LeavesTo(WithinName, text, p)
    BY <1>5, <1>6, <1>8, <2>2
  <2>. QED
    BY <2>1, <2>2
<1>. QED
  BY <1>10 DEF Spots, n, a

\* One character of a name, as far as positions go.
Ahead(text, p) ==
  {q \in p .. Len(text) + 1 : q = p + 1 /\ p \in 1 .. Len(text) /\ text[p] # Slash}

\* The position after the next character of a name, if there is one.
AheadInName(name, y) == {z \in 1 .. Len(name) + 1 : z = y + 1}

\* A character that is not a slash is one of the name.
LEMMA OneStep ==
  ASSUME NEW path \in Path, NEW text, NEW off, Layout(off, path, text),
         NEW k \in 1 .. Len(path), NEW y \in 1 .. Len(path[k]) + 1
  PROVE  Ahead(text, off[k] - 1 + y) = Spots(off, k, AheadInName(path[k], y))
<1>. DEFINE taken == Ahead(text, off[k] - 1 + y)
            moved == AheadInName(path[k], y)
            N == Len(text)
            n == Len(path[k])
            a == off[k]
            p == a - 1 + y
<1>1. N \in Nat /\ n \in Nat /\ a \in Nat /\ a >= 1
  <2>1. n \in Nat
    BY PathTypes
  <2>2. N \in Nat
    BY DEF Layout
  <2>3. Len(path) \in Nat
    BY PathTypes
  <2>4. k \in 1 .. Len(path) + 1
    BY <2>3
  <2>. QED
    BY <2>1, <2>2, <2>4, OffsetsGrow
<1>2. p \in 1 .. N + 1 /\ y \in Nat /\ p + 1 = a - 1 + (y + 1)
  <2>1. p \in 1 .. N + 1
    BY AtPosition
  <2>2. y \in Nat
    BY <1>1
  <2>3. p + 1 = a - 1 + (y + 1)
    <3>. HIDE DEF a
    <3>. QED
      BY <1>1, <2>2
  <2>. QED
    BY <2>1, <2>2, <2>3
<1>3. CASE y # n + 1
  <2>1. y + 1 \in 1 .. n + 1
    BY <1>1, <1>3
  <2>2. p \in 1 .. N /\ text[p] # Slash /\ p + 1 \in p .. N + 1
    <3>1. p \in 1 .. N /\ text[p] # Slash
      BY <1>3, AtPosition
    <3>. HIDE DEF p
    <3>. QED
      BY <1>1, <3>1
  <2>3. taken = {p + 1}
    <3>. HIDE DEF N
    <3>1. taken = {q \in p .. N + 1 : q = p + 1 /\ p \in 1 .. N /\ text[p] # Slash}
      BY DEF N, Ahead
    <3>. HIDE DEF p
    <3>. QED
      BY <2>2, <3>1
  <2>4. moved = {y + 1}
    BY <2>1 DEF AheadInName
  <2>. QED
    BY <1>2, <2>3, <2>4 DEF Spots
<1>4. CASE y = n + 1
  <2>1. p = N + 1 \/ text[p] = Slash
    BY <1>4, AtPosition
  <2>2. taken = {}
    <3>1. ~ (p \in 1 .. N /\ text[p] # Slash)
      BY <1>1, <2>1
    <3>. QED
      BY <3>1 DEF Ahead
  <2>3. moved = {}
    BY <1>1, <1>4 DEF AheadInName
  <2>. QED
    BY <2>2, <2>3 DEF Spots
<1>. QED
  BY <1>3, <1>4

\* A character of a pattern takes in the text of a name what it takes in the name.
LEMMA LeavesInName ==
  ASSUME NEW path \in Path, NEW text, NEW off, Layout(off, path, text), NEW symbol \in Char,
         NEW k \in 1 .. Len(path), NEW y \in 1 .. Len(path[k]) + 1
  PROVE  LeavesTo(AtomOf(symbol), text, off[k] - 1 + y) = Spots(off, k, Moves(symbol, path[k], y))
<1>. DEFINE N == Len(text)
            n == Len(path[k])
            p == off[k] - 1 + y
<1>0. N \in Nat /\ n \in Nat /\ p \in 1 .. N + 1
  <2>1. n \in Nat
    BY PathTypes
  <2>2. N \in Nat
    BY DEF Layout
  <2>. QED
    BY <2>1, <2>2, AtPosition
<1>1. CASE symbol = "*"
  <2>1. AtomOf(symbol) = WithinName
    BY <1>1 DEF AtomOf
  <2>2. Moves(symbol, path[k], y) = {z \in 1 .. n + 1 : z >= y}
    BY <1>1 DEF Moves, NameMove
  <2>. QED
    BY <2>1, <2>2, LeavesWithin
<1>2. CASE symbol = "?"
  <2>1. AtomOf(symbol) = OneOfName
    BY <1>2 DEF AtomOf
  <2>2. Moves(symbol, path[k], y) = AheadInName(path[k], y)
    BY <1>2 DEF Moves, NameMove, AheadInName
  <2>3. LeavesTo(OneOfName, text, p) = {q \in p .. N + 1 : q = p + 1 /\ text[p] # Slash}
    BY AtomsDiffer DEF LeavesTo
  <2>4. \A q \in p .. N + 1 : q = p + 1 => p \in 1 .. N
    <3>. HIDE DEF p
    <3>. QED
      BY <1>0
  <2>5. LeavesTo(OneOfName, text, p) = Ahead(text, p)
    BY <2>3, <2>4 DEF Ahead
  <2>. QED
    BY <2>1, <2>2, <2>5, OneStep
<1>3. CASE symbol \notin {"*", "?"}
  <2>1. AtomOf(symbol) = symbol /\ symbol \in Char \union {Slash} /\ symbol # Slash
    BY <1>3, PathAssumption DEF AtomOf
  <2>2. Moves(symbol, path[k], y) = {z \in 1 .. n + 1 : z = y + 1 /\ path[k][y] = symbol}
    BY <1>3 DEF Moves, NameMove
  <2>3. LeavesTo(symbol, text, p) = {q \in p .. N + 1 : q = p + 1 /\ text[p] = symbol}
    BY <2>1, AtomsDiffer DEF LeavesTo
  <2>4. \A q \in p .. N + 1 : q = p + 1 => p \in 1 .. N
    <3>. HIDE DEF p
    <3>. QED
      BY <1>0
  <2>5. CASE y # n + 1 /\ path[k][y] = symbol
    <3>1. text[p] = symbol
      BY <2>5, AtPosition
    <3>2. LeavesTo(symbol, text, p) = Ahead(text, p)
      BY <2>1, <2>3, <2>4, <3>1 DEF Ahead
    <3>3. Moves(symbol, path[k], y) = AheadInName(path[k], y)
      BY <2>2, <2>5 DEF AheadInName
    <3>. QED
      BY <2>1, <3>2, <3>3, OneStep
  <2>6. CASE ~ (y # n + 1 /\ path[k][y] = symbol)
    <3>1. text[p] # symbol \/ p = N + 1
      <4>1. CASE y # n + 1
        BY <2>6, <4>1, AtPosition
      <4>2. CASE y = n + 1
        BY <2>1, <4>2, AtPosition
      <4>. QED
        BY <4>1, <4>2
    <3>2. LeavesTo(symbol, text, p) = {}
      <4>1. p = N + 1 => p \notin 1 .. N
        BY <1>0
      <4>. QED
        BY <2>3, <2>4, <3>1, <4>1
    <3>3. Moves(symbol, path[k], y) = {}
      <4>1. y = n + 1 => y + 1 \notin 1 .. n + 1
        BY <1>0
      <4>. QED
        BY <2>2, <2>6, <4>1
    <3>. QED
      BY <2>1, <3>2, <3>3 DEF Spots
  <2>. QED
    BY <2>5, <2>6
<1>. QED
  BY <1>1, <1>2, <1>3

\* A position in a text.
LEMMA PositionTypes ==
  ASSUME NEW path \in Path, NEW text, NEW off, Layout(off, path, text),
         NEW k \in 1 .. Len(path), NEW y \in 1 .. Len(path[k]) + 1
  PROVE  /\ Len(text) \in Nat /\ Len(path) \in Nat /\ Len(path[k]) \in Nat /\ Len(path[k]) >= 1
         /\ off[k] \in Nat /\ off[k] >= 1
         /\ off[k] - 1 + y \in 1 .. Len(text) + 1 /\ off[k] \in 1 .. Len(text)
         /\ off[k] - 1 + 1 = off[k] /\ 1 \in 1 .. Len(path[k]) + 1 /\ 1 # Len(path[k]) + 1
<1>1. Len(path) \in Nat /\ Len(path[k]) \in Nat /\ Len(path[k]) >= 1
  BY PathTypes
<1>2. Len(text) \in Nat
  BY DEF Layout
<1>3. k \in 1 .. Len(path) + 1
  BY <1>1
<1>4. off[k] \in Nat /\ off[k] >= 1
  BY <1>3, OffsetsGrow
<1>5. off[k] - 1 + y \in 1 .. Len(text) + 1
  BY AtPosition
<1>6. off[k] - 1 + 1 = off[k] /\ 1 \in 1 .. Len(path[k]) + 1 /\ 1 # Len(path[k]) + 1
  BY <1>1, <1>4
<1>7. off[k] \in 1 .. Len(text)
  BY <1>6, AtPosition
<1>. QED
  BY <1>1, <1>2, <1>4, <1>5, <1>6, <1>7

\* A slash leads from the end of a name to the start of the next one.
LEMMA LeavesSlash ==
  ASSUME NEW path \in Path, NEW text, NEW off, Layout(off, path, text),
         NEW k \in 1 .. Len(path), NEW y \in 1 .. Len(path[k]) + 1
  PROVE  LeavesTo(Slash, text, off[k] - 1 + y)
           = IF y = Len(path[k]) + 1 /\ k # Len(path) THEN {off[k + 1]} ELSE {}
<1>. DEFINE N == Len(text)
            p == off[k] - 1 + y
<1>1. N \in Nat /\ p \in 1 .. N + 1
  BY PositionTypes
<1>2. LeavesTo(Slash, text, p) = {q \in p .. N + 1 : q = p + 1 /\ text[p] = Slash}
  BY AtomsDiffer DEF LeavesTo
<1>3. CASE y = Len(path[k]) + 1 /\ k # Len(path)
  <2>1. p \in 1 .. N /\ text[p] = Slash /\ p + 1 = off[k + 1]
    BY <1>3, AtPosition
  <2>2. p + 1 \in p .. N + 1
    <3>. HIDE DEF p, N
    <3>. QED
      BY <1>1, <2>1
  <2>. HIDE DEF p, N
  <2>3. LeavesTo(Slash, text, p) = {p + 1}
    BY <1>2, <2>1, <2>2
  <2>. QED
    BY <1>3, <2>1, <2>3 DEF p
<1>4. CASE ~ (y = Len(path[k]) + 1 /\ k # Len(path))
  <2>1. text[p] # Slash \/ p = N + 1
    BY <1>4, AtPosition
  <2>2. p = N + 1 => \A q \in p .. N + 1 : q # p + 1
    BY <1>1
  <2>3. LeavesTo(Slash, text, p) = {}
    BY <1>2, <2>1, <2>2
  <2>. QED
    BY <1>4, <2>3
<1>. QED
  BY <1>3, <1>4

\* Two stars and a slash lead from the start of a name to that of any later one.
LEMMA LeavesFolders ==
  ASSUME NEW path \in Path, NEW text, NEW off, Layout(off, path, text), NEW k \in 1 .. Len(path)
  PROVE  LeavesTo(Folders, text, off[k]) = {off[l] : l \in k .. Len(path)}
<1>. DEFINE N == Len(text)
            K == Len(path)
<1>1. N \in Nat /\ K \in Nat
  BY PathTypes DEF Layout
<1>2. \A l \in 1 .. K : off[l] \in Nat /\ off[l] >= 1 /\ off[l] \in 1 .. N
  <2>1. SUFFICES ASSUME NEW l \in 1 .. K PROVE off[l] \in Nat /\ off[l] >= 1 /\ off[l] \in 1 .. N
    OBVIOUS
  <2>2. Len(path[l]) \in Nat
    BY PathTypes
  <2>3. 1 \in 1 .. Len(path[l]) + 1
    BY <2>2
  <2>. QED
    BY <2>3, PositionTypes
<1>3. \A l, m \in 1 .. K : l < m => off[l] < off[m]
  <2>1. SUFFICES ASSUME NEW l \in 1 .. K, NEW m \in 1 .. K, l < m PROVE off[l] < off[m]
    OBVIOUS
  <2>2. m \in 1 .. K + 1
    BY <1>1
  <2>3. Len(path[l]) \in Nat
    BY PathTypes
  <2>4. off[l] + Len(path[l]) + 1 <= off[m]
    BY <2>1, <2>2, OffsetsGrow
  <2>5. off[l] \in Nat /\ off[m] \in Nat
    BY <1>2
  <2>. QED
    BY <2>3, <2>4, <2>5
<1>4. LeavesTo(Folders, text, off[k])
        = {off[k]} \union {q \in off[k] .. N + 1 : q > off[k] /\ text[q - 1] = Slash}
  BY AtomsDiffer DEF LeavesTo
<1>5. ASSUME NEW q \in off[k] .. N + 1, q > off[k], text[q - 1] = Slash
      PROVE  \E l \in k .. K : q = off[l]
  <2>1. q - 1 \in 1 .. N /\ (q - 1) + 1 = q
    <3>1. off[k] \in Nat /\ off[k] >= 1
      BY <1>2
    <3>. QED
      BY <1>1, <1>5, <3>1
  <2>2. PICK l \in 2 .. K : q = off[l]
    BY <1>5, <2>1, SlashAt
  <2>3. l \in 1 .. K
    BY <1>1
  <2>4. ~ (l < k)
    <3>1. l < k => off[l] < off[k]
      BY <1>3, <2>3
    <3>2. off[l] \in Nat /\ off[k] \in Nat
      BY <1>2, <2>3
    <3>. QED
      BY <1>5, <2>2, <3>1, <3>2
  <2>5. l \in k .. K
    BY <1>1, <2>3, <2>4
  <2>. QED
    BY <2>2, <2>5
<1>6. ASSUME NEW l \in k .. K, l # k
      PROVE  off[l] \in off[k] .. N + 1 /\ off[l] > off[k] /\ text[off[l] - 1] = Slash
  <2>1. l \in 2 .. K /\ l \in 1 .. K /\ k < l
    BY <1>1, <1>6
  <2>2. text[off[l] - 1] = Slash
    BY <2>1 DEF Layout
  <2>3. off[k] < off[l] /\ off[l] \in 1 .. N /\ off[k] \in Nat
    BY <1>2, <1>3, <2>1
  <2>. QED
    BY <1>1, <2>2, <2>3
<1>7. k \in k .. K
  BY <1>1
<1>. HIDE DEF N, K
<1>8. {off[k]} \union {q \in off[k] .. N + 1 : q > off[k] /\ text[q - 1] = Slash}
        = {off[l] : l \in k .. K}
  <2>. DEFINE left == {off[k]} \union {q \in off[k] .. N + 1 : q > off[k] /\ text[q - 1] = Slash}
              right == {off[l] : l \in k .. K}
  <2>1. ASSUME NEW q \in left PROVE q \in right
    BY <1>5, <1>7
  <2>2. ASSUME NEW l \in k .. K PROVE off[l] \in left
    BY <1>6
  <2>. QED
    BY <2>1, <2>2
<1>. QED
  BY <1>4, <1>8 DEF K

\* Two stars at the end lead from the start of any name to the end.
LEMMA LeavesAnything ==
  ASSUME NEW path \in Path, NEW text, NEW off, Layout(off, path, text), NEW k \in 1 .. Len(path)
  PROVE  Len(text) + 1 \in LeavesTo(Anything, text, off[k])
<1>1. LeavesTo(Anything, text, off[k]) = off[k] .. Len(text) + 1
  BY AtomsDiffer DEF LeavesTo
<1>2. Len(text) \in Nat /\ off[k] \in 1 .. Len(text)
  <2>1. Len(path[k]) \in Nat
    BY PathTypes
  <2>2. 1 \in 1 .. Len(path[k]) + 1
    BY <2>1
  <2>. QED
    BY <2>2, PositionTypes
<1>. QED
  BY <1>1, <1>2

\* What a pattern without stars takes below its last name starts where a name has ended.
LEMMA LeavesBelow ==
  ASSUME NEW path \in Path, NEW text, NEW off, Layout(off, path, text),
         NEW k \in 1 .. Len(path), NEW y \in 1 .. Len(path[k]) + 1
  PROVE  Len(text) + 1 \in LeavesTo(AndBelow, text, off[k] - 1 + y) <=> y = Len(path[k]) + 1
<1>. DEFINE N == Len(text)
            p == off[k] - 1 + y
<1>1. N \in Nat /\ p \in 1 .. N + 1
  BY PositionTypes
<1>2. LeavesTo(AndBelow, text, p) = {p} \union {q \in p .. N + 1 : q > p /\ text[p] = Slash}
  BY AtomsDiffer DEF LeavesTo
<1>3. y = Len(path[k]) + 1 => p = N + 1 \/ (p \in 1 .. N /\ text[p] = Slash)
  BY AtPosition
<1>4. y # Len(path[k]) + 1 => p # N + 1 /\ text[p] # Slash
  BY AtPosition
<1>. HIDE DEF p, N
<1>5. p \in 1 .. N => N + 1 \in p .. N + 1 /\ N + 1 > p
  BY <1>1
<1>6. N + 1 \in LeavesTo(AndBelow, text, p) <=> y = Len(path[k]) + 1
  BY <1>2, <1>3, <1>4, <1>5
<1>. QED
  BY <1>6 DEF N, p

-----------------------------------------------------------------------------
(* Which atom the text of a pattern has where.                               *)

\* Two stars stand at a position.
TwoStarsAt(text, i) == i + 1 \in 1 .. Len(text) /\ text[i] = "*" /\ text[i + 1] = "*"

\* The translation looks for two stars first, and then at one character.
LEMMA AtomChoice ==
  ASSUME NEW text \in Seq(Char \union {Slash}), NEW i \in 1 .. Len(text)
  PROVE  /\ ~ TwoStarsAt(text, i) => AtomAt(text, i) = <<AtomOf(text[i]), 1>>
         /\ TwoStarsAt(text, i) =>
              AtomAt(text, i) = IF i + 2 \in 1 .. Len(text) /\ text[i + 2] = Slash
                                THEN <<Folders, 3>> ELSE <<Anything, 2>>
<1>. DEFINE C == Char \union {Slash, "*"}
            N == Len(text)
            long == Append(TwoStars, Slash)
<1>1. text \in Seq(C) /\ N \in Nat
  OBVIOUS
<1>2. /\ TwoStars \in Seq(C) /\ Len(TwoStars) = 2 /\ TwoStars[1] = "*" /\ TwoStars[2] = "*"
      /\ long \in Seq(C) /\ Len(long) = 3
      /\ long[1] = "*" /\ long[2] = "*" /\ long[3] = Slash
  BY DEF TwoStars
<1>. HIDE DEF C, long
<1>3. StartsWith(TwoStars, text, i) <=>
        i + 2 <= N + 1 /\ \A x \in 1 .. 2 : TwoStars[x] = text[i + x - 1]
  <2>1. TwoStars \in Seq(C) /\ Len(TwoStars) = 2
    BY <1>2
  <2>2. StartsWith(TwoStars, text, i) <=> StandsAt(TwoStars, text, i)
    BY <1>1, <2>1, StartsWithChars
  <2>. QED
    BY <2>1, <2>2 DEF StandsAt
<1>4. StartsWith(long, text, i) <=>
        i + 3 <= N + 1 /\ \A x \in 1 .. 3 : long[x] = text[i + x - 1]
  <2>1. long \in Seq(C) /\ Len(long) = 3
    BY <1>2
  <2>2. StartsWith(long, text, i) <=> StandsAt(long, text, i)
    BY <1>1, <2>1, StartsWithChars
  <2>. QED
    BY <2>1, <2>2 DEF StandsAt
<1>5. /\ i + 1 - 1 = i /\ i + 2 - 1 = i + 1 /\ i + 3 - 1 = i + 2
      /\ i + 2 <= N + 1 <=> i + 1 \in 1 .. N
      /\ i + 3 <= N + 1 <=> i + 2 \in 1 .. N
      /\ i + 2 \in 1 .. N => i + 1 \in 1 .. N
  BY <1>1
<1>6. 1 .. 2 = {1, 2} /\ 1 .. 3 = {1, 2, 3}
  OBVIOUS
<1>. HIDE DEF N
<1>7. StartsWith(TwoStars, text, i) <=> TwoStarsAt(text, i)
  <2>1. (\A x \in 1 .. 2 : TwoStars[x] = text[i + x - 1]) <=>
          "*" = text[i + 1 - 1] /\ "*" = text[i + 2 - 1]
    BY <1>2, <1>6
  <2>. QED
    BY <1>3, <1>5, <2>1 DEF TwoStarsAt, N
<1>8. StartsWith(long, text, i) <=>
        TwoStarsAt(text, i) /\ i + 2 \in 1 .. N /\ text[i + 2] = Slash
  <2>1. (\A x \in 1 .. 3 : long[x] = text[i + x - 1]) <=>
          "*" = text[i + 1 - 1] /\ "*" = text[i + 2 - 1] /\ Slash = text[i + 3 - 1]
    BY <1>2, <1>6
  <2>. QED
    BY <1>4, <1>5, <2>1 DEF TwoStarsAt, N
<1>9. AtomAt(text, i) =
        IF StartsWith(long, text, i) THEN <<Folders, 3>>
        ELSE IF StartsWith(TwoStars, text, i) THEN <<Anything, 2>>
        ELSE <<AtomOf(text[i]), 1>>
  BY DEF AtomAt, AtomOf, long
<1>. QED
  BY <1>7, <1>8, <1>9 DEF N

\* In a segment that is not two stars there are no two stars in a row.
LEMMA StarsApart ==
  ASSUME NEW pattern \in Pattern, NEW i \in 1 .. Len(pattern), pattern[i] # TwoStars,
         NEW x \in 1 .. Len(pattern[i]), x # Len(pattern[i]),
         pattern[i][x] = "*", pattern[i][x + 1] = "*"
  PROVE  FALSE
<1>. DEFINE s == pattern[i]
<1>1. pattern \in Path /\ DOMAIN pattern = 1 .. Len(pattern)
  BY DEF Pattern, Path
<1>2. s \in Seq(Char) /\ Len(s) \in Nat
  BY <1>1, PathTypes
<1>3. \A j \in 2 .. Len(s) : SubSeq(s, j - 1, j) # TwoStars
  BY <1>1 DEF Pattern
<1>4. s[x] = "*" /\ s[x + 1] = "*" /\ x \in 1 .. Len(s) /\ x # Len(s)
  OBVIOUS
<1>. HIDE DEF s
<1>5. x + 1 \in 2 .. Len(s) /\ (x + 1) - 1 = x
  BY <1>2, <1>4
<1>6. \A y \in x .. x + 1 : s[y] \in Char
  <2>1. \A y \in x .. x + 1 : y \in 1 .. Len(s)
    BY <1>2, <1>4
  <2>. QED
    BY <1>2, <2>1
<1>. DEFINE t == SubSeq(s, x, x + 1)
<1>7. t \in Seq(Char) /\ Len(t) = 2 /\ t[1] = s[x] /\ t[2] = s[x + 1]
  <2>1. x \in Int /\ x + 1 \in Int /\ x <= x + 1 /\ (x + 1) - x + 1 = 2 /\ x + 1 - 1 = x /\ x + 2 - 1 = x + 1
    BY <1>2, <1>4
  <2>2. /\ t \in Seq(Char) /\ Len(t) = (IF x <= x + 1 THEN (x + 1) - x + 1 ELSE 0)
        /\ \A y \in 1 .. (x + 1) - x + 1 : t[y] = s[x + y - 1]
    BY <1>6, <2>1, SubSeqProperties
  <2>. HIDE DEF t
  <2>3. 1 \in 1 .. 2 /\ 2 \in 1 .. 2
    OBVIOUS
  <2>. QED
    BY <2>1, <2>2, <2>3
<1>. HIDE DEF t
<1>8. t = TwoStars
  BY <1>4, <1>7 DEF TwoStars
<1>. QED
  BY <1>3, <1>5, <1>8 DEF t

\* Within a segment each character becomes its own atom.
LEMMA AtomInName ==
  ASSUME NEW pattern \in Pattern, NEW text, NEW off, Layout(off, pattern, text),
         NEW i \in 1 .. Len(pattern), pattern[i] # TwoStars, NEW x \in 1 .. Len(pattern[i])
  PROVE  /\ off[i] - 1 + x \in 1 .. Len(text)
         /\ AtomAt(text, off[i] - 1 + x) = <<AtomOf(pattern[i][x]), 1>>
<1>. DEFINE p == off[i] - 1 + x
            n == Len(pattern[i])
<1>1. pattern \in Path /\ text \in Seq(Char \union {Slash})
  BY DEF Pattern, Layout
<1>2. n \in Nat /\ off[i] \in Nat /\ x \in 1 .. n + 1 /\ x + 1 \in 1 .. n + 1 /\ x # n + 1
      /\ off[i] - 1 + (x + 1) = p + 1 /\ (x + 1 = n + 1 <=> x = n)
  <2>1. n \in Nat
    BY <1>1, PathTypes
  <2>2. x \in 1 .. n + 1 /\ x + 1 \in 1 .. n + 1 /\ x # n + 1 /\ (x + 1 = n + 1 <=> x = n)
    BY <2>1
  <2>3. off[i] \in Nat
    BY <1>1, <2>2, PositionTypes
  <2>. QED
    BY <2>1, <2>2, <2>3
<1>3. p \in 1 .. Len(text) /\ text[p] = pattern[i][x]
  BY <1>1, <1>2, AtPosition
<1>4. ~ TwoStarsAt(text, p)
  <2>. SUFFICES ASSUME p + 1 \in 1 .. Len(text), text[p] = "*", text[p + 1] = "*" PROVE FALSE
    BY DEF TwoStarsAt
  <2>1. CASE x = n
    <3>1. off[i] - 1 + (x + 1) = Len(text) + 1 \/ text[off[i] - 1 + (x + 1)] = Slash
      <4>1. x + 1 = Len(pattern[i]) + 1 /\ x + 1 \in 1 .. Len(pattern[i]) + 1
        BY <1>2, <2>1
      <4>2. CASE i = Len(pattern)
        BY <1>1, <4>1, <4>2, AtPosition
      <4>3. CASE i # Len(pattern)
        BY <1>1, <4>1, <4>3, AtPosition
      <4>. QED
        BY <4>2, <4>3
    <3>2. Len(text) \in Nat
      BY <1>1
    <3>3. p + 1 # Len(text) + 1
      <4>. HIDE DEF p
      <4>. QED
        BY <3>2
    <3>4. text[p + 1] = Slash
      BY <1>2, <3>1, <3>3
    <3>. QED
      BY <3>4 DEF Slash
  <2>2. CASE x # n
    <3>1. text[p + 1] = pattern[i][x + 1]
      <4>1. x + 1 \in 1 .. Len(pattern[i]) + 1 /\ x + 1 # Len(pattern[i]) + 1
        BY <1>2, <2>2
      <4>2. text[off[i] - 1 + (x + 1)] = pattern[i][x + 1]
        BY <1>1, <4>1, AtPosition
      <4>. QED
        BY <1>2, <4>2
    <3>. QED
      BY <1>3, <2>2, <3>1, StarsApart
  <2>. QED
    BY <2>1, <2>2
<1>. HIDE DEF p
<1>5. AtomAt(text, p) = <<AtomOf(text[p]), 1>>
  BY <1>1, <1>3, <1>4, AtomChoice
<1>. QED
  BY <1>3, <1>5 DEF p

\* So does the slash after a segment.
LEMMA AtomAtSlash ==
  ASSUME NEW pattern \in Pattern, NEW text, NEW off, Layout(off, pattern, text),
         NEW i \in 1 .. Len(pattern), i # Len(pattern)
  PROVE  /\ off[i] + Len(pattern[i]) \in 1 .. Len(text)
         /\ AtomAt(text, off[i] + Len(pattern[i])) = <<Slash, 1>>
         /\ off[i] + Len(pattern[i]) + 1 = off[i + 1]
<1>. DEFINE p == off[i] + Len(pattern[i])
            n == Len(pattern[i])
<1>1. pattern \in Path /\ text \in Seq(Char \union {Slash})
  BY DEF Pattern, Layout
<1>2. n \in Nat /\ n + 1 \in 1 .. n + 1
  <2>1. n \in Nat
    BY <1>1, PathTypes
  <2>. QED
    BY <2>1
<1>3. off[i] \in Nat
  BY <1>1, <1>2, PositionTypes
<1>4. off[i] - 1 + (n + 1) = p
  BY <1>2, <1>3
<1>5. p \in 1 .. Len(text) /\ text[p] = Slash /\ p + 1 = off[i + 1]
  BY <1>1, <1>2, <1>4, AtPosition
<1>. HIDE DEF p
<1>6. ~ TwoStarsAt(text, p)
  BY <1>5 DEF TwoStarsAt, Slash
<1>7. AtomAt(text, p) = <<AtomOf(text[p]), 1>>
  BY <1>1, <1>5, <1>6, AtomChoice
<1>8. AtomOf(Slash) = Slash
  BY DEF AtomOf, Slash
<1>. QED
  BY <1>5, <1>7, <1>8 DEF p

\* Two stars become one atom, together with the slash after them if there is one.
LEMMA AtomAtTwoStars ==
  ASSUME NEW pattern \in Pattern, NEW text, NEW off, Layout(off, pattern, text),
         NEW i \in 1 .. Len(pattern), pattern[i] = TwoStars
  PROVE  /\ off[i] \in 1 .. Len(text)
         /\ i # Len(pattern) =>
              AtomAt(text, off[i]) = <<Folders, 3>> /\ off[i] + 3 = off[i + 1]
         /\ i = Len(pattern) =>
              AtomAt(text, off[i]) = <<Anything, 2>> /\ off[i] + 2 = Len(text) + 1
<1>. DEFINE p == off[i]
            N == Len(text)
<1>1. pattern \in Path /\ text \in Seq(Char \union {Slash}) /\ N \in Nat
  BY DEF Pattern, Layout
<1>2. Len(pattern[i]) = 2 /\ pattern[i][1] = "*" /\ pattern[i][2] = "*"
  BY DEF TwoStars
<1>. DEFINE n == Len(pattern[i])
<1>3. 1 \in 1 .. n + 1 /\ 2 \in 1 .. n + 1 /\ 3 \in 1 .. n + 1
      /\ 1 # n + 1 /\ 2 # n + 1 /\ 3 = n + 1
  BY <1>2
<1>4. p \in Nat /\ p >= 1
  BY <1>1, <1>3, PositionTypes
<1>5. off[i] - 1 + 1 = p /\ off[i] - 1 + 2 = p + 1 /\ off[i] - 1 + 3 = p + 2
      /\ (p + 2) + 1 = p + 3
  BY <1>4
<1>6. p \in 1 .. N /\ text[p] = "*"
  <2>1. off[i] - 1 + 1 \in 1 .. N /\ text[off[i] - 1 + 1] = pattern[i][1]
    BY <1>1, <1>3, AtPosition
  <2>. QED
    BY <1>2, <1>5, <2>1
<1>7. p + 1 \in 1 .. N /\ text[p + 1] = "*"
  <2>1. off[i] - 1 + 2 \in 1 .. N /\ text[off[i] - 1 + 2] = pattern[i][2]
    BY <1>1, <1>3, AtPosition
  <2>. QED
    BY <1>2, <1>5, <2>1
<1>8. i # Len(pattern) => p + 2 \in 1 .. N /\ text[p + 2] = Slash /\ (p + 2) + 1 = off[i + 1]
  <2>1. i # Len(pattern) => /\ off[i] - 1 + 3 \in 1 .. N /\ text[off[i] - 1 + 3] = Slash
                            /\ (off[i] - 1 + 3) + 1 = off[i + 1]
    BY <1>1, <1>3, AtPosition
  <2>. QED
    BY <1>5, <2>1
<1>9. i = Len(pattern) => p + 2 = N + 1
  <2>1. i = Len(pattern) => off[i] + Len(pattern[i]) = N + 1
    BY <1>1, EndPosition
  <2>. QED
    BY <1>2, <2>1
<1>10. TwoStarsAt(text, p)
  BY <1>6, <1>7 DEF TwoStarsAt
<1>11. AtomAt(text, p) = IF p + 2 \in 1 .. N /\ text[p + 2] = Slash
                         THEN <<Folders, 3>> ELSE <<Anything, 2>>
  BY <1>1, <1>6, <1>10, AtomChoice
<1>12. p + 2 = N + 1 => p + 2 \notin 1 .. N
  BY <1>1
<1>. QED
  BY <1>5, <1>6, <1>8, <1>9, <1>11, <1>12

-----------------------------------------------------------------------------
(* The walk within one segment.                                              *)

\* Where segments begin.
Starts(off, Q) == {off[k] : k \in Q}

\* How NameGlobs comes to its verdict.
Trace(segment, name) == CHOOSE r : NameReached(r, segment, name)

\* The positions in the text of a path that are reached when the first characters of a
\* segment are matched in some of its names.
Inside(off, Q, segment, path, x) ==
  UNION {Spots(off, k, Trace(segment, path[k])[x]) : k \in Q}

\* It computes what NameReached says.
LEMMA TraceReaches ==
  ASSUME NEW segment, NEW name, Len(segment) \in Nat, Len(name) \in Nat
  PROVE  NameReached(Trace(segment, name), segment, name)
BY NameGlobsUnfolds DEF Trace

\* A character of a pattern leads through the text of a name as it leads through the name.
LEMMA OntoSpots ==
  ASSUME NEW path \in Path, NEW text, NEW off, Layout(off, path, text), NEW symbol \in Char,
         NEW k \in 1 .. Len(path), NEW ys \in SUBSET (1 .. Len(path[k]) + 1)
  PROVE  Onto(AtomOf(symbol), text, Spots(off, k, ys))
           = Spots(off, k, {z \in 1 .. Len(path[k]) + 1 :
                              \E y \in ys : NameMove(symbol, path[k], y, z)})
<1>. DEFINE a == AtomOf(symbol)
            zs == {z \in 1 .. Len(path[k]) + 1 : \E y \in ys : NameMove(symbol, path[k], y, z)}
<1>1. \A y \in ys : LeavesTo(a, text, off[k] - 1 + y) = Spots(off, k, Moves(symbol, path[k], y))
  BY LeavesInName
<1>. HIDE DEF a
<1>2. Onto(a, text, Spots(off, k, ys)) = UNION {Spots(off, k, Moves(symbol, path[k], y)) : y \in ys}
  <2>1. Onto(a, text, Spots(off, k, ys)) = UNION {LeavesTo(a, text, off[k] - 1 + y) : y \in ys}
    BY DEF Onto, Spots
  <2>. QED
    BY <1>1, <2>1
<1>3. UNION {Spots(off, k, Moves(symbol, path[k], y)) : y \in ys} = Spots(off, k, zs)
  <2>. DEFINE there == UNION {Spots(off, k, Moves(symbol, path[k], y)) : y \in ys}
  <2>1. ASSUME NEW q \in there PROVE q \in Spots(off, k, zs)
    <3>1. PICK y \in ys : q \in Spots(off, k, Moves(symbol, path[k], y))
      BY <2>1
    <3>2. PICK z \in Moves(symbol, path[k], y) : q = off[k] - 1 + z
      BY <3>1 DEF Spots
    <3>3. z \in zs
      BY <3>2 DEF Moves
    <3>. QED
      BY <3>2, <3>3 DEF Spots
  <2>2. ASSUME NEW q \in Spots(off, k, zs) PROVE q \in there
    <3>1. PICK z \in zs : q = off[k] - 1 + z
      BY <2>2 DEF Spots
    <3>2. PICK y \in ys : NameMove(symbol, path[k], y, z)
      OBVIOUS
    <3>3. z \in Moves(symbol, path[k], y)
      BY <3>2 DEF Moves
    <3>4. q \in Spots(off, k, Moves(symbol, path[k], y))
      BY <3>1, <3>3 DEF Spots
    <3>. QED
      BY <3>4
  <2>. QED
    BY <2>1, <2>2
<1>. QED
  BY <1>2, <1>3 DEF a

\* One more character of the segment, in all of the names.
LEMMA InsideMoves ==
  ASSUME NEW path \in Path, NEW text, NEW off, Layout(off, path, text),
         NEW segment \in Seq(Char), NEW Q \in SUBSET (1 .. Len(path)),
         NEW x \in 1 .. Len(segment)
  PROVE  Onto(AtomOf(segment[x]), text, Inside(off, Q, segment, path, x - 1))
           = Inside(off, Q, segment, path, x)
<1>. DEFINE a == AtomOf(segment[x])
            Before(k) == Trace(segment, path[k])[x - 1]
            After(k) == Trace(segment, path[k])[x]
<1>1. segment[x] \in Char /\ Len(segment) \in Nat /\ x - 1 \in 0 .. Len(segment)
  OBVIOUS
<1>2. ASSUME NEW k \in Q PROVE Onto(a, text, Spots(off, k, Before(k))) = Spots(off, k, After(k))
  <2>1. Len(path[k]) \in Nat /\ k \in 1 .. Len(path)
    BY PathTypes
  <2>2. NameReached(Trace(segment, path[k]), segment, path[k])
    BY <1>1, <2>1, TraceReaches
  <2>3. Before(k) \in SUBSET (1 .. Len(path[k]) + 1)
    BY <1>1, <2>2 DEF NameReached
  <2>4. After(k) = {z \in 1 .. Len(path[k]) + 1 :
                      \E y \in Before(k) : NameMove(segment[x], path[k], y, z)}
    BY <2>2 DEF NameReached
  <2>. HIDE DEF Before, After
  <2>. QED
    BY <1>1, <2>1, <2>3, <2>4, OntoSpots
<1>3. Inside(off, Q, segment, path, x - 1) = UNION {Spots(off, k, Before(k)) : k \in Q}
  BY DEF Inside
<1>4. Inside(off, Q, segment, path, x) = UNION {Spots(off, k, After(k)) : k \in Q}
  BY DEF Inside
<1>. HIDE DEF a, Before, After
<1>5. Onto(a, text, UNION {Spots(off, k, Before(k)) : k \in Q})
        = UNION {Onto(a, text, Spots(off, k, Before(k))) : k \in Q}
  BY DEF Onto
<1>. QED
  BY <1>2, <1>3, <1>4, <1>5 DEF a

\* Before the first character that is the start of each name.
LEMMA InsideAtFirst ==
  ASSUME NEW path \in Path, NEW text, NEW off, Layout(off, path, text),
         NEW segment \in Seq(Char), NEW Q \in SUBSET (1 .. Len(path))
  PROVE  Inside(off, Q, segment, path, 0) = Starts(off, Q)
<1>1. ASSUME NEW k \in Q PROVE Spots(off, k, Trace(segment, path[k])[0]) = {off[k]}
  <2>1. Len(path[k]) \in Nat /\ k \in 1 .. Len(path) /\ Len(segment) \in Nat
    BY PathTypes
  <2>2. Trace(segment, path[k])[0] = {1}
    BY <2>1, TraceReaches DEF NameReached
  <2>3. 1 \in 1 .. Len(path[k]) + 1
    BY <2>1
  <2>4. off[k] - 1 + 1 = off[k]
    BY <2>1, <2>3, PositionTypes
  <2>. QED
    BY <2>2, <2>4 DEF Spots
<1>2. Inside(off, Q, segment, path, 0) = UNION {{off[k]} : k \in Q}
  BY <1>1 DEF Inside
<1>. QED
  BY <1>2 DEF Starts

\* When the names of Q are where a segment is taken from, its characters are matched in them.
LEMMA NameWalk ==
  ASSUME NEW pattern \in Pattern, NEW ptext, NEW po, Layout(po, pattern, ptext),
         NEW path \in Path, NEW text, NEW off, Layout(off, path, text),
         NEW seen, Walk(seen, ptext, text),
         NEW i \in 1 .. Len(pattern), pattern[i] # TwoStars,
         NEW Q \in SUBSET (1 .. Len(path)), Starts(off, Q) \in seen[po[i]]
  PROVE  Inside(off, Q, pattern[i], path, Len(pattern[i])) \in seen[po[i] + Len(pattern[i])]
<1>. DEFINE s == pattern[i]
            S == {x \in Nat : x <= Len(s) => Inside(off, Q, s, path, x) \in seen[po[i] + x]}
<1>1. pattern \in Path
  BY DEF Pattern
<1>2. s \in Seq(Char) /\ Len(s) \in Nat
  BY <1>1, PathTypes
<1>3. po[i] \in Nat
  <2>1. 1 \in 1 .. Len(pattern[i]) + 1
    BY <1>2
  <2>. QED
    BY <1>1, <2>1, PositionTypes
<1>4. 0 \in S
  <2>1. Inside(off, Q, s, path, 0) = Starts(off, Q)
    BY <1>2, InsideAtFirst
  <2>2. po[i] + 0 = po[i]
    BY <1>3
  <2>. QED
    BY <2>1, <2>2
<1>5. ASSUME NEW w \in 1 .. Len(s)
      PROVE  Onto(AtomOf(s[w]), text, Inside(off, Q, s, path, w - 1)) = Inside(off, Q, s, path, w)
  <2>. HIDE DEF s, S
  <2>. QED
    BY <1>2, InsideMoves
<1>6. ASSUME NEW x \in Nat, x \in S PROVE x + 1 \in S
  <2>. SUFFICES ASSUME x + 1 <= Len(s) PROVE Inside(off, Q, s, path, x + 1) \in seen[po[i] + (x + 1)]
    OBVIOUS
  <2>. DEFINE w == x + 1
              p == po[i] - 1 + w
  <2>1. w \in 1 .. Len(pattern[i]) /\ w - 1 = x /\ p = po[i] + x /\ p + 1 = po[i] + w
    <3>1. \A a, b, c \in Nat : b + 1 <= c => /\ b + 1 \in 1 .. c /\ (b + 1) - 1 = b
             /\ a - 1 + (b + 1) = a + b /\ a - 1 + (b + 1) + 1 = a + (b + 1)
      OBVIOUS
    <3>. QED
      BY <1>2, <1>3, <3>1
  <2>2. Inside(off, Q, s, path, x) \in seen[p]
    BY <1>2, <1>6, <2>1
  <2>. HIDE DEF w, S
  <2>3. p \in 1 .. Len(ptext) /\ AtomAt(ptext, p) = <<AtomOf(s[w]), 1>>
    BY <2>1, AtomInName
  <2>. HIDE DEF p
  <2>4. Onto(AtomOf(s[w]), text, Inside(off, Q, s, path, x)) \in seen[p + 1]
    BY <2>2, <2>3 DEF Walk
  <2>5. Onto(AtomOf(s[w]), text, Inside(off, Q, s, path, w - 1)) = Inside(off, Q, s, path, w)
    <3>. HIDE DEF s
    <3>1. w \in 1 .. Len(s)
      BY <2>1 DEF s
    <3>. QED
      BY <1>5, <3>1
  <2>6. Inside(off, Q, s, path, w) \in seen[po[i] + w]
    BY <2>1, <2>4, <2>5
  <2>. QED
    BY <2>6 DEF w
<1>. HIDE DEF S, s
<1>7. Len(s) \in S
  BY <1>2, <1>4, <1>6, SetInduction
<1>8. Len(s) <= Len(s)
  BY <1>2
<1>. QED
  BY <1>7, <1>8 DEF S, s

-----------------------------------------------------------------------------
(* The walk from segment to segment, and the theorems of the policy.         *)

\* The names where a segment of a pattern may be taken from.
Names(r, i, path) == r[i] \cap (1 .. Len(path))

\* Where a pattern's segments are taken from in a path, the text of the pattern takes them
\* from in the text of the path.
Aligned(seen, po, off, r, path, i) == Starts(off, Names(r, i - 1, path)) \in seen[po[i]]

\* After two stars the next segment is taken from where Globs takes it,
LEMMA AfterFolders ==
  ASSUME NEW pattern \in Pattern, NEW path \in Path, NEW text, NEW off, Layout(off, path, text),
         NEW r, Reached(r, pattern, path),
         NEW i \in 1 .. Len(pattern), i # Len(pattern), pattern[i] = TwoStars
  PROVE  Onto(Folders, text, Starts(off, Names(r, i - 1, path)))
           = Starts(off, Names(r, i, path))
<1>. DEFINE K == Len(path)
            Q == Names(r, i - 1, path)
<1>1. K \in Nat /\ Len(pattern) \in Nat /\ pattern \in Path
  BY PathTypes DEF Pattern
<1>2. i - 1 \in 0 .. Len(pattern) /\ i < Len(pattern)
  BY <1>1
<1>3. r[i - 1] \in SUBSET (1 .. K + 1)
  BY <1>2 DEF Reached
<1>4. r[i] = {l \in 1 .. K + 1 : \E k \in r[i - 1] : l > k \/ l = k}
  BY <1>2 DEF Reached, SegmentMove
<1>5. \A k \in Q : LeavesTo(Folders, text, off[k]) = {off[l] : l \in k .. K}
  <2>1. SUFFICES ASSUME NEW k \in Q
                 PROVE  LeavesTo(Folders, text, off[k]) = {off[l] : l \in k .. K}
    OBVIOUS
  <2>2. k \in 1 .. Len(path)
    BY DEF Names
  <2>. QED
    BY <2>2, LeavesFolders
<1>6. Onto(Folders, text, {off[k] : k \in Q}) = UNION {{off[l] : l \in k .. K} : k \in Q}
  <2>1. Onto(Folders, text, {off[k] : k \in Q}) = UNION {LeavesTo(Folders, text, off[k]) : k \in Q}
    BY DEF Onto
  <2>. QED
    BY <1>5, <2>1
<1>7. ASSUME NEW l \in Names(r, i, path) PROVE \E k \in Q : l \in k .. K
  <2>1. l \in 1 .. K /\ \E k \in r[i - 1] : l > k \/ l = k
    BY <1>4 DEF Names
  <2>2. PICK k \in r[i - 1] : l > k \/ l = k
    BY <2>1
  <2>3. k \in 1 .. K + 1
    BY <1>3
  <2>4. k \in 1 .. K /\ l \in k .. K
    BY <1>1, <2>1, <2>2, <2>3
  <2>. QED
    BY <2>4 DEF Names
<1>8. ASSUME NEW k \in Q, NEW l \in k .. K PROVE l \in Names(r, i, path)
  <2>1. k \in r[i - 1] /\ k \in 1 .. K
    BY DEF Names
  <2>2. l \in 1 .. K /\ l \in 1 .. K + 1 /\ (l > k \/ l = k)
    BY <1>1, <2>1
  <2>. QED
    BY <1>4, <2>1, <2>2 DEF Names
<1>. HIDE DEF Q, K
<1>9. UNION {{off[l] : l \in k .. K} : k \in Q} = {off[l] : l \in Names(r, i, path)}
  <2>. DEFINE there == UNION {{off[l] : l \in k .. K} : k \in Q}
              here == {off[l] : l \in Names(r, i, path)}
  <2>1. ASSUME NEW q \in there PROVE q \in here
    <3>1. PICK k \in Q : \E l \in k .. K : q = off[l]
      BY <2>1
    <3>. QED
      BY <1>8, <3>1
  <2>2. ASSUME NEW q \in here PROVE q \in there
    <3>1. PICK l \in Names(r, i, path) : q = off[l]
      BY <2>2
    <3>2. PICK k \in Q : l \in k .. K
      BY <1>7
    <3>. QED
      BY <3>1, <3>2
  <2>. QED
    BY <2>1, <2>2
<1>. QED
  BY <1>6, <1>9 DEF Q, Starts

\* and after a name, too.
LEMMA AfterName ==
  ASSUME NEW pattern \in Pattern, NEW path \in Path, NEW text, NEW off, Layout(off, path, text),
         NEW r, Reached(r, pattern, path),
         NEW i \in 1 .. Len(pattern), pattern[i] # TwoStars
  PROVE  Onto(Slash, text,
              Inside(off, Names(r, i - 1, path), pattern[i], path, Len(pattern[i])))
           = Starts(off, Names(r, i, path))
<1>. DEFINE K == Len(path)
            Q == Names(r, i - 1, path)
            s == pattern[i]
            End(k) == Trace(s, path[k])[Len(s)]
            inside == Inside(off, Q, s, path, Len(s))
            there == Onto(Slash, text, inside)
            here == {off[l] : l \in Names(r, i, path)}
<1>1. K \in Nat /\ Len(pattern) \in Nat /\ pattern \in Path /\ Len(s) \in Nat
  BY PathTypes DEF Pattern
<1>2. i - 1 \in 0 .. Len(pattern)
  BY <1>1
<1>3. r[i - 1] \in SUBSET (1 .. K + 1)
  BY <1>2 DEF Reached
<1>4. r[i] = {l \in 1 .. K + 1 : \E k \in r[i - 1] : l = k + 1 /\ NameGlobs(s, path[k])}
  BY DEF Reached, SegmentMove
<1>5. \A k \in Q : /\ End(k) \in SUBSET (1 .. Len(path[k]) + 1)
                   /\ NameGlobs(s, path[k]) <=> Len(path[k]) + 1 \in End(k)
  <2>1. ASSUME NEW k \in Q
        PROVE  /\ End(k) \in SUBSET (1 .. Len(path[k]) + 1)
               /\ NameGlobs(s, path[k]) <=> Len(path[k]) + 1 \in End(k)
    <3>1. k \in 1 .. K
      BY DEF Names
    <3>2. Len(path[k]) \in Nat
      BY <3>1, PathTypes
    <3>3. NameReached(Trace(s, path[k]), s, path[k])
      BY <1>1, <3>2, TraceReaches
    <3>4. Len(s) \in 0 .. Len(s)
      BY <1>1
    <3>. QED
      BY <3>3, <3>4 DEF NameReached
  <2>. QED
    BY <2>1
<1>6. inside = UNION {Spots(off, k, End(k)) : k \in Q}
  BY DEF Inside
<1>. HIDE DEF s, End, inside
<1>7. ASSUME NEW q \in there PROVE q \in here
  <2>1. PICK p \in inside : q \in LeavesTo(Slash, text, p)
    BY <1>7 DEF Onto
  <2>2. PICK k \in Q : p \in Spots(off, k, End(k))
    BY <1>6, <2>1
  <2>3. PICK y \in End(k) : p = off[k] - 1 + y
    BY <2>2 DEF Spots
  <2>4. k \in r[i - 1] /\ k \in 1 .. K /\ y \in 1 .. Len(path[k]) + 1
    BY <1>5 DEF Names
  <2>5. LeavesTo(Slash, text, p)
          = IF y = Len(path[k]) + 1 /\ k # Len(path) THEN {off[k + 1]} ELSE {}
    BY <2>3, <2>4, LeavesSlash
  <2>6. y = Len(path[k]) + 1 /\ k # K /\ q = off[k + 1]
    BY <2>1, <2>5
  <2>7. NameGlobs(s, path[k])
    BY <1>5, <2>6
  <2>8. k + 1 \in 1 .. K /\ k + 1 \in 1 .. K + 1
    BY <1>1, <2>4, <2>6
  <2>9. k + 1 \in Names(r, i, path)
    BY <1>4, <2>4, <2>7, <2>8 DEF Names
  <2>. QED
    BY <2>6, <2>9
<1>8. ASSUME NEW l \in Names(r, i, path) PROVE off[l] \in there
  <2>1. l \in 1 .. K /\ \E k \in r[i - 1] : l = k + 1 /\ NameGlobs(s, path[k])
    BY <1>4 DEF Names
  <2>2. PICK k \in r[i - 1] : l = k + 1 /\ NameGlobs(s, path[k])
    BY <2>1
  <2>3. k \in 1 .. K + 1
    BY <1>3
  <2>4. k \in 1 .. K /\ k # K
    BY <1>1, <2>1, <2>2, <2>3
  <2>5. k \in Q
    BY <2>4 DEF Names
  <2>. DEFINE y == Len(path[k]) + 1
              p == off[k] - 1 + y
  <2>6. y \in End(k) /\ y \in 1 .. Len(path[k]) + 1
    BY <1>5, <2>2, <2>5
  <2>. HIDE DEF p
  <2>7. p \in inside
    BY <1>6, <2>5, <2>6 DEF Spots, p
  <2>8. LeavesTo(Slash, text, p) = {off[k + 1]}
    <3>. DEFINE z == Len(path[k]) + 1
    <3>1. z \in 1 .. Len(path[k]) + 1 /\ z = Len(path[k]) + 1 /\ p = off[k] - 1 + z
      BY <2>6 DEF p
    <3>. HIDE DEF z, y
    <3>2. LeavesTo(Slash, text, p)
            = IF z = Len(path[k]) + 1 /\ k # Len(path) THEN {off[k + 1]} ELSE {}
      BY <2>4, <3>1, LeavesSlash
    <3>. QED
      BY <2>4, <3>1, <3>2
  <2>. QED
    BY <2>2, <2>7, <2>8 DEF Onto
<1>. QED
  <2>1. there = here
    BY <1>7, <1>8
  <2>. QED
    BY <2>1 DEF inside, s, Starts

\* So the walk along the text of a pattern keeps pace with Globs.
LEMMA AlignedThroughout ==
  ASSUME NEW pattern \in Pattern, NEW ptext, NEW po, Layout(po, pattern, ptext),
         NEW path \in Path, NEW text, NEW off, Layout(off, path, text),
         NEW seen, Walk(seen, ptext, text), NEW r, Reached(r, pattern, path)
  PROVE  \A i \in 1 .. Len(pattern) : Aligned(seen, po, off, r, path, i)
<1>. DEFINE n == Len(pattern)
            S == {i \in Nat : i \in 1 .. n => Aligned(seen, po, off, r, path, i)}
<1>1. n \in Nat /\ n >= 1 /\ pattern \in Path /\ Len(path) \in Nat /\ Len(path) >= 1
  BY PathTypes DEF Pattern
<1>2. 0 \in S
  OBVIOUS
<1>3. Aligned(seen, po, off, r, path, 1)
  <2>1. r[0] = {1} /\ off[1] = 1 /\ po[1] = 1 /\ {1} \in seen[1]
    BY DEF Reached, Layout, Walk
  <2>2. 1 \in 1 .. Len(path) /\ 1 - 1 = 0
    BY <1>1
  <2>3. Names(r, 1 - 1, path) = {1}
    BY <2>1, <2>2 DEF Names
  <2>4. Starts(off, Names(r, 1 - 1, path)) = {1}
    BY <2>1, <2>3 DEF Starts
  <2>. QED
    BY <2>1, <2>4 DEF Aligned
<1>4. ASSUME NEW i \in 1 .. n, i # n, Aligned(seen, po, off, r, path, i)
      PROVE  Aligned(seen, po, off, r, path, i + 1)
  <2>. DEFINE Q == Names(r, i - 1, path)
  <2>1. Starts(off, Q) \in seen[po[i]] /\ Q \in SUBSET (1 .. Len(path))
    BY <1>4 DEF Aligned, Names
  <2>2. (i + 1) - 1 = i
    BY <1>1
  <2>3. CASE pattern[i] = TwoStars
    <3>1. po[i] \in 1 .. Len(ptext) /\ AtomAt(ptext, po[i]) = <<Folders, 3>> /\ po[i] + 3 = po[i + 1]
      BY <1>4, <2>3, AtomAtTwoStars
    <3>2. Onto(Folders, text, Starts(off, Q)) \in seen[po[i + 1]]
      BY <2>1, <3>1 DEF Walk
    <3>3. Onto(Folders, text, Starts(off, Q)) = Starts(off, Names(r, i, path))
      BY <1>4, <2>3, AfterFolders
    <3>. QED
      BY <2>2, <3>2, <3>3 DEF Aligned
  <2>4. CASE pattern[i] # TwoStars
    <3>. DEFINE inside == Inside(off, Q, pattern[i], path, Len(pattern[i]))
                p == po[i] + Len(pattern[i])
    <3>1. inside \in seen[p]
      BY <2>1, <2>4, NameWalk
    <3>2. p \in 1 .. Len(ptext) /\ AtomAt(ptext, p) = <<Slash, 1>> /\ p + 1 = po[i + 1]
      BY <1>4, AtomAtSlash
    <3>3. Onto(Slash, text, inside) = Starts(off, Names(r, i, path))
      BY <2>4, AfterName
    <3>. HIDE DEF inside, p
    <3>4. Onto(Slash, text, inside) \in seen[po[i + 1]]
      BY <3>1, <3>2 DEF Walk
    <3>. QED
      BY <2>2, <3>3, <3>4 DEF Aligned
  <2>. QED
    BY <2>3, <2>4
<1>5. ASSUME NEW i \in Nat, i \in S PROVE i + 1 \in S
  <2>. SUFFICES ASSUME i + 1 \in 1 .. n PROVE Aligned(seen, po, off, r, path, i + 1)
    OBVIOUS
  <2>1. CASE i = 0
    BY <1>3, <2>1
  <2>2. CASE i # 0
    <3>1. i \in 1 .. n /\ i # n
      BY <1>1, <2>2
    <3>2. Aligned(seen, po, off, r, path, i)
      BY <1>5, <3>1
    <3>. QED
      BY <1>4, <3>1, <3>2
  <2>. QED
    BY <2>1, <2>2
<1>. HIDE DEF S
<1>6. \A i \in 1 .. n : i \in S
  <2>1. Nat \subseteq S
    BY <1>2, <1>5, SetInduction
  <2>. QED
    BY <1>1, <2>1
<1>. QED
  BY <1>6 DEF S

\* The text of a pattern has a star or a question mark when the pattern has.
LEMMA WildTexts ==
  ASSUME NEW pattern \in Path, NEW text, NEW off, Layout(off, pattern, text)
  PROVE  WildText(text) <=> Wild(pattern)
<1>1. text \in Seq(Char \union {Slash}) /\ DOMAIN text = 1 .. Len(text) /\ Len(text) \in Nat
      /\ DOMAIN pattern = 1 .. Len(pattern)
  BY DEF Layout, Path
<1>2. ASSUME NEW p \in 1 .. Len(text), text[p] \in {"*", "?"} PROVE Wild(pattern)
  <2>1. p \in 1 .. Len(text) + 1 /\ p # Len(text) + 1
    BY <1>1
  <2>2. PICK k \in 1 .. Len(pattern) : \E y \in 1 .. Len(pattern[k]) + 1 : p = off[k] - 1 + y
    BY <2>1, Located
  <2>3. PICK y \in 1 .. Len(pattern[k]) + 1 : p = off[k] - 1 + y
    BY <2>2
  <2>4. y # Len(pattern[k]) + 1
    <3>1. CASE y = Len(pattern[k]) + 1 /\ k = Len(pattern)
      BY <2>1, <2>3, <3>1, AtPosition
    <3>2. CASE y = Len(pattern[k]) + 1 /\ k # Len(pattern)
      <4>1. text[p] = Slash
        BY <2>3, <3>2, AtPosition
      <4>. QED
        BY <1>2, <4>1 DEF Slash
    <3>. QED
      BY <3>1, <3>2
  <2>5. y \in 1 .. Len(pattern[k]) /\ text[p] = pattern[k][y]
    BY <2>3, <2>4, AtPosition
  <2>6. pattern[k] \in Seq(Char)
    BY PathTypes
  <2>7. pattern[k][y] \in Range(pattern[k])
    <3>1. DOMAIN pattern[k] = 1 .. Len(pattern[k])
      BY <2>6
    <3>. QED
      BY <2>5, <3>1 DEF Range
  <2>. QED
    BY <1>1, <1>2, <2>5, <2>7 DEF Wild
<1>3. ASSUME Wild(pattern) PROVE \E p \in 1 .. Len(text) : text[p] \in {"*", "?"}
  <2>1. PICK k \in 1 .. Len(pattern) : Range(pattern[k]) \cap {"*", "?"} # {}
    BY <1>1, <1>3 DEF Wild
  <2>2. pattern[k] \in Seq(Char) /\ Len(pattern[k]) \in Nat
    BY PathTypes
  <2>3. DOMAIN pattern[k] = 1 .. Len(pattern[k])
    BY <2>2
  <2>4. PICK y \in 1 .. Len(pattern[k]) : pattern[k][y] \in {"*", "?"}
    BY <2>1, <2>3 DEF Range
  <2>5. y \in 1 .. Len(pattern[k]) + 1 /\ y # Len(pattern[k]) + 1
    BY <2>2
  <2>6. off[k] - 1 + y \in 1 .. Len(text) /\ text[off[k] - 1 + y] = pattern[k][y]
    BY <2>5, AtPosition
  <2>. QED
    BY <2>4, <2>6
<1>. QED
  BY <1>1, <1>2, <1>3 DEF WildText

\* At the end of its last name a pattern has taken the whole path, or more of it follows.
LEMMA AtTheEnd ==
  ASSUME NEW path \in Path, NEW text, NEW off, Layout(off, path, text),
         NEW segment \in Seq(Char), NEW Q \in SUBSET (1 .. Len(path))
  PROVE  /\ Len(text) + 1 \in Inside(off, Q, segment, path, Len(segment)) <=>
              Len(path) \in Q /\ NameGlobs(segment, path[Len(path)])
         /\ Len(text) + 1 \in Onto(AndBelow, text, Inside(off, Q, segment, path, Len(segment))) <=>
              \E k \in Q : NameGlobs(segment, path[k])
<1>. DEFINE N == Len(text)
            K == Len(path)
            End(k) == Trace(segment, path[k])[Len(segment)]
            inside == Inside(off, Q, segment, path, Len(segment))
<1>1. K \in Nat /\ K >= 1 /\ Len(segment) \in Nat /\ N \in Nat
  BY PathTypes DEF Layout
<1>2. \A k \in 1 .. K : /\ Len(path[k]) \in Nat
                        /\ End(k) \in SUBSET (1 .. Len(path[k]) + 1)
                        /\ NameGlobs(segment, path[k]) <=> Len(path[k]) + 1 \in End(k)
  <2>1. ASSUME NEW k \in 1 .. K
        PROVE  /\ Len(path[k]) \in Nat
               /\ End(k) \in SUBSET (1 .. Len(path[k]) + 1)
               /\ NameGlobs(segment, path[k]) <=> Len(path[k]) + 1 \in End(k)
    <3>1. Len(path[k]) \in Nat
      BY PathTypes
    <3>2. NameReached(Trace(segment, path[k]), segment, path[k])
      BY <1>1, <3>1, TraceReaches
    <3>3. Len(segment) \in 0 .. Len(segment)
      BY <1>1
    <3>. QED
      BY <3>1, <3>2, <3>3 DEF NameReached
  <2>. QED
    BY <2>1
<1>3. inside = UNION {Spots(off, k, End(k)) : k \in Q}
  BY DEF Inside
<1>. HIDE DEF End, inside
<1>4. ASSUME N + 1 \in inside PROVE K \in Q /\ NameGlobs(segment, path[K])
  <2>1. PICK k \in Q : N + 1 \in Spots(off, k, End(k))
    BY <1>3, <1>4
  <2>2. PICK y \in End(k) : N + 1 = off[k] - 1 + y
    BY <2>1 DEF Spots
  <2>3. k \in 1 .. K /\ y \in 1 .. Len(path[k]) + 1
    BY <1>2
  <2>4. y = Len(path[k]) + 1 /\ k = K
    BY <2>2, <2>3, AtPosition
  <2>. QED
    BY <1>2, <2>3, <2>4
<1>5. ASSUME K \in Q, NameGlobs(segment, path[K]) PROVE N + 1 \in inside
  <2>. DEFINE y == Len(path[K]) + 1
  <2>1. K \in 1 .. K /\ y \in End(K) /\ y \in 1 .. Len(path[K]) + 1
    BY <1>1, <1>2, <1>5
  <2>2. off[K] - 1 + y = N + 1
    BY <2>1, AtPosition
  <2>. QED
    BY <1>3, <1>5, <2>1, <2>2 DEF Spots
<1>6. ASSUME NEW k \in Q, NEW y \in End(k)
      PROVE  N + 1 \in LeavesTo(AndBelow, text, off[k] - 1 + y) <=> y = Len(path[k]) + 1
  <2>1. k \in 1 .. K /\ y \in 1 .. Len(path[k]) + 1
    BY <1>2
  <2>. QED
    BY <2>1, LeavesBelow
<1>7. ASSUME N + 1 \in Onto(AndBelow, text, inside) PROVE \E k \in Q : NameGlobs(segment, path[k])
  <2>1. PICK p \in inside : N + 1 \in LeavesTo(AndBelow, text, p)
    BY <1>7 DEF Onto
  <2>2. PICK k \in Q : p \in Spots(off, k, End(k))
    BY <1>3, <2>1
  <2>3. PICK y \in End(k) : p = off[k] - 1 + y
    BY <2>2 DEF Spots
  <2>4. y = Len(path[k]) + 1
    BY <1>6, <2>1, <2>3
  <2>5. k \in 1 .. K
    OBVIOUS
  <2>. QED
    BY <1>2, <2>4, <2>5
<1>8. ASSUME NEW k \in Q, NameGlobs(segment, path[k]) PROVE N + 1 \in Onto(AndBelow, text, inside)
  <2>. DEFINE y == Len(path[k]) + 1
              p == off[k] - 1 + y
  <2>1. y \in End(k)
    BY <1>2, <1>8
  <2>2. N + 1 \in LeavesTo(AndBelow, text, p)
    BY <1>6, <2>1
  <2>. HIDE DEF y
  <2>3. p \in inside
    BY <1>3, <2>1 DEF Spots
  <2>. QED
    BY <2>2, <2>3 DEF Onto
<1>. QED
  BY <1>4, <1>5, <1>7, <1>8 DEF inside

\* _compile_policy_patterns and validate_changed_paths: the regular expression that the code
\* writes for a pattern, character by character, matches the text of a path just when the pattern
\* means the path, segment by segment; for every pattern and path over any characters.
THEOREM MatchesAsMeant ==
  ASSUME NEW pattern \in Pattern, NEW path \in Path
  PROVE  Matches(pattern, Text(path)) <=> Globs(pattern, path)
<1>. DEFINE ptext == Text(pattern)
            text == Text(path)
            n == Len(pattern)
            K == Len(path)
            N == Len(text)
            s == pattern[n]
<1>1. pattern \in Path /\ n \in Nat /\ n >= 1 /\ K \in Nat /\ K >= 1
      /\ n \in 1 .. n /\ s \in Seq(Char) /\ Len(s) \in Nat
  <2>1. pattern \in Path
    BY DEF Pattern
  <2>2. n \in Nat /\ n >= 1 /\ K \in Nat /\ K >= 1
    BY <2>1, PathTypes
  <2>3. n \in 1 .. n
    BY <2>2
  <2>. QED
    BY <2>1, <2>2, <2>3, PathTypes
<1>2. PICK po : Layout(po, pattern, ptext)
  BY <1>1, TextLayout
<1>3. PICK off : Layout(off, path, text)
  BY TextLayout
<1>4. PICK r : Reached(r, pattern, path)
  BY <1>1, GlobsUnfolds
<1>. HIDE DEF ptext, text
<1>5. ptext \in Seq(Char \union {Slash}) /\ N \in Nat
  BY <1>2, <1>3 DEF Layout
<1>6. PICK seen : Walk(seen, ptext, text)
  BY <1>5, MatchWalks
<1>. DEFINE Q == Names(r, n - 1, path)
<1>7. Starts(off, Q) \in seen[po[n]] /\ Q \in SUBSET (1 .. K)
  <2>1. Aligned(seen, po, off, r, path, n)
    BY <1>1, <1>2, <1>3, <1>4, <1>6, AlignedThroughout
  <2>. QED
    BY <2>1 DEF Aligned, Names
<1>8. WildText(ptext) <=> Wild(pattern)
  BY <1>1, <1>2, WildTexts
<1>9. Matches(pattern, text) <=> FullMatch(Compiled(ptext), text)
  BY DEF Matches, ptext
<1>10. r[n - 1] \in SUBSET (1 .. K + 1)
  <2>1. n - 1 \in 0 .. n
    BY <1>1
  <2>. QED
    BY <1>4, <2>1 DEF Reached
<1>11. Globs(pattern, path) <=> K + 1 \in r[n] \/ (~ Wild(pattern) /\ r[n] # {})
  BY <1>4 DEF Reached
<1>12. CASE s = TwoStars
  <2>1. /\ po[n] \in 1 .. Len(ptext) /\ AtomAt(ptext, po[n]) = <<Anything, 2>>
        /\ po[n] + 2 = Len(ptext) + 1
    BY <1>1, <1>2, <1>12, AtomAtTwoStars
  <2>2. Onto(Anything, text, Starts(off, Q)) \in seen[Len(ptext) + 1]
    BY <1>6, <1>7, <2>1 DEF Walk
  <2>3. Wild(pattern)
    <3>1. DOMAIN pattern = 1 .. n /\ 1 \in DOMAIN s /\ s[1] = "*"
      BY <1>1, <1>12 DEF TwoStars, Path
    <3>2. "*" \in Range(s)
      BY <3>1 DEF Range
    <3>. QED
      BY <1>1, <3>1, <3>2 DEF Wild
  <2>4. FullMatch(Compiled(ptext), text) <=> N + 1 \in Onto(Anything, text, Starts(off, Q))
    BY <1>6, <1>8, <2>2, <2>3 DEF Walk
  <2>5. \A k \in Q : N + 1 \in LeavesTo(Anything, text, off[k])
    BY <1>3, <1>7, LeavesAnything
  <2>6. N + 1 \in Onto(Anything, text, Starts(off, Q)) <=> Q # {}
    <3>. HIDE DEF Q, N
    <3>1. ASSUME NEW k \in Q PROVE N + 1 \in Onto(Anything, text, Starts(off, Q))
      BY <2>5 DEF Onto, Starts
    <3>2. ASSUME N + 1 \in Onto(Anything, text, Starts(off, Q)) PROVE Q # {}
      BY <3>2 DEF Onto, Starts
    <3>. QED
      BY <3>1, <3>2
  <2>7. r[n] = {l \in 1 .. K + 1 : \E k \in r[n - 1] : l > k}
    <3>1. ~ (n < n)
      BY <1>1
    <3>. QED
      BY <1>1, <1>4, <1>12, <3>1 DEF Reached, SegmentMove
  <2>8. K + 1 \in r[n] <=> \E k \in r[n - 1] : K + 1 > k
    BY <1>1, <2>7
  <2>9. (\E k \in r[n - 1] : K + 1 > k) <=> Q # {}
    <3>1. \A k \in 1 .. K + 1 : K + 1 > k <=> k \in 1 .. K
      BY <1>1
    <3>. QED
      BY <1>10, <3>1 DEF Names
  <2>. QED
    BY <1>9, <1>11, <2>3, <2>4, <2>6, <2>8, <2>9 DEF text
<1>13. CASE s # TwoStars
  <2>. DEFINE inside == Inside(off, Q, s, path, Len(s))
  <2>1. inside \in seen[po[n] + Len(s)]
    BY <1>1, <1>2, <1>3, <1>6, <1>7, <1>13, NameWalk
  <2>2. po[n] + Len(s) = Len(ptext) + 1
    <3>1. po[n] \in Nat /\ Len(ptext) \in Nat
      <4>1. 1 \in 1 .. Len(pattern[n]) + 1
        BY <1>1
      <4>. QED
        BY <1>1, <1>2, <4>1, PositionTypes
    <3>2. po[n + 1] = po[n] + Len(s) + 1 /\ Len(ptext) + 2 = po[n + 1]
      BY <1>1, <1>2 DEF Layout
    <3>. HIDE DEF s, n
    <3>. QED
      BY <1>1, <3>1, <3>2
  <2>3. /\ N + 1 \in inside <=> K \in Q /\ NameGlobs(s, path[K])
        /\ N + 1 \in Onto(AndBelow, text, inside) <=> \E k \in Q : NameGlobs(s, path[k])
    BY <1>1, <1>3, <1>7, AtTheEnd
  <2>. HIDE DEF inside
  <2>4. FullMatch(Compiled(ptext), text) <=>
          N + 1 \in IF Wild(pattern) THEN inside ELSE Onto(AndBelow, text, inside)
    BY <1>6, <1>8, <2>1, <2>2 DEF Walk
  <2>5. r[n] = {l \in 1 .. K + 1 : \E k \in r[n - 1] : l = k + 1 /\ NameGlobs(s, path[k])}
    BY <1>1, <1>4, <1>13 DEF Reached, SegmentMove
  <2>6. K + 1 \in r[n] <=> K \in Q /\ NameGlobs(s, path[K])
    <3>1. \A k \in 1 .. K + 1 : K + 1 = k + 1 <=> k = K
      BY <1>1
    <3>2. K \in 1 .. K /\ K + 1 \in 1 .. K + 1
      BY <1>1
    <3>3. K + 1 \in r[n] <=> \E k \in r[n - 1] : K + 1 = k + 1 /\ NameGlobs(s, path[k])
      BY <2>5, <3>2
    <3>. HIDE DEF s, K
    <3>. QED
      BY <1>10, <3>1, <3>2, <3>3 DEF Names, K
  <2>7. r[n] # {} <=> \E k \in Q : NameGlobs(s, path[k])
    <3>1. ASSUME NEW l \in r[n] PROVE \E k \in Q : NameGlobs(s, path[k])
      <4>1. PICK k \in r[n - 1] : l = k + 1 /\ NameGlobs(s, path[k])
        BY <2>5
      <4>2. k \in 1 .. K + 1 /\ l \in 1 .. K + 1
        BY <1>10, <2>5
      <4>3. k \in 1 .. K
        BY <1>1, <4>1, <4>2
      <4>. QED
        BY <4>1, <4>3 DEF Names
    <3>2. ASSUME NEW k \in Q, NameGlobs(s, path[k]) PROVE k + 1 \in r[n]
      <4>1. k \in r[n - 1] /\ k \in 1 .. K
        BY DEF Names
      <4>2. k + 1 \in 1 .. K + 1
        BY <1>1, <4>1
      <4>. QED
        BY <2>5, <3>2, <4>1, <4>2
    <3>. QED
      BY <3>1, <3>2
  <2>8. K + 1 \in r[n] => r[n] # {}
    OBVIOUS
  <2>. HIDE DEF s, Q, K, N, n
  <2>. QED
    BY <1>9, <1>11, <2>3, <2>4, <2>6, <2>7, <2>8 DEF text
<1>. QED
  BY <1>12, <1>13

\* The first name of a path is one of the repository's own when its text begins with it.
LEMMA OwnedNames ==
  ASSUME NEW path \in Path
  PROVE  Text(path)[1] \in Owned /\ (Len(Text(path)) = 1 \/ Text(path)[2] = Slash)
           <=> path[1] \in {<<name>> : name \in Owned}
<1>. DEFINE text == Text(path)
            N == Len(text)
            s == path[1]
            n == Len(s)
<1>1. 1 \in 1 .. Len(path) /\ s \in Seq(Char) /\ n \in Nat /\ n >= 1
  BY PathTypes
<1>2. PICK off : Layout(off, path, text)
  BY TextLayout
<1>. HIDE DEF text
<1>3. N \in Nat /\ off[1] = 1
  BY <1>2 DEF Layout
<1>4. 1 \in 1 .. n + 1 /\ 1 # n + 1 /\ 2 \in 1 .. n + 1 /\ off[1] - 1 + 1 = 1 /\ off[1] - 1 + 2 = 2
  BY <1>1, <1>3
<1>10. \A m \in Nat : (2 = m + 1 <=> m = 1) /\ (2 \in 1 .. m => m # 1)
  OBVIOUS
<1>5. text[1] = s[1]
  <2>1. text[off[1] - 1 + 1] = path[1][1]
    BY <1>1, <1>2, <1>4, AtPosition
  <2>. QED
    BY <1>4, <2>1
<1>6. n = 1 <=> N = 1 \/ text[2] = Slash
  <2>1. CASE n = 1
    <3>1. 2 = n + 1
      BY <1>1, <1>10, <2>1
    <3>2. 1 = Len(path) => off[1] - 1 + 2 = N + 1
      BY <1>1, <1>2, <1>4, <3>1, AtPosition
    <3>3. 1 # Len(path) => text[off[1] - 1 + 2] = Slash
      <4>. SUFFICES ASSUME 1 # Len(path) PROVE text[off[1] - 1 + 2] = Slash
        OBVIOUS
      <4>. DEFINE k == 1
                  y == 2
                  p == off[k] - 1 + y
      <4>1. /\ k \in 1 .. Len(path) /\ y = Len(path[k]) + 1 /\ y \in 1 .. Len(path[k]) + 1
            /\ k # Len(path)
        BY <1>1, <1>4, <3>1
      <4>. HIDE DEF k, y
      <4>2. text[p] = Slash
        BY <1>2, <4>1, AtPosition
      <4>. QED
        BY <4>2 DEF k, y
    <3>4. 2 = N + 1 => N = 1
      BY <1>3, <1>10
    <3>. QED
      BY <1>4, <2>1, <3>2, <3>3, <3>4
  <2>2. CASE n # 1
    <3>1. 2 # n + 1
      BY <1>1, <1>10, <2>2
    <3>2. off[1] - 1 + 2 \in 1 .. N /\ text[off[1] - 1 + 2] # Slash
      BY <1>1, <1>2, <1>4, <3>1, AtPosition
    <3>3. 2 \in 1 .. N => N # 1
      BY <1>3, <1>10
    <3>. QED
      BY <1>4, <2>2, <3>2, <3>3
  <2>. QED
    BY <2>1, <2>2
<1>7. n = 1 => s = <<s[1]>>
  <2>. HIDE DEF s
  <2>1. n = 1 => s \in Seq(Char) /\ <<s[1]>> \in Seq({s[1]}) /\ Len(<<s[1]>>) = 1 /\ <<s[1]>>[1] = s[1]
    BY <1>1
  <2>. QED
    BY <1>1, <2>1
<1>8. \A name : s = <<name>> => n = 1 /\ s[1] = name
  OBVIOUS
<1>. HIDE DEF n, s, N
<1>9. text[1] \in Owned /\ (N = 1 \/ text[2] = Slash) <=> s \in {<<name>> : name \in Owned}
  BY <1>5, <1>6, <1>7, <1>8
<1>. QED
  BY <1>9 DEF N, s, text

\* validate_changed_paths: it permits the text of a path just when the path is not one of the
\* repository's own, some allowed pattern means it and no denied one does.
THEOREM PolicyAsMeant ==
  ASSUME NEW allowed \in SUBSET Pattern, NEW denied \in SUBSET Pattern, NEW path \in Path
  PROVE  Permits(allowed, denied, Text(path)) <=> InScope(allowed, denied, path)
<1>1. \A pattern \in allowed \union denied : Matches(pattern, Text(path)) <=> Globs(pattern, path)
  BY MatchesAsMeant
<1>. QED
  BY <1>1, OwnedNames DEF Permits, InScope

-----------------------------------------------------------------------------
(* The list of changes that git writes, and what the parser makes of it.     *)

\* The text of a path, and what git says has become of one or two of them.
Words == Seq(Char \union {Slash}) \ {<<>>}

\* The statuses with one path,
PlainStatus == {<<"A">>, <<"D">>, <<"M">>, <<"T">>}

\* and what git may say of a file, or of two.
GitChange ==
  [status : PlainStatus, old : {None}, path : Words]
    \union [status : {<<"R", "9">>}, old : Words, path : Words]

\* What Parsed computes on the way.
Parses(from, list) ==
  /\ from[Len(list) + 1] = <<>>
  /\ \A i \in 1 .. Len(list) :
       from[i] = IF WellFormed(list, i) THEN <<Entry(list, i)>> \o from[i + Length(list[i])]
                 ELSE <<Unreadable>>
  /\ Parsed(list) = from[1]

\* Parsed goes through the list from the end.
LEMMA ParsedUnfolds ==
  ASSUME NEW T, NEW list \in Seq(T)
  PROVE  \E from : Parses(from, list)
<1>. DEFINE n == Len(list)
            A == {Entry(list, i) : i \in 1 .. n} \union {Unreadable}
            next == [i \in 1 .. n |-> IF WellFormed(list, i) THEN i + Length(list[i]) ELSE n + 1]
            After(i, x) == IF WellFormed(list, i) THEN <<Entry(list, i)>> \o x ELSE <<Unreadable>>
            step == [i \in 1 .. n |-> [x \in Seq(A) |-> After(i, x)]]
            P(f) == f = [i \in 1 .. n + 1 |->
                           IF i = n + 1 THEN <<>>
                           ELSE IF WellFormed(list, i)
                           THEN <<Entry(list, i)>> \o f[i + Length(list[i])]
                           ELSE <<Unreadable>>]
            chosen == CHOOSE f : P(f)
<1>1. Parsed(list) = chosen[1]
  BY DEF Parsed
<1>2. n \in Nat
  OBVIOUS
<1>3. ASSUME NEW i \in 1 .. n, WellFormed(list, i)
      PROVE  i + Length(list[i]) \in 1 .. n + 1 /\ i + Length(list[i]) > i
  <2>1. Length(list[i]) \in {2, 3}
    BY DEF Length
  <2>2. i + Length(list[i]) - 1 \in 1 .. n
    BY <1>3 DEF WellFormed
  <2>3. \A x, y, z \in Nat : x + y - 1 \in 1 .. z /\ y # 0 => x + y \in 1 .. z + 1 /\ x + y > x
    OBVIOUS
  <2>4. i \in Nat /\ Length(list[i]) \in Nat /\ Length(list[i]) # 0
    BY <1>2, <2>1
  <2>. QED
    BY <1>2, <2>2, <2>3, <2>4
<1>. HIDE DEF n
<1>4. \A i \in 1 .. n, x \in Seq(A) : After(i, x) \in Seq(A)
  <2>. SUFFICES ASSUME NEW i \in 1 .. n, NEW x \in Seq(A) PROVE After(i, x) \in Seq(A)
    OBVIOUS
  <2>1. Entry(list, i) \in A /\ Unreadable \in A
    OBVIOUS
  <2>. HIDE DEF A
  <2>2. <<Entry(list, i)>> \in Seq(A) /\ <<Unreadable>> \in Seq(A)
    BY <2>1
  <2>3. <<Entry(list, i)>> \o x \in Seq(A)
    BY <2>2, ConcatProperties
  <2>. QED
    BY <2>2, <2>3
<1>. HIDE DEF A
<1>5. next \in [1 .. n -> 1 .. n + 1] /\ \A i \in 1 .. n : next[i] > i
  <2>1. \A i \in 1 .. n : n + 1 \in 1 .. n + 1 /\ n + 1 > i
    BY <1>2
  <2>. QED
    BY <1>3, <2>1
<1>6. \A i \in 1 .. n : next[i] = IF WellFormed(list, i) THEN i + Length(list[i]) ELSE n + 1
  OBVIOUS
<1>. HIDE DEF After
<1>7. step \in [1 .. n -> [Seq(A) -> Seq(A)]] /\ <<>> \in Seq(A)
  BY <1>4, EmptySeq
<1>8. \A i \in 1 .. n, x \in Seq(A) : step[i][x] = After(i, x)
  OBVIOUS
<1>. HIDE DEF next, step, chosen
<1>9. PICK h : Downwards(h, n, Seq(A), <<>>, next, step)
  BY <1>2, <1>5, <1>7, BackwardRecursion
<1>10. /\ h \in [1 .. n + 1 -> Seq(A)] /\ h[n + 1] = <<>>
       /\ \A i \in 1 .. n : h[i] = step[i][h[next[i]]]
  BY <1>9 DEF Downwards
<1>11. \A i \in 1 .. n : h[i] = IF WellFormed(list, i)
                                THEN <<Entry(list, i)>> \o h[i + Length(list[i])]
                                ELSE <<Unreadable>>
  <2>1. SUFFICES ASSUME NEW i \in 1 .. n
                 PROVE  h[i] = IF WellFormed(list, i)
                               THEN <<Entry(list, i)>> \o h[i + Length(list[i])]
                               ELSE <<Unreadable>>
    OBVIOUS
  <2>2. h[next[i]] \in Seq(A)
    BY <1>5, <1>10
  <2>3. h[i] = After(i, h[next[i]])
    BY <1>8, <1>10, <2>2
  <2>. QED
    BY <1>6, <2>3 DEF After
<1>12. P(h)
  <2>1. \A i \in 1 .. n + 1 : i # n + 1 => i \in 1 .. n
    BY <1>2
  <2>2. \A i \in 1 .. n + 1 : h[i] = IF i = n + 1 THEN <<>>
                                     ELSE IF WellFormed(list, i)
                                     THEN <<Entry(list, i)>> \o h[i + Length(list[i])]
                                     ELSE <<Unreadable>>
    BY <1>10, <1>11, <2>1
  <2>. QED
    BY <1>10, <2>2
<1>13. P(chosen)
  BY <1>12 DEF chosen
<1>14. \A i \in 1 .. n + 1 : chosen[i] = IF i = n + 1 THEN <<>>
                                        ELSE IF WellFormed(list, i)
                                        THEN <<Entry(list, i)>> \o chosen[i + Length(list[i])]
                                        ELSE <<Unreadable>>
  BY <1>13, Zenon
<1>. HIDE DEF P
<1>15. n + 1 \in 1 .. n + 1 /\ \A i \in 1 .. n : i \in 1 .. n + 1 /\ i # n + 1
  BY <1>2
<1>16. Parses(chosen, list)
  <2>1. chosen[n + 1] = <<>>
    BY <1>14, <1>15
  <2>2. \A i \in 1 .. n : chosen[i] = IF WellFormed(list, i)
                                      THEN <<Entry(list, i)>> \o chosen[i + Length(list[i])]
                                      ELSE <<Unreadable>>
    BY <1>14, <1>15
  <2>. QED
    BY <1>1, <2>1, <2>2 DEF Parses, n
<1>. QED
  BY <1>16

\* The tokens of a change are as many as the parser takes for it, and say all of it.
LEMMA Tokens ==
  ASSUME NEW change \in GitChange
  PROVE  /\ TokensOf(change) \in Seq(UNION {Words, PlainStatus, {<<"R", "9">>}})
         /\ TokensOf(change)[1] = change.status
         /\ change.status[1] \in {"A", "C", "D", "M", "R", "T"}
         /\ IF TwoPaths(change.status)
            THEN Len(change.status) > 1 /\ Range(Tail(change.status)) \subseteq {"9"}
            ELSE Len(change.status) = 1
         /\ Len(TokensOf(change)) = Length(change.status)
         /\ Length(change.status) = 2 =>
              change = Change(change.status, None, TokensOf(change)[2])
         /\ Length(change.status) = 3 =>
              change = Change(change.status, TokensOf(change)[2], TokensOf(change)[3])
         /\ Length(change.status) \in {2, 3}
<1>. DEFINE W == UNION {Words, PlainStatus, {<<"R", "9">>}}
<1>1. CASE change \in [status : PlainStatus, old : {None}, path : Words]
  <2>1. change.status \in PlainStatus /\ change.old = None /\ change.path \in Words
        /\ change = [status |-> change.status, old |-> change.old, path |-> change.path]
    BY <1>1
  <2>2. TokensOf(change) = <<change.status, change.path>>
    BY <2>1 DEF TokensOf
  <2>3. change.status \in W /\ change.path \in W
    BY <2>1
  <2>4. /\ change.status[1] \in {"A", "D", "M", "T"} /\ Len(change.status) = 1
        /\ ~ TwoPaths(change.status)
    BY <2>1 DEF PlainStatus, TwoPaths
  <2>5. Length(change.status) = 2
    BY <2>4 DEF Length
  <2>. HIDE DEF W
  <2>. QED
    BY <2>1, <2>2, <2>3, <2>4, <2>5 DEF Change, W
<1>2. CASE change \in [status : {<<"R", "9">>}, old : Words, path : Words]
  <2>1. change.status = <<"R", "9">> /\ change.old \in Words /\ change.path \in Words
        /\ change.old # None
        /\ change = [status |-> change.status, old |-> change.old, path |-> change.path]
    BY <1>2 DEF Words, None
  <2>2. TokensOf(change) = <<change.status, change.old, change.path>>
    BY <2>1 DEF TokensOf
  <2>3. change.status \in W /\ change.old \in W /\ change.path \in W
    BY <2>1
  <2>4. change.status[1] = "R" /\ Len(change.status) = 2 /\ TwoPaths(change.status)
    BY <2>1 DEF TwoPaths
  <2>5. Length(change.status) = 3
    BY <2>4 DEF Length
  <2>6. Range(Tail(change.status)) \subseteq {"9"}
    <3>1. Tail(<<"R", "9">>) = <<"9">>
      OBVIOUS
    <3>2. Range(<<"9">>) \subseteq {"9"}
      BY DEF Range
    <3>. QED
      BY <2>1, <3>1, <3>2
  <2>. HIDE DEF W
  <2>. QED
    BY <2>1, <2>2, <2>3, <2>4, <2>5, <2>6 DEF Change, W
<1>. QED
  BY <1>1, <1>2 DEF GitChange

\* The list that git writes.
Listed(list) == FlattenSeq([i \in DOMAIN list |-> TokensOf(list[i])])

\* The rest of a sequence is its first element and the rest of that.
LEMMA Unwind ==
  ASSUME NEW T, NEW s \in Seq(T), NEW i \in 1 .. Len(s)
  PROVE  SubSeq(s, i, Len(s)) = <<s[i]>> \o SubSeq(s, i + 1, Len(s))
<1>. DEFINE n == Len(s)
            t == SubSeq(s, i, n)
            u == SubSeq(s, i + 1, n)
            v == <<s[i]>> \o u
<1>1. n \in Nat /\ i \in Nat /\ i >= 1 /\ i <= n /\ s[i] \in T
  OBVIOUS
<1>2. t \in Seq(T) /\ Len(t) = n - i + 1 /\ \A x \in 1 .. n - i + 1 : t[x] = s[i + x - 1]
  <2>1. \A x \in i .. n : s[x] \in T
    BY <1>1
  <2>. QED
    BY <1>1, <2>1, SubSeqProperties
<1>3. u \in Seq(T) /\ Len(u) = n - i /\ \A x \in 1 .. n - i : u[x] = s[i + x]
  <2>. DEFINE m == i + 1
  <2>1. \A x \in m .. n : s[x] \in T
    BY <1>1
  <2>2. /\ m \in Int /\ n \in Int /\ n - m + 1 = n - i
        /\ \A x \in 1 .. n - i : m + x - 1 = i + x
        /\ m <= n \/ n - i = 0
    BY <1>1
  <2>. HIDE DEF m, n
  <2>3. /\ SubSeq(s, m, n) \in Seq(T)
        /\ Len(SubSeq(s, m, n)) = IF m <= n THEN n - m + 1 ELSE 0
        /\ \A x \in 1 .. n - m + 1 : SubSeq(s, m, n)[x] = s[m + x - 1]
    BY <2>1, <2>2, SubSeqProperties
  <2>. QED
    BY <2>2, <2>3 DEF m
<1>. HIDE DEF t, u
<1>4. <<s[i]>> \in Seq(T) /\ Len(<<s[i]>>) = 1 /\ <<s[i]>>[1] = s[i]
  BY <1>1
<1>5. /\ v \in Seq(T) /\ Len(v) = 1 + (n - i)
      /\ \A p \in 1 .. 1 : v[p] = <<s[i]>>[p]
      /\ \A p \in 1 .. n - i : v[1 + p] = u[p]
  <2>. DEFINE one == <<s[i]>>
  <2>1. one \in Seq(T) /\ Len(one) = 1
    BY <1>4
  <2>. HIDE DEF one
  <2>2. /\ v \in Seq(T) /\ Len(v) = Len(one) + Len(u)
        /\ \A p \in 1 .. Len(one) : v[p] = one[p]
        /\ \A p \in 1 .. Len(u) : v[Len(one) + p] = u[p]
    <3>1. v = one \o u
      BY DEF one
    <3>. HIDE DEF v
    <3>. HIDE DEF n
    <3>2. u \in Seq(T)
      BY <1>3
    <3>3. v \in Seq(T) /\ Joined(v, one, u)
      BY <2>1, <3>1, <3>2, ConcatParts
    <3>. QED
      BY <3>3 DEF Joined
  <2>. HIDE DEF v
  <2>. QED
    BY <1>3, <2>1, <2>2 DEF one
<1>. HIDE DEF v
<1>6. \A x \in 1 .. n - i + 1 : t[x] = v[x]
  <2>1. SUFFICES ASSUME NEW x \in 1 .. n - i + 1 PROVE t[x] = v[x]
    OBVIOUS
  <2>2. CASE x = 1
    <3>1. i + x - 1 = i /\ x \in 1 .. 1
      BY <1>1, <2>2
    <3>. QED
      BY <1>2, <1>4, <1>5, <2>2, <3>1
  <2>3. CASE x # 1
    <3>. DEFINE y == x - 1
    <3>1. y \in 1 .. n - i /\ 1 + y = x /\ i + y = i + x - 1
      BY <1>1, <2>3
    <3>. HIDE DEF y, n
    <3>2. v[1 + y] = u[y] /\ u[y] = s[i + y]
      BY <1>3, <1>5, <3>1
    <3>. QED
      BY <1>2, <3>1, <3>2
  <2>. QED
    BY <2>2, <2>3
<1>7. Len(t) = Len(v)
  BY <1>1, <1>2, <1>5
<1>8. t = v
  BY <1>2, <1>5, <1>6, <1>7, SeqEqual
<1>. QED
  BY <1>8 DEF t, v, u, n

\* parse_name_status_z: what the parser makes of such a list is the changes that git has written
\* down, in their order, whatever their paths are.
THEOREM ParsesBack ==
  ASSUME NEW list \in Seq(GitChange)
  PROVE  Parsed(Listed(list)) = list
<1>. DEFINE K == Len(list)
            T == UNION {Words, PlainStatus, {<<"R", "9">>}}
            seqs == [i \in DOMAIN list |-> TokensOf(list[i])]
            flat == Listed(list)
            n == Len(flat)
<1>1. K \in Nat /\ DOMAIN list = 1 .. K /\ \A i \in 1 .. K : list[i] \in GitChange
  OBVIOUS
<1>. HIDE DEF T
<1>2. \A i \in 1 .. K : TokensOf(list[i]) \in Seq(T)
  BY <1>1, Tokens DEF T
<1>. HIDE DEF K
<1>3. /\ seqs \in Seq(Seq(T)) /\ Len(seqs) = K
      /\ \A i \in 1 .. K : seqs[i] = TokensOf(list[i])
      /\ K # 0 => seqs # <<>>
  <2>1. seqs \in [1 .. K -> Seq(T)] /\ \A i \in 1 .. K : seqs[i] = TokensOf(list[i])
    BY <1>1, <1>2
  <2>. HIDE DEF seqs
  <2>2. seqs \in Seq(Seq(T)) /\ Len(seqs) = K
    BY <1>1, <2>1
  <2>. QED
    BY <2>1, <2>2, EmptySeq
<1>4. flat = FlattenSeq(seqs)
  BY DEF Listed
<1>. HIDE DEF seqs, flat
<1>5. CASE K = 0
  <2>1. seqs = <<>> /\ list = <<>>
    BY <1>1, <1>3, <1>5, EmptySeq DEF K
  <2>2. flat = <<>>
    BY <1>4, <2>1 DEF FlattenSeq
  <2>3. flat \in Seq(T) /\ n = 0
    BY <2>2
  <2>4. PICK from : Parses(from, flat)
    BY <2>3, ParsedUnfolds
  <2>5. Parsed(flat) = <<>>
    BY <2>3, <2>4 DEF Parses
  <2>. QED
    BY <2>1, <2>5 DEF flat
<1>6. CASE K # 0
  <2>1. flat \in Seq(T) /\ \E off : Placed(off, seqs, flat)
    BY <1>3, <1>4, <1>6, FlattenPlaces
  <2>2. PICK off : Placed(off, seqs, flat)
    BY <2>1
  <2>3. PICK from : Parses(from, flat)
    BY <2>1, ParsedUnfolds
  <2>4. n \in Nat /\ DOMAIN flat = 1 .. n
    BY <2>1
  <2>5. /\ off \in [1 .. K + 1 -> Nat] /\ off[1] = 1 /\ n + 1 = off[K + 1]
        /\ \A k \in 1 .. K : off[k] >= 1 /\ off[k + 1] = off[k] + Len(seqs[k])
        /\ \A k \in 1 .. K : \A j \in 1 .. Len(seqs[k]) :
             off[k] - 1 + j \in 1 .. n /\ flat[off[k] - 1 + j] = seqs[k][j]
    BY <1>3, <2>2 DEF Placed
  <2>6. /\ from[n + 1] = <<>> /\ Parsed(flat) = from[1]
        /\ \A i \in 1 .. n :
             from[i] = IF WellFormed(flat, i) THEN <<Entry(flat, i)>> \o from[i + Length(flat[i])]
                       ELSE <<Unreadable>>
    BY <2>3 DEF Parses
  <2>. HIDE DEF n
  <2>7. ASSUME NEW k \in 1 .. K PROVE from[off[k]] = <<list[k]>> \o from[off[k + 1]]
    <3>. DEFINE p == off[k]
                c == list[k]
                m == Length(c.status)
    <3>1. c \in GitChange /\ k \in 1 .. K + 1
      BY <1>1
    <3>2. p \in Nat /\ p >= 1
      BY <2>5, <3>1
    <3>3. /\ TokensOf(c)[1] = c.status
          /\ c.status[1] \in {"A", "C", "D", "M", "R", "T"}
          /\ IF TwoPaths(c.status)
             THEN Len(c.status) > 1 /\ Range(Tail(c.status)) \subseteq {"9"}
             ELSE Len(c.status) = 1
          /\ Len(TokensOf(c)) = m
          /\ m = 2 => c = Change(c.status, None, TokensOf(c)[2])
          /\ m = 3 => c = Change(c.status, TokensOf(c)[2], TokensOf(c)[3])
          /\ m \in {2, 3}
      BY <3>1, Tokens
    <3>. HIDE DEF c, m
    <3>4. seqs[k] = TokensOf(c) /\ Len(seqs[k]) = m
      BY <1>3, <3>3 DEF c
    <3>5. off[k + 1] = p + m
      BY <2>5, <3>4
    <3>6. \A j \in 1 .. m : p - 1 + j \in 1 .. n /\ flat[p - 1 + j] = TokensOf(c)[j]
      BY <2>5, <3>4
    <3>. HIDE DEF p
    <3>7. p \in 1 .. n /\ flat[p] = c.status
      <4>1. 1 \in 1 .. m /\ p - 1 + 1 = p
        BY <3>2, <3>3
      <4>. QED
        BY <3>3, <3>6, <4>1
    <3>8. p + m - 1 \in 1 .. n /\ flat[p + m - 1] = TokensOf(c)[m]
      <4>1. m \in 1 .. m /\ p - 1 + m = p + m - 1
        BY <3>2, <3>3
      <4>. QED
        BY <3>6, <4>1
    <3>9. flat[p + 1] = TokensOf(c)[2]
      <4>1. 2 \in 1 .. m /\ p - 1 + 2 = p + 1
        BY <3>2, <3>3
      <4>. QED
        BY <3>6, <4>1
    <3>10. WellFormed(flat, p)
      BY <2>4, <3>3, <3>7, <3>8 DEF WellFormed, m
    <3>11. Entry(flat, p) = c
      <4>1. Entry(flat, p) = Change(c.status, IF p + m - 1 = p + 2 THEN flat[p + 1] ELSE None,
                                    flat[p + m - 1])
        BY <3>7 DEF Entry, m
      <4>2. p + m - 1 = p + 2 <=> m = 3
        BY <3>2, <3>3
      <4>3. CASE m = 2
        BY <3>3, <3>8, <4>1, <4>2, <4>3
      <4>4. CASE m = 3
        BY <3>3, <3>8, <3>9, <4>1, <4>2, <4>4
      <4>. QED
        BY <3>3, <4>3, <4>4
    <3>12. from[p] = <<Entry(flat, p)>> \o from[p + Length(flat[p])]
      BY <2>6, <3>7, <3>10
    <3>. QED
      BY <3>5, <3>7, <3>11, <3>12 DEF p, c, m
  <2>. DEFINE F == [i \in 1 .. K + 1 |-> from[off[i]]]
              G == [i \in 1 .. K + 1 |-> SubSeq(list, i, K)]
  <2>8. \A i \in 1 .. K : i \in 1 .. K + 1 /\ i + 1 \in 1 .. K + 1 /\ i + 1 \in i + 1 .. K + 1
    BY <1>1
  <2>9. F[K + 1] = G[K + 1]
    <3>1. K + 1 \in 1 .. K + 1
      BY <1>1
    <3>2. F[K + 1] = <<>>
      BY <2>5, <2>6, <3>1
    <3>3. SubSeq(list, K + 1, K) = <<>>
      <4>1. K + 1 \in Int /\ K \in Int /\ K < K + 1
        BY <1>1
      <4>. QED
        BY <4>1, SubSeqEmpty
    <3>. QED
      BY <3>1, <3>2, <3>3
  <2>10. ASSUME NEW i \in 1 .. K, \A j \in i + 1 .. K + 1 : F[j] = G[j] PROVE F[i] = G[i]
    <3>1. F[i + 1] = G[i + 1]
      BY <2>8, <2>10
    <3>2. F[i] = <<list[i]>> \o F[i + 1]
      BY <2>7, <2>8
    <3>3. G[i] = <<list[i]>> \o G[i + 1]
      <4>1. SubSeq(list, i, K) = <<list[i]>> \o SubSeq(list, i + 1, K)
        BY Unwind DEF K
      <4>. QED
        BY <2>8, <4>1
    <3>. QED
      BY <3>1, <3>2, <3>3
  <2>11. F[1] = G[1]
    <3>. HIDE DEF F, G
    <3>1. AgreeOn(1 .. K + 1, F, G)
      BY <1>1, <2>9, <2>10, SameDownwards
    <3>2. 1 \in 1 .. K + 1
      BY <1>1
    <3>. QED
      BY <3>1, <3>2 DEF AgreeOn
  <2>12. 1 \in 1 .. K + 1
    BY <1>1
  <2>13. F[1] = from[1] /\ G[1] = SubSeq(list, 1, K)
    BY <2>5, <2>12
  <2>14. SubSeq(list, 1, K) = list
    BY SubSeqFull DEF K
  <2>. QED
    BY <2>6, <2>11, <2>13, <2>14 DEF flat
<1>. QED
  BY <1>5, <1>6

-----------------------------------------------------------------------------
(* What the changes say of the files.                                        *)

\* The text of a path is a word.
LEMMA TextWords ==
  ASSUME NEW path \in Path
  PROVE  Text(path) \in Words
<1>. DEFINE text == Text(path)
            n == Len(path[1])
<1>1. 1 \in 1 .. Len(path) /\ n \in Nat /\ n >= 1
  BY PathTypes
<1>2. PICK off : Layout(off, path, text)
  BY TextLayout
<1>3. text \in Seq(Char \union {Slash}) /\ off[1] = 1
  BY <1>2 DEF Layout
<1>. HIDE DEF text
<1>4. 1 \in 1 .. n + 1 /\ 1 # n + 1 /\ off[1] - 1 + 1 = 1
  BY <1>1, <1>3
<1>5. off[1] - 1 + 1 \in 1 .. Len(text)
  BY <1>1, <1>2, <1>4, AtPosition
<1>6. text # <<>>
  BY <1>4, <1>5
<1>. QED
  BY <1>3, <1>6 DEF Words, text

\* SetToSeq lists each element of a finite set, and nothing else.
LEMMA ListsAll ==
  ASSUME NEW S, IsFiniteSet(S)
  PROVE  /\ SetToSeq(S) \in Seq(S)
         /\ \A x \in S : \E i \in DOMAIN SetToSeq(S) : SetToSeq(S)[i] = x
         /\ \A i \in DOMAIN SetToSeq(S) : SetToSeq(S)[i] \in S
<1>. DEFINE n == Cardinality(S)
            list == SetToSeq(S)
<1>1. n \in Nat /\ Bijection(1 .. n, S) # {}
  BY FS_CardinalityType DEF ExistsBijection
<1>2. \E g \in [1 .. n -> S] : IsInjective(g)
  BY <1>1 DEF Bijection, Injection
<1>3. list \in [1 .. n -> S] /\ IsInjective(list)
  BY <1>2 DEF SetToSeq
<1>. HIDE DEF list, n
<1>4. list \in Injection(1 .. n, S)
  BY <1>3 DEF Injection
<1>5. Cardinality(1 .. n) = n
  <2>1. Cardinality(1 .. n) = IF 1 > n THEN 0 ELSE n - 1 + 1
    BY <1>1, FS_Interval
  <2>. QED
    BY <1>1, <2>1
<1>6. list \in Surjection(1 .. n, S)
  BY <1>4, <1>5, FS_Injection DEF n
<1>7. DOMAIN list = 1 .. n /\ list \in Seq(S)
  BY <1>1, <1>3
<1>. QED
  BY <1>3, <1>6, <1>7 DEF Surjection, list

\* A function on a finite set has finitely many values.
LEMMA FiniteRange ==
  ASSUME NEW f, IsFiniteSet(DOMAIN f), f = [x \in DOMAIN f |-> f[x]]
  PROVE  IsFiniteSet(Range(f))
<1>1. f \in [DOMAIN f -> Range(f)]
  BY DEF Range
<1>2. f \in Surjection(DOMAIN f, Range(f))
  BY <1>1 DEF Surjection, Range
<1>. QED
  BY <1>2, FS_Surjection

\* Only files that are gone are renamed, to files that are new.
LEMMA RenamingTypes ==
  ASSUME NEW renaming \in Renamings
  PROVE  /\ DOMAIN renaming \subseteq Deleted
         /\ \A f \in DOMAIN renaming : renaming[f] \in Added /\ tree[renaming[f]] # "odd"
         /\ Range(renaming) \subseteq {f \in Added : tree[f] # "odd"}
  BY DEF Renamings, Injection, Range

\* What git reports are changes, and finitely many.
LEMMA ReportTypes ==
  ASSUME NEW renaming \in Renamings
  PROVE  ChangesOf(renaming) \subseteq GitChange /\ IsFiniteSet(ChangesOf(renaming))
<1>. DEFINE Renamed == [f \in DOMAIN renaming |-> Change(<<"R", "9">>, Text(f), Text(renaming[f]))]
            Gone == [f \in Deleted \ DOMAIN renaming |-> Change(<<"D">>, None, Text(f))]
            New == [f \in Added \ Range(renaming) |-> Change(<<"A">>, None, Text(f))]
            Other == [f \in Modified |->
                       Change(IF tree[f] = "odd" THEN <<"T">> ELSE <<"M">>, None, Text(f))]
<1>1. /\ Deleted \subseteq File /\ Added \subseteq File /\ Modified \subseteq File
      /\ DOMAIN renaming \subseteq Deleted
      /\ \A f \in DOMAIN renaming : renaming[f] \in Added
  BY RenamingTypes DEF Deleted, Added, Modified
<1>2. \A f \in File : Text(f) \in Words
  BY TextWords, CaptureAssumption
<1>3. ChangesOf(renaming) = UNION {Range(Renamed), Range(Gone), Range(New), Range(Other)}
  <2>1. Range(Renamed) = {Change(<<"R", "9">>, Text(f), Text(renaming[f])) : f \in DOMAIN renaming}
    BY DEF Range
  <2>2. Range(Gone) = {Change(<<"D">>, None, Text(f)) : f \in Deleted \ DOMAIN renaming}
    BY DEF Range
  <2>3. Range(New) = {Change(<<"A">>, None, Text(f)) : f \in Added \ Range(renaming)}
    BY DEF Range
  <2>4. Range(Other) = {Change(IF tree[f] = "odd" THEN <<"T">> ELSE <<"M">>, None, Text(f))
                         : f \in Modified}
    BY DEF Range
  <2>. HIDE DEF Renamed, Gone, New, Other
  <2>. QED
    BY <2>1, <2>2, <2>3, <2>4 DEF ChangesOf
<1>4. Range(Renamed) \subseteq GitChange
  BY <1>1, <1>2 DEF Range, GitChange, Change
<1>5. Range(Gone) \subseteq GitChange
  BY <1>1, <1>2 DEF Range, GitChange, Change, PlainStatus
<1>6. Range(New) \subseteq GitChange
  BY <1>1, <1>2 DEF Range, GitChange, Change, PlainStatus
<1>7. Range(Other) \subseteq GitChange
  BY <1>1, <1>2 DEF Range, GitChange, Change, PlainStatus
<1>8. \A S \in SUBSET File : IsFiniteSet(S)
  BY CaptureAssumption, FS_Subset
<1>9. /\ IsFiniteSet(Range(Renamed)) /\ IsFiniteSet(Range(Gone))
      /\ IsFiniteSet(Range(New)) /\ IsFiniteSet(Range(Other))
  <2>1. IsFiniteSet(Range(Renamed))
    <3>1. IsFiniteSet(DOMAIN Renamed) /\ Renamed = [x \in DOMAIN Renamed |-> Renamed[x]]
      BY <1>1, <1>8
    <3>. HIDE DEF Renamed
    <3>. QED
      BY <3>1, FiniteRange
  <2>2. IsFiniteSet(Range(Gone))
    <3>1. IsFiniteSet(DOMAIN Gone) /\ Gone = [x \in DOMAIN Gone |-> Gone[x]]
      BY <1>1, <1>8
    <3>. HIDE DEF Gone
    <3>. QED
      BY <3>1, FiniteRange
  <2>3. IsFiniteSet(Range(New))
    <3>1. IsFiniteSet(DOMAIN New) /\ New = [x \in DOMAIN New |-> New[x]]
      BY <1>1, <1>8
    <3>. HIDE DEF New
    <3>. QED
      BY <3>1, FiniteRange
  <2>4. IsFiniteSet(Range(Other))
    <3>1. IsFiniteSet(DOMAIN Other) /\ Other = [x \in DOMAIN Other |-> Other[x]]
      BY <1>1, <1>8
    <3>. HIDE DEF Other
    <3>. QED
      BY <3>1, FiniteRange
  <2>. QED
    BY <2>1, <2>2, <2>3, <2>4
<1>. HIDE DEF Renamed, Gone, New, Other
<1>10. ChangesOf(renaming) = ((Range(Renamed) \union Range(Gone)) \union Range(New)) \union Range(Other)
  BY <1>3
<1>11. IsFiniteSet(Range(Renamed) \union Range(Gone))
  BY <1>9, FS_Union
<1>12. IsFiniteSet((Range(Renamed) \union Range(Gone)) \union Range(New))
  BY <1>9, <1>11, FS_Union
<1>13. IsFiniteSet(ChangesOf(renaming))
  BY <1>9, <1>10, <1>12, FS_Union
<1>. QED
  BY <1>3, <1>4, <1>5, <1>6, <1>7, <1>13

\* What git reports touches just the files that have changed.
LEMMA ReportPaths ==
  ASSUME NEW renaming \in Renamings
  PROVE  /\ \A f \in Touched : \E change \in ChangesOf(renaming) : Text(f) \in PathsOf(change)
         /\ \A change \in ChangesOf(renaming) : \A text \in PathsOf(change) :
              \E f \in Touched : text = Text(f)
         /\ \A f \in Touched : tree[f] = "odd" =>
              \E change \in ChangesOf(renaming) : change.path = Text(f) /\ change.status # <<"D">>
         /\ \A change \in ChangesOf(renaming) : change.status # <<"D">> =>
              \E f \in Touched : change.path = Text(f) /\ tree[f] # "absent"
<1>1. /\ Deleted \subseteq File /\ Added \subseteq File /\ Modified \subseteq File
      /\ DOMAIN renaming \subseteq Deleted
      /\ \A f \in DOMAIN renaming : renaming[f] \in Added
      /\ Range(renaming) \subseteq {f \in Added : tree[f] # "odd"}
  BY RenamingTypes DEF Deleted, Added, Modified
<1>2. \A f \in File : Text(f) # None
  BY TextWords, CaptureAssumption DEF Words, None
<1>3. ASSUME NEW f \in Touched
      PROVE  \E change \in ChangesOf(renaming) : Text(f) \in PathsOf(change)
  <2>1. f \in File
    BY <1>1 DEF Touched
  <2>2. CASE f \in DOMAIN renaming
    <3>. DEFINE change == Change(<<"R", "9">>, Text(f), Text(renaming[f]))
    <3>1. change \in ChangesOf(renaming)
      BY <2>2 DEF ChangesOf
    <3>2. Text(f) \in PathsOf(change)
      BY <1>2, <2>1 DEF PathsOf, Change
    <3>. QED
      BY <3>1, <3>2
  <2>3. CASE f \in Deleted \ DOMAIN renaming
    <3>. DEFINE change == Change(<<"D">>, None, Text(f))
    <3>1. change \in ChangesOf(renaming)
      BY <2>3 DEF ChangesOf
    <3>2. Text(f) \in PathsOf(change)
      BY <1>2, <2>1 DEF PathsOf, Change
    <3>. QED
      BY <3>1, <3>2
  <2>4. CASE f \in Range(renaming)
    <3>1. PICK g \in DOMAIN renaming : f = renaming[g]
      BY <2>4 DEF Range
    <3>. DEFINE change == Change(<<"R", "9">>, Text(g), Text(renaming[g]))
    <3>2. change \in ChangesOf(renaming)
      BY DEF ChangesOf
    <3>3. Text(f) \in PathsOf(change)
      BY <1>2, <2>1, <3>1 DEF PathsOf, Change
    <3>. QED
      BY <3>2, <3>3
  <2>5. CASE f \in Added \ Range(renaming)
    <3>. DEFINE change == Change(<<"A">>, None, Text(f))
    <3>1. change \in ChangesOf(renaming)
      BY <2>5 DEF ChangesOf
    <3>2. Text(f) \in PathsOf(change)
      BY <1>2, <2>1 DEF PathsOf, Change
    <3>. QED
      BY <3>1, <3>2
  <2>6. CASE f \in Modified
    <3>. DEFINE change == Change(IF tree[f] = "odd" THEN <<"T">> ELSE <<"M">>, None, Text(f))
    <3>1. change \in ChangesOf(renaming)
      BY <2>6 DEF ChangesOf
    <3>2. Text(f) \in PathsOf(change)
      BY <1>2, <2>1 DEF PathsOf, Change
    <3>. QED
      BY <3>1, <3>2
  <2>. QED
    BY <2>2, <2>3, <2>4, <2>5, <2>6 DEF Touched
<1>4. ASSUME NEW change \in ChangesOf(renaming), NEW text \in PathsOf(change)
      PROVE  \E f \in Touched : text = Text(f)
  <2>1. CASE \E f \in DOMAIN renaming : change = Change(<<"R", "9">>, Text(f), Text(renaming[f]))
    BY <1>1, <2>1 DEF PathsOf, Change, Touched
  <2>2. CASE \E f \in Deleted : change = Change(<<"D">>, None, Text(f))
    BY <2>2 DEF PathsOf, Change, Touched
  <2>3. CASE \E f \in Added : change = Change(<<"A">>, None, Text(f))
    BY <2>3 DEF PathsOf, Change, Touched
  <2>4. CASE \E f \in Modified :
               change = Change(IF tree[f] = "odd" THEN <<"T">> ELSE <<"M">>, None, Text(f))
    BY <2>4 DEF PathsOf, Change, Touched
  <2>. QED
    BY <2>1, <2>2, <2>3, <2>4 DEF ChangesOf
<1>5. ASSUME NEW f \in Touched, tree[f] = "odd"
      PROVE  \E change \in ChangesOf(renaming) : change.path = Text(f) /\ change.status # <<"D">>
  <2>1. f \notin Deleted /\ f \notin Range(renaming)
    BY <1>1, <1>5 DEF Deleted
  <2>2. CASE f \in Added
    <3>. DEFINE change == Change(<<"A">>, None, Text(f))
    <3>1. change \in ChangesOf(renaming)
      BY <2>1, <2>2 DEF ChangesOf
    <3>2. change.path = Text(f) /\ change.status # <<"D">>
      BY DEF Change
    <3>. QED
      BY <3>1, <3>2
  <2>3. CASE f \in Modified
    <3>. DEFINE change == Change(IF tree[f] = "odd" THEN <<"T">> ELSE <<"M">>, None, Text(f))
    <3>1. change \in ChangesOf(renaming)
      BY <2>3 DEF ChangesOf
    <3>2. change.path = Text(f) /\ change.status # <<"D">>
      BY <1>5 DEF Change
    <3>. QED
      BY <3>1, <3>2
  <2>. QED
    BY <2>1, <2>2, <2>3 DEF Touched
<1>6. ASSUME NEW change \in ChangesOf(renaming), change.status # <<"D">>
      PROVE  \E f \in Touched : change.path = Text(f) /\ tree[f] # "absent"
  <2>1. /\ \A f \in Added : f \in Touched /\ tree[f] # "absent"
        /\ \A f \in Modified : f \in Touched /\ tree[f] # "absent"
    BY DEF Touched, Added, Modified, Deleted
  <2>2. CASE \E f \in DOMAIN renaming : change = Change(<<"R", "9">>, Text(f), Text(renaming[f]))
    BY <1>1, <2>1, <2>2 DEF Change
  <2>3. CASE \E f \in Deleted : change = Change(<<"D">>, None, Text(f))
    BY <1>6, <2>3 DEF Change
  <2>4. CASE \E f \in Added : change = Change(<<"A">>, None, Text(f))
    BY <2>1, <2>4 DEF Change
  <2>5. CASE \E f \in Modified :
               change = Change(IF tree[f] = "odd" THEN <<"T">> ELSE <<"M">>, None, Text(f))
    BY <2>1, <2>5 DEF Change
  <2>. QED
    BY <2>2, <2>3, <2>4, <2>5 DEF ChangesOf
<1>. QED
  BY <1>3, <1>4, <1>5, <1>6

-----------------------------------------------------------------------------
(* The invariant of a capture, and its theorems.                             *)

\* What git has reported, and how it has written it.
ReportInv ==
  /\ \E renaming \in Renamings : reported = SetToSeq(ChangesOf(renaming))
  /\ tokens = Listed(reported)

\* The inductive invariant of a capture.
CaptureInv ==
  /\ tree \in [File -> Object] /\ policy \in Policy
  /\ verdict \in {"none", "reported", "read", "unreadable", "empty", "counted", "too_many",
                  "permitted", "path_denied", "captured", "object_denied", "git_failed"}
  /\ verdict # "none" => ReportInv
  /\ verdict \notin {"none", "reported"} => changes = reported
  /\ verdict \in {"counted", "permitted", "captured", "path_denied"} => changes # <<>>
  /\ verdict \in {"permitted", "captured"} => PathsPermitted
  /\ verdict = "path_denied" => ~ PathsPermitted
  /\ verdict = "captured" =>
       /\ \E listed \in Listings : ObjectsPermitted(listed)
       /\ patch = [f \in Touched |-> tree[f]]

\* The list of all changes, and what its paths are.
LEMMA ReportMeans ==
  ASSUME ReportInv
  PROVE  /\ reported \in Seq(GitChange)
         /\ reported # <<>> => Touched # {}
         /\ \A f \in Touched : \E i \in DOMAIN reported : Text(f) \in PathsOf(reported[i])
         /\ \A i \in DOMAIN reported : \A text \in PathsOf(reported[i]) :
              \E f \in Touched : text = Text(f)
         /\ \A f \in Touched : tree[f] = "odd" =>
              \E i \in DOMAIN reported :
                reported[i].path = Text(f) /\ reported[i].status # <<"D">>
         /\ \A i \in DOMAIN reported : reported[i].status # <<"D">> =>
              \E f \in Touched : reported[i].path = Text(f) /\ tree[f] # "absent"
<1>1. PICK renaming \in Renamings : reported = SetToSeq(ChangesOf(renaming))
  BY DEF ReportInv
<1>. DEFINE S == ChangesOf(renaming)
<1>2. S \subseteq GitChange /\ IsFiniteSet(S)
  BY ReportTypes
<1>3. /\ \A f \in Touched : \E change \in S : Text(f) \in PathsOf(change)
      /\ \A change \in S : \A text \in PathsOf(change) : \E f \in Touched : text = Text(f)
      /\ \A f \in Touched : tree[f] = "odd" =>
           \E change \in S : change.path = Text(f) /\ change.status # <<"D">>
      /\ \A change \in S : change.status # <<"D">> =>
           \E f \in Touched : change.path = Text(f) /\ tree[f] # "absent"
  BY ReportPaths
<1>. HIDE DEF S
<1>4. /\ reported \in Seq(S)
      /\ \A x \in S : \E i \in DOMAIN reported : reported[i] = x
      /\ \A i \in DOMAIN reported : reported[i] \in S
  BY <1>1, <1>2, ListsAll DEF S
<1>5. reported \in Seq(GitChange)
  BY <1>2, <1>4
<1>6. ASSUME reported # <<>> PROVE Touched # {}
  <2>1. 1 \in DOMAIN reported
    BY <1>4, <1>6
  <2>2. reported[1] \in S /\ reported[1] \in GitChange
    BY <1>2, <1>4, <2>1
  <2>3. reported[1].path \in PathsOf(reported[1])
    BY <2>2 DEF GitChange, PathsOf, Words, None
  <2>. QED
    BY <1>3, <2>2, <2>3
<1>. QED
  BY <1>3, <1>4, <1>5, <1>6

\* It holds at the start,
LEMMA CaptureStarts == CaptureInit => CaptureInv
  BY DEF CaptureInit, CaptureInv

\* and every step keeps it.
LEMMA CaptureSteps == CaptureInv /\ [CaptureNext]_captureVars => CaptureInv'
<1>. SUFFICES ASSUME CaptureInv, [CaptureNext]_captureVars PROVE CaptureInv'
  OBVIOUS
<1>1. CASE ReportChanges
  <2>1. Touched' = Touched /\ Renamings' = Renamings /\ tree' = tree /\ policy' = policy
    BY <1>1 DEF ReportChanges, Touched, Renamings, Deleted, Added, Modified
  <2>2. PICK renaming \in Renamings : reported' = SetToSeq(ChangesOf(renaming))
    BY <1>1 DEF ReportChanges
  <2>3. ChangesOf(renaming)' = ChangesOf(renaming)
    BY <2>1 DEF ChangesOf, Deleted, Added, Modified
  <2>4. tokens' = Listed(reported')
    BY <1>1 DEF ReportChanges, Listed
  <2>5. ReportInv'
    BY <2>1, <2>2, <2>3, <2>4 DEF ReportInv
  <2>. QED
    BY <1>1, <2>1, <2>5 DEF CaptureInv, ReportChanges
<1>2. ASSUME UNCHANGED <<tree, reported, tokens>> PROVE ReportInv' = ReportInv
  BY <1>2 DEF ReportInv, Renamings, ChangesOf, Deleted, Added, Modified
<1>3. CASE Read
  <2>1. UNCHANGED <<tree, policy, reported, tokens>> /\ verdict = "reported"
        /\ changes' = Parsed(tokens) /\ verdict' \in {"unreadable", "read"}
    BY <1>3 DEF Read
  <2>2. ReportInv /\ ReportInv'
    BY <1>2, <2>1 DEF CaptureInv
  <2>3. reported \in Seq(GitChange) /\ tokens = Listed(reported)
    BY <2>2, ReportMeans DEF ReportInv
  <2>4. changes' = reported
    BY <2>1, <2>3, ParsesBack
  <2>. QED
    BY <2>1, <2>2, <2>4 DEF CaptureInv
<1>4. ASSUME UNCHANGED <<tree, policy, reported, tokens, changes>>
      PROVE  /\ PathsPermitted' = PathsPermitted /\ Touched' = Touched
             /\ (\E listed \in Listings : ObjectsPermitted(listed))'
                  = \E listed \in Listings : ObjectsPermitted(listed)
  BY <1>4 DEF PathsPermitted, Listings, Named, Asked, ObjectsPermitted, Touched, Deleted, Added,
     Modified
<1>5. CASE RefuseEmpty
  BY <1>2, <1>4, <1>5 DEF CaptureInv, RefuseEmpty, Refuse
<1>6. CASE CheckCount
  BY <1>2, <1>4, <1>6 DEF CaptureInv, CheckCount, Refuse
<1>7. CASE CheckPaths
  BY <1>2, <1>4, <1>7 DEF CaptureInv, CheckPaths, Refuse
<1>8. CASE Capture
  <2>1. /\ verdict = "permitted" /\ UNCHANGED <<tree, policy, reported, tokens, changes>>
        /\ verdict' \in {"captured", "object_denied"}
        /\ verdict' = "captured" => /\ \E listed \in Listings : ObjectsPermitted(listed)
                                    /\ patch' = [f \in Touched |-> tree[f]]
    BY <1>8 DEF Capture
  <2>2. [f \in Touched |-> tree[f]]' = [f \in Touched |-> tree[f]]
    BY <1>4, <2>1
  <2>. QED
    BY <1>2, <1>4, <2>1, <2>2 DEF CaptureInv
<1>9. CASE GitFails
  BY <1>2, <1>4, <1>9 DEF CaptureInv, GitFails, Refuse
<1>10. CASE UNCHANGED captureVars
  BY <1>2, <1>4, <1>10 DEF CaptureInv, captureVars
<1>. QED
  BY <1>1, <1>3, <1>5, <1>6, <1>7, <1>8, <1>9, <1>10 DEF CaptureNext

\* In it the parser has read what git has reported,
LEMMA InvReads == CaptureInv => ParserReadsGit
  BY DEF CaptureInv, ParserReadsGit

\* The code's test of the paths is the policy's meaning for the files that have changed.
LEMMA PathsAsMeant ==
  ASSUME CaptureInv, verdict \notin {"none", "reported"}
  PROVE  PathsPermitted <=> \A f \in Touched : InScope(policy.allowed, policy.denied, f)
<1>1. ReportInv /\ changes = reported /\ policy \in Policy
  BY DEF CaptureInv
<1>2. policy.allowed \in SUBSET Pattern /\ policy.denied \in SUBSET Pattern
  BY <1>1, CaptureAssumption
<1>3. \A f \in Touched : f \in Path
  BY CaptureAssumption DEF Touched, Deleted, Added, Modified
<1>4. \A f \in Touched : Permits(policy.allowed, policy.denied, Text(f))
                           <=> InScope(policy.allowed, policy.denied, f)
  BY <1>2, <1>3, PolicyAsMeant
<1>5. PathsPermitted <=> \A f \in Touched : Permits(policy.allowed, policy.denied, Text(f))
  BY <1>1, ReportMeans DEF PathsPermitted
<1>. QED
  BY <1>4, <1>5

\* and the verdict is the scope of the patch.
LEMMA InvScope == CaptureInv => VerdictIsScope
<1>. SUFFICES ASSUME CaptureInv PROVE VerdictIsScope
  OBVIOUS
<1>. DEFINE within == \A f \in Touched : InScope(policy.allowed, policy.denied, f)
            colon == \E f \in Touched : tree[f] # "absent" /\ Text(f)[1] = ":"
<1>1. ASSUME verdict = "captured"
      PROVE  /\ within /\ DOMAIN patch = Touched /\ Touched # {}
             /\ "odd" \in Range(patch) => colon
  <2>1. /\ ReportInv /\ changes = reported /\ changes # <<>> /\ PathsPermitted
        /\ patch = [f \in Touched |-> tree[f]]
    BY <1>1 DEF CaptureInv
  <2>2. within
    BY <1>1, <2>1, PathsAsMeant
  <2>3. Touched # {}
    BY <2>1, ReportMeans
  <2>4. Touched \subseteq File
    BY DEF Touched, Deleted, Added, Modified
  <2>5. PICK listed \in Listings : \A f \in listed : tree[f] # "odd"
    BY <1>1 DEF CaptureInv, ObjectsPermitted
  <2>6. ASSUME NEW f \in Touched, tree[f] = "odd" PROVE colon
    <3>1. f \in Named
      BY <2>1, <2>4, <2>6, ReportMeans DEF Named, Asked
    <3>2. PICK path \in Asked : path[1] = ":"
      BY <2>5, <2>6, <3>1 DEF Listings
    <3>. QED
      BY <2>1, <3>2, ReportMeans DEF Asked
  <2>7. DOMAIN patch = Touched /\ ("odd" \in Range(patch) => \E f \in Touched : tree[f] = "odd")
    BY <2>1 DEF Range
  <2>. QED
    BY <2>2, <2>3, <2>6, <2>7
<1>2. ASSUME verdict = "path_denied" PROVE ~ within
  BY <1>2, PathsAsMeant DEF CaptureInv
<1>. QED
  BY <1>1, <1>2 DEF VerdictIsScope

\* So it holds throughout.
LEMMA CaptureInductive == CaptureSpec => []CaptureInv
  BY CaptureStarts, CaptureSteps, PTL DEF CaptureSpec

\* parse_name_status_z: what the code reads is what git has reported, whatever the files are
\* called and however git pairs renamed files, in every repository and under every policy.
THEOREM ListsAreRead == CaptureSpec => []ParserReadsGit
  BY CaptureInductive, InvReads, PTL

\* capture_binary_patch: a captured patch changes something, and only files that the policy
\* means; it brings in nothing but files, unless one of its paths begins with a colon; and only
\* a patch that leaves the policy is denied for its paths.
THEOREM PatchesAreInScope == CaptureSpec => []VerdictIsScope
  BY CaptureInductive, InvScope, PTL
=============================================================================
