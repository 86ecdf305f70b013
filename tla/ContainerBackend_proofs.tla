----------------------- MODULE ContainerBackend_proofs -----------------------
(***************************************************************************)
(* The properties of ContainerBackend for any executions and containers.   *)
(***************************************************************************)
EXTENDS ContainerBackend, TLAPS

USE ContainerAssumption DEF ContainerAssumption

(* What each call can meet. *)
Handed == {"stop", "stopped", "check", "kill", "confirm", "remove", "settle"}
Main == "controller"

(* Names are unique among the containers that exist, and those of somebody else run on. *)
DaemonInv ==
  /\ \A c, d \in Container : Exists(c) /\ Exists(d) /\ name[c] = name[d] => c = d
  /\ \A c \in foreign : life[c] = "running"

(* The controller is in a call of run, handling its failure or not, or sweeps the run. *)
PlaceInv ==
  /\ sweeping => ~handling /\ place[Main] \in {"list", "sweep", "examine"} \union Handed
  /\ place[Main] \in {"list", "sweep"} => sweeping
  /\ handling => place[Main] \in Terminating \union Cleaning
  /\ place["abort"] \notin {"waiting", "clean"}

(* What a docker command is about carries the labels of the run, and in a call of run *)
(* nothing else has the name of its execution.                                        *)
FoundInv ==
  /\ \A p \in Process : place[p] \in Handed \/ (place[p] = "examine" /\ Sweeping(p)) =>
       found[p] \in Container \ foreign
  /\ \A p \in Process : todo[p] \subseteq Container \ foreign
  /\ place[Main] \in Handed /\ ~sweeping => Named(execution) \subseteq {found[Main]}

(* What a container of the execution that still runs has cost so far. *)
Escaped == \E c \in Named(execution) \ foreign : life[c] = "running"

MishapInv ==
  Escaped =>
    /\ ~sweeping =>
         /\ place[Main] # "stopped"
         /\ place[Main] \in {"check", "kill", "settle"} => mishaps >= 1
         /\ place[Main] = "confirm" => mishaps >= 2
         /\ handling => mishaps >= 1
         /\ handling /\ place[Main] \in {"check", "kill", "clean", "remove"} => mishaps >= 2
         /\ handling /\ place[Main] \in {"confirm", "settle"} => mishaps >= 3
    /\ place[Main] = "list" /\ result[Main] = "raised" => mishaps >= 3

(* A result is returned last, when nothing of the name is left. *)
ReturnInv ==
  result[Main] = "returned" => place[Main] = "idle" /\ Named(execution) = {}

(* What abort has listed is gone, or is the next or still to be looked at. *)
AbortInv ==
  /\ \A c \in listed : life[c] # "unused"
  /\ place["abort"] = "sweep" => \A c \in listed : Exists(c) => c \in todo["abort"]
  /\ place["abort"] \in Handed \union {"examine"} =>
       \A c \in listed : Exists(c) => c \in todo["abort"] \/ c = found["abort"]
  /\ result["abort"] = "swept" => place["abort"] = "idle" /\ \A c \in listed : ~Exists(c)

IInv ==
  TypeOK /\ DaemonInv /\ PlaceInv /\ FoundInv /\ MishapInv /\ ReturnInv /\ AbortInv
-----------------------------------------------------------------------------
(* Types.                                                                  *)

\* The two processes.
LEMMA Both ==
  /\ Main \in Process /\ "abort" \in Process /\ Main # "abort"
  /\ \A p \in Process : p = Main \/ p = "abort"
BY DEF Process, Main

\* A process goes on with what it has found, and the other stays where it is.
LEMMA Goes ==
  ASSUME TypeOK, NEW p \in Process, NEW there, NEW c, GoWith(p, there, c)
  PROVE  /\ place'[p] = there /\ found'[p] = c
         /\ \A q \in Process : q # p => place'[q] = place[q] /\ found'[q] = found[q]
BY DEF TypeOK, GoWith

\* It goes to a place, with a container or none.
LEMMA Stays ==
  ASSUME TypeOK, NEW p \in Process, NEW there \in Place, NEW c \in Container \union {NoContainer},
         GoWith(p, there, c)
  PROVE  place' \in [Process -> Place] /\ found' \in [Process -> Container \union {NoContainer}]
BY DEF TypeOK, GoWith

\* The flags are flags.
LEMMA Flags == TypeOK => handling \in BOOLEAN /\ sweeping \in BOOLEAN /\ mishaps \in 0 .. 3
BY DEF TypeOK

\* What is past the stopping of a container.
LEMMA PastEffect ==
  ASSUME NEW p \in Process, NEW c, Past(p, c)
  PROVE  /\ ~Sweeping(p) => GoTo(p, "clean")
         /\ Sweeping(p) /\ c # NoContainer => GoWith(p, "remove", c)
         /\ Sweeping(p) /\ c = NoContainer => GoTo(p, "sweep")
BY DEF Past

\* A call that has removed its container returns, or goes on to the sweep.
LEMMA FinishEffect ==
  ASSUME TypeOK, Finish
  PROVE  /\ ~handling'
         /\ result'["abort"] = result["abort"]
         /\ \/ /\ handling /\ sweeping' /\ GoTo(Main, "list")
               /\ result'[Main] = "raised"
            \/ /\ ~handling /\ ~sweeping' /\ GoTo(Main, "idle")
               /\ result'[Main] = "returned"
BY Both, Flags DEF TypeOK, Finish, Main

\* An exception leaves a sweep, or leads to the handler, its finally clause, or the sweep.
LEMMA RaiseEffect ==
  ASSUME TypeOK, NEW p \in Process, Raise(p)
  PROVE  /\ UNCHANGED <<daemon, call, work>>
         /\ \/ /\ Sweeping(p) /\ GoTo(p, "idle") /\ UNCHANGED handling
               /\ result'[Main] = result[Main]
               /\ IF p = Main THEN ~sweeping' /\ result'["abort"] = result["abort"]
                              ELSE UNCHANGED sweeping /\ result'["abort"] = "failed"
            \/ /\ p = Main /\ ~sweeping /\ ~handling /\ handling' /\ GoTo(Main, "examine")
               /\ UNCHANGED <<sweeping, result>>
            \/ /\ p = Main /\ handling /\ place[Main] \in Terminating /\ GoTo(Main, "clean")
               /\ UNCHANGED <<frame, result>>
            \/ /\ p = Main /\ handling /\ place[Main] \in Cleaning /\ GoTo(Main, "list")
               /\ ~handling' /\ sweeping'
               /\ result'[Main] = "raised" /\ result'["abort"] = result["abort"]
<1>. USE Both, Flags DEF Raise, Main
<1>1. CASE LeaveSweep(p)
  BY <1>1 DEF LeaveSweep, TypeOK
<1>2. CASE p = "controller" /\ Handle
  BY <1>2 DEF Handle, Sweeping
<1>3. CASE p = "controller" /\ CleanUpAnyway
  BY <1>3 DEF CleanUpAnyway
<1>4. CASE p = "controller" /\ GiveUp
  BY <1>4, FinishEffect DEF GiveUp
<1>. QED
  BY <1>1, <1>2, <1>3, <1>4

\* A removal is over: in a sweep the next container follows, in a call its end.
LEMMA RemovedEffect ==
  ASSUME NEW p \in Process, Removed(p)
  PROVE  /\ Sweeping(p) => GoTo(p, "sweep") /\ UNCHANGED <<frame, result>>
         /\ ~Sweeping(p) => Finish
BY DEF Removed

\* What there is of each container and process.
LEMMA Functions ==
  TypeOK => /\ life \in [Container -> {"unused", "running", "exited", "removed"}]
            /\ name \in [Container -> Execution]
            /\ todo \in [Process -> SUBSET Container]
            /\ DOMAIN result = Process
            /\ foreign \subseteq Container /\ listed \subseteq Container
BY DEF TypeOK

\* The controller is in a call, in its handler or in a sweep.
LEMMA PlaceStep ==
  ASSUME TypeOK, PlaceInv, [Next]_vars
  PROVE  PlaceInv'
<1>. USE DEF PlaceInv, Main, Handed, Terminating, Cleaning, Sweeping, daemon, call, frame,
   work, GoOn, GoTo
<1>1. CASE \E c \in Container : Exit(c) \/ AutoRemove(c)
  BY <1>1, Goes, Both, Flags DEF Exit, AutoRemove
<1>2. CASE \E c \in Container : Launch(c)
  BY <1>2, Goes, Both, Flags DEF Launch
<1>3. CASE \E x \in Execution : Run(x)
  BY <1>3, Goes, Both, Flags DEF Run
<1>4. CASE Decline
  BY <1>4, Goes, Both, Flags DEF Decline
<1>5. CASE ClientEnds \/ NameConflict \/ ClientFails
  BY <1>5, Goes, Both, Flags DEF ClientEnds, NameConflict, ClientFails, ClientExits
<1>6. CASE TimeOut
  BY <1>6, Goes, Both, Flags DEF TimeOut
<1>7. CASE Interrupt
  BY <1>7, Goes, Both, Flags, RaiseEffect DEF Interrupt
<1>8. CASE KillController
  BY <1>8, Goes, Both, Flags DEF KillController
<1>9. CASE Clean
  <2>0. place["controller"] = "clean" /\ UNCHANGED <<daemon, call, mishaps, work>>
    BY <1>9 DEF Clean
  <2>1. CASE Sees("controller", {}) /\ Finish
    BY <2>0, <2>1, Goes, Both, Flags, FinishEffect
  <2>2. CASE \E c \in Container :
              /\ Sees("controller", {c}) /\ GoWith("controller", "remove", c)
              /\ UNCHANGED <<frame, result>>
    BY <2>0, <2>2, Goes, Both, Flags
  <2>. QED
    BY <1>9, <2>1, <2>2 DEF Clean
<1>10. CASE Abort
  BY <1>10, Goes, Both, Flags DEF Abort
<1>11. CASE \E p \in Process : InspectFails(p)
  BY <1>11, Goes, Both, Flags, RaiseEffect DEF InspectFails
<1>12. CASE \E p \in Process : Examine(p)
  <2>. PICK p \in Process : Examine(p)
    BY <1>12
  <2>0. place[p] = "examine" /\ UNCHANGED <<daemon, call, frame, mishaps, work, result>>
    BY DEF Examine
  <2>1. CASE Sees(p, {}) /\ Past(p, NoContainer)
    BY <2>0, <2>1, Goes, Both, Flags, PastEffect
  <2>2. CASE \E c \in Container :
              Sees(p, {c}) /\ life[c] = "running" /\ GoWith(p, "stop", c)
    BY <2>0, <2>2, Goes, Both, Flags
  <2>3. CASE \E c \in Container : Sees(p, {c}) /\ life[c] # "running" /\ Past(p, c)
    BY <2>0, <2>3, Goes, Both, Flags, PastEffect
  <2>. QED
    BY <2>1, <2>2, <2>3 DEF Examine
<1>13. CASE \E p \in Process : Stop(p)
  BY <1>13, Goes, Both, Flags DEF Stop
<1>14. CASE \E p \in Process : Check(p)
  BY <1>14, Goes, Both, Flags, PastEffect DEF Check
<1>15. CASE \E p \in Process : Kill(p)
  BY <1>15, Goes, Both, Flags, PastEffect DEF Kill
<1>16. CASE \E p \in Process : Confirm(p)
  <2>. PICK p \in Process : Confirm(p)
    BY <1>16
  <2>0. place[p] = "confirm" /\ UNCHANGED mishaps
    BY DEF Confirm, Unharmed
  <2>1. CASE /\ Sees(p, {}) /\ Past(p, found[p])
            /\ UNCHANGED <<daemon, call, frame, work, result>>
    BY <2>0, <2>1, Goes, Both, Flags, PastEffect
  <2>2. CASE \E c \in Container : Sees(p, {c}) /\ Raise(p)
    BY <2>0, <2>2, Goes, Both, Flags, RaiseEffect
  <2>. QED
    BY <2>1, <2>2 DEF Confirm
<1>17. CASE \E p \in Process : Remove(p)
  BY <1>17, Goes, Both, Flags, RemovedEffect, FinishEffect DEF Remove, RemoveSucceeds,
     RemoveFails
<1>18. CASE \E p \in Process : Settle(p)
  <2>. PICK p \in Process : Settle(p)
    BY <1>18
  <2>0. place[p] = "settle" /\ UNCHANGED mishaps
    BY DEF Settle, Unharmed
  <2>1. CASE Sees(p, {}) /\ Removed(p) /\ UNCHANGED <<daemon, call, work>>
    BY <2>0, <2>1, Goes, Both, Flags, RemovedEffect, FinishEffect
  <2>2. CASE \E c \in Container : Sees(p, {c}) /\ Raise(p)
    BY <2>0, <2>2, Goes, Both, Flags, RaiseEffect
  <2>. QED
    BY <2>1, <2>2 DEF Settle
<1>19. CASE \E p \in Process : List(p)
  BY <1>19, Goes, Both, Flags DEF List
<1>20. CASE \E p \in Process : ListFails(p)
  BY <1>20, Goes, Both, Flags, RaiseEffect DEF ListFails
<1>21. CASE \E p \in Process : SweepNext(p)
  BY <1>21, Goes, Both, Flags DEF SweepNext
<1>22. CASE \E p \in Process : Swept(p)
  BY <1>22, Goes, Both, Flags DEF Swept
<1>23. CASE UNCHANGED vars
  BY <1>23 DEF vars
<1>. QED
  BY <1>1, <1>2, <1>3, <1>4, <1>5, <1>6, <1>7, <1>8, <1>9, <1>10, <1>11, <1>12, <1>13, <1>14,
     <1>15, <1>16, <1>17, <1>18, <1>19, <1>20, <1>21, <1>22, <1>23, Zenon DEF Next, Command

\* Names stay unique, and the containers of somebody else run on.
LEMMA DaemonStep ==
  ASSUME TypeOK, DaemonInv, PlaceInv, FoundInv, [Next]_vars
  PROVE  DaemonInv'
<1>. USE DEF DaemonInv, FoundInv, Handed, Main, Exists, Named, Sweeping, Halt, Delete, daemon,
   call, frame, work, GoOn, GoTo
<1>1. CASE \E c \in Container : Exit(c) \/ AutoRemove(c)
  BY <1>1, Functions, Both DEF Exit, AutoRemove
<1>2. CASE \E c \in Container : Launch(c)
  BY <1>2, Functions, Both DEF Launch
<1>3. CASE \E x \in Execution : Run(x)
  BY <1>3, Functions, Both DEF Run
<1>4. CASE Decline
  BY <1>4, Functions, Both DEF Decline
<1>5. CASE ClientEnds \/ NameConflict \/ ClientFails
  BY <1>5, Functions, Both DEF ClientEnds, NameConflict, ClientFails, ClientExits
<1>6. CASE TimeOut
  BY <1>6, Functions, Both DEF TimeOut
<1>7. CASE Interrupt
  BY <1>7, Functions, Both, RaiseEffect DEF Interrupt
<1>8. CASE KillController
  BY <1>8, Functions, Both DEF KillController
<1>9. CASE Clean
  BY <1>9, Functions, Both, FinishEffect DEF Clean
<1>10. CASE Abort
  BY <1>10, Functions, Both DEF Abort
<1>11. CASE \E p \in Process : InspectFails(p)
  BY <1>11, Functions, Both, RaiseEffect DEF InspectFails
<1>12. CASE \E p \in Process : Examine(p)
  BY <1>12, Functions, Both, PastEffect DEF Examine
<1>13. CASE \E p \in Process : Stop(p)
  BY <1>13, Functions, Both DEF Stop
<1>14. CASE \E p \in Process : Check(p)
  BY <1>14, Functions, Both, PastEffect DEF Check
<1>15. CASE \E p \in Process : Kill(p)
  BY <1>15, Functions, Both, PastEffect DEF Kill
<1>16. CASE \E p \in Process : Confirm(p)
  <2>. PICK p \in Process : Confirm(p)
    BY <1>16
  <2>0. place[p] = "confirm" /\ UNCHANGED mishaps
    BY DEF Confirm, Unharmed
  <2>1. CASE /\ Sees(p, {}) /\ Past(p, found[p])
            /\ UNCHANGED <<daemon, call, frame, work, result>>
    BY <2>0, <2>1, Functions, Both, PastEffect
  <2>2. CASE \E c \in Container : Sees(p, {c}) /\ Raise(p)
    BY <2>0, <2>2, Functions, Both, RaiseEffect
  <2>. QED
    BY <2>1, <2>2 DEF Confirm
<1>17. CASE \E p \in Process : Remove(p)
  BY <1>17, Functions, Both, RemovedEffect, FinishEffect DEF Remove, RemoveSucceeds,
     RemoveFails
<1>18. CASE \E p \in Process : Settle(p)
  <2>. PICK p \in Process : Settle(p)
    BY <1>18
  <2>0. place[p] = "settle" /\ UNCHANGED mishaps
    BY DEF Settle, Unharmed
  <2>1. CASE Sees(p, {}) /\ Removed(p) /\ UNCHANGED <<daemon, call, work>>
    BY <2>0, <2>1, Functions, Both, RemovedEffect, FinishEffect
  <2>2. CASE \E c \in Container : Sees(p, {c}) /\ Raise(p)
    BY <2>0, <2>2, Functions, Both, RaiseEffect
  <2>. QED
    BY <2>1, <2>2 DEF Settle
<1>19. CASE \E p \in Process : List(p)
  BY <1>19, Functions, Both DEF List
<1>20. CASE \E p \in Process : ListFails(p)
  BY <1>20, Functions, Both, RaiseEffect DEF ListFails
<1>21. CASE \E p \in Process : SweepNext(p)
  BY <1>21, Functions, Both DEF SweepNext
<1>22. CASE \E p \in Process : Swept(p)
  BY <1>22, Functions, Both DEF Swept
<1>23. CASE UNCHANGED vars
  BY <1>23 DEF vars
<1>. QED
  BY <1>1, <1>2, <1>3, <1>4, <1>5, <1>6, <1>7, <1>8, <1>9, <1>10, <1>11, <1>12, <1>13, <1>14,
     <1>15, <1>16, <1>17, <1>18, <1>19, <1>20, <1>21, <1>22, <1>23, Zenon DEF Next, Command

\* No command of the run is about a container of somebody else.
LEMMA FoundStep ==
  ASSUME TypeOK, PlaceInv, FoundInv, [Next]_vars
  PROVE  FoundInv'
<1>. USE DEF FoundInv, Handed, Main, Exists, Named, Sweeping, Sees, Inspected, daemon, call,
   frame, work, GoOn, GoTo
<1>1. CASE \E c \in Container : Exit(c) \/ AutoRemove(c)
  BY <1>1, Goes, Both, Flags, Functions DEF Exit, AutoRemove
<1>2. CASE \E c \in Container : Launch(c)
  BY <1>2, Goes, Both, Flags, Functions DEF Launch, PlaceInv
<1>3. CASE \E x \in Execution : Run(x)
  BY <1>3, Goes, Both, Flags, Functions DEF Run, PlaceInv
<1>4. CASE Decline
  BY <1>4, Goes, Both, Flags, Functions DEF Decline
<1>5. CASE ClientEnds \/ NameConflict \/ ClientFails
  BY <1>5, Goes, Both, Flags, Functions DEF ClientEnds, NameConflict, ClientFails,
     ClientExits
<1>6. CASE TimeOut
  BY <1>6, Goes, Both, Flags, Functions DEF TimeOut, PlaceInv
<1>7. CASE Interrupt
  BY <1>7, Goes, Both, Flags, Functions, RaiseEffect DEF Interrupt
<1>8. CASE KillController
  BY <1>8, Goes, Both, Flags, Functions DEF KillController
<1>9. CASE Clean
  <2>0. place["controller"] = "clean" /\ UNCHANGED <<daemon, call, mishaps, work>>
    BY <1>9 DEF Clean
  <2>1. CASE Sees("controller", {}) /\ Finish
    BY <2>0, <2>1, Goes, Both, Flags, Functions, FinishEffect
  <2>2. CASE \E c \in Container :
              /\ Sees("controller", {c}) /\ GoWith("controller", "remove", c)
              /\ UNCHANGED <<frame, result>>
    BY <2>0, <2>2, Goes, Both, Flags, Functions
  <2>. QED
    BY <1>9, <2>1, <2>2 DEF Clean
<1>10. CASE Abort
  BY <1>10, Goes, Both, Flags, Functions DEF Abort
<1>11. CASE \E p \in Process : InspectFails(p)
  BY <1>11, Goes, Both, Flags, Functions, RaiseEffect DEF InspectFails
<1>12. CASE \E p \in Process : Examine(p)
  <2>. PICK p \in Process : Examine(p)
    BY <1>12
  <2>0. place[p] = "examine" /\ UNCHANGED <<daemon, call, frame, mishaps, work, result>>
    BY DEF Examine
  <2>1. CASE Sees(p, {}) /\ Past(p, NoContainer)
    BY <2>0, <2>1, Goes, Both, Flags, Functions, PastEffect
  <2>2. CASE \E c \in Container :
              Sees(p, {c}) /\ life[c] = "running" /\ GoWith(p, "stop", c)
    BY <2>0, <2>2, Goes, Both, Flags, Functions
  <2>3. CASE \E c \in Container : Sees(p, {c}) /\ life[c] # "running" /\ Past(p, c)
    BY <2>0, <2>3, Goes, Both, Flags, Functions, PastEffect
  <2>. QED
    BY <2>1, <2>2, <2>3 DEF Examine
<1>13. CASE \E p \in Process : Stop(p)
  <2>. PICK p \in Process : Stop(p)
    BY <1>13
  <2>0. place[p] = "stop" /\ UNCHANGED <<name, foreign, call, frame, work, result>>
    BY DEF Stop
  <2>1. CASE Exists(found[p]) /\ Halt(found[p]) /\ Unharmed /\ GoOn(p, "stopped")
    BY <2>0, <2>1, Goes, Both, Flags, Functions DEF Halt
  <2>2. CASE ~Exists(found[p]) /\ UNCHANGED life /\ Unharmed /\ GoOn(p, "check")
    BY <2>0, <2>2, Goes, Both, Flags, Functions
  <2>3. CASE (Halt(found[p]) \/ UNCHANGED life) /\ Mishap(p) /\ GoOn(p, "check")
    BY <2>0, <2>3, Goes, Both, Flags, Functions DEF Halt
  <2>. QED
    BY <2>1, <2>2, <2>3 DEF Stop
<1>14. CASE \E p \in Process : Check(p)
  <2>. PICK p \in Process : Check(p)
    BY <1>14
  <2>0. /\ place[p] \in {"stopped", "check"}
        /\ UNCHANGED <<daemon, call, frame, mishaps, work, result>>
    BY DEF Check
  <2>1. CASE \E S \in SUBSET Container : \E c \in S :
              /\ Sees(p, S) /\ GoWith(p, "kill", c) /\ \E d \in S : life[d] = "running"
              /\ ~(Sweeping(p) /\ place[p] = "stopped")
    BY <2>0, <2>1, Goes, Both, Flags, Functions
  <2>2. CASE \E S \in SUBSET Container :
              /\ Sees(p, S) /\ Past(p, found[p])
              /\ (\A c \in S : life[c] # "running") \/ (Sweeping(p) /\ place[p] = "stopped")
    BY <2>0, <2>2, Goes, Both, Flags, Functions, PastEffect
  <2>. QED
    BY <2>1, <2>2 DEF Check
<1>15. CASE \E p \in Process : Kill(p)
  <2>. PICK p \in Process : Kill(p)
    BY <1>15
  <2>0. place[p] = "kill" /\ UNCHANGED <<name, foreign, call, frame, work, result>>
    BY DEF Kill
  <2>1. CASE life[found[p]] = "running" /\ Halt(found[p]) /\ Unharmed /\ Past(p, found[p])
    BY <2>0, <2>1, Goes, Both, Flags, Functions, PastEffect DEF Halt
  <2>2. CASE life[found[p]] # "running" /\ UNCHANGED life /\ Unharmed /\ GoOn(p, "confirm")
    BY <2>0, <2>2, Goes, Both, Flags, Functions
  <2>3. CASE (Halt(found[p]) \/ UNCHANGED life) /\ Mishap(p) /\ GoOn(p, "confirm")
    BY <2>0, <2>3, Goes, Both, Flags, Functions DEF Halt
  <2>. QED
    BY <2>1, <2>2, <2>3 DEF Kill
<1>16. CASE \E p \in Process : Confirm(p)
  <2>. PICK p \in Process : Confirm(p)
    BY <1>16
  <2>0. place[p] = "confirm" /\ UNCHANGED mishaps
    BY DEF Confirm, Unharmed
  <2>1. CASE /\ Sees(p, {}) /\ Past(p, found[p])
            /\ UNCHANGED <<daemon, call, frame, work, result>>
    BY <2>0, <2>1, Goes, Both, Flags, Functions, PastEffect
  <2>2. CASE \E c \in Container : Sees(p, {c}) /\ Raise(p)
    BY <2>0, <2>2, Goes, Both, Flags, Functions, RaiseEffect
  <2>. QED
    BY <2>1, <2>2 DEF Confirm
<1>17. CASE \E p \in Process : Remove(p)
  <2>. PICK p \in Process : Remove(p)
    BY <1>17
  <2>0. place[p] = "remove" /\ UNCHANGED <<name, foreign, call, work>>
    BY DEF Remove
  <2>1. CASE RemoveSucceeds(p)
    BY <2>0, <2>1, Goes, Both, Flags, Functions, RemovedEffect,
       FinishEffect DEF RemoveSucceeds, Delete
  <2>2. CASE RemoveFails(p)
    BY <2>0, <2>2, Goes, Both, Flags, Functions DEF RemoveFails, Delete
  <2>. QED
    BY <2>1, <2>2 DEF Remove
<1>18. CASE \E p \in Process : Settle(p)
  <2>. PICK p \in Process : Settle(p)
    BY <1>18
  <2>0. place[p] = "settle" /\ UNCHANGED mishaps
    BY DEF Settle, Unharmed
  <2>1. CASE Sees(p, {}) /\ Removed(p) /\ UNCHANGED <<daemon, call, work>>
    BY <2>0, <2>1, Goes, Both, Flags, Functions, RemovedEffect, FinishEffect
  <2>2. CASE \E c \in Container : Sees(p, {c}) /\ Raise(p)
    BY <2>0, <2>2, Goes, Both, Flags, Functions, RaiseEffect
  <2>. QED
    BY <2>1, <2>2 DEF Settle
<1>19. CASE \E p \in Process : List(p)
  BY <1>19, Goes, Both, Flags, Functions DEF List
<1>20. CASE \E p \in Process : ListFails(p)
  BY <1>20, Goes, Both, Flags, Functions, RaiseEffect DEF ListFails
<1>21. CASE \E p \in Process : SweepNext(p)
  BY <1>21, Goes, Both, Flags, Functions DEF SweepNext
<1>22. CASE \E p \in Process : Swept(p)
  BY <1>22, Goes, Both, Flags, Functions DEF Swept
<1>23. CASE UNCHANGED vars
  BY <1>23 DEF vars
<1>. QED
  BY <1>1, <1>2, <1>3, <1>4, <1>5, <1>6, <1>7, <1>8, <1>9, <1>10, <1>11, <1>12, <1>13, <1>14,
     <1>15, <1>16, <1>17, <1>18, <1>19, <1>20, <1>21, <1>22, <1>23, Zenon DEF Next, Command

\* When a call returns, nothing that has the name of its execution exists until the next call.
LEMMA ReturnStep ==
  ASSUME TypeOK, PlaceInv, FoundInv, ReturnInv, [Next]_vars
  PROVE  ReturnInv'
<1>. USE DEF ReturnInv, PlaceInv, FoundInv, Handed, Main, Exists, Named, Sweeping, Sees,
   Inspected, daemon, call, frame, work, GoOn, GoTo
<1>1. CASE \E c \in Container : Exit(c) \/ AutoRemove(c)
  BY <1>1, Goes, Both, Flags, Functions DEF Exit, AutoRemove
<1>2. CASE \E c \in Container : Launch(c)
  BY <1>2, Goes, Both, Flags, Functions DEF Launch
<1>3. CASE \E x \in Execution : Run(x)
  BY <1>3, Goes, Both, Flags, Functions DEF Run
<1>4. CASE Decline
  BY <1>4, Goes, Both, Flags, Functions DEF Decline
<1>5. CASE ClientEnds \/ NameConflict \/ ClientFails
  BY <1>5, Goes, Both, Flags, Functions DEF ClientEnds, NameConflict, ClientFails,
     ClientExits
<1>6. CASE TimeOut
  BY <1>6, Goes, Both, Flags, Functions DEF TimeOut
<1>7. CASE Interrupt
  BY <1>7, Goes, Both, Flags, Functions, RaiseEffect DEF Interrupt
<1>8. CASE KillController
  BY <1>8, Goes, Both, Flags, Functions DEF KillController
<1>9. CASE Clean
  <2>0. place["controller"] = "clean" /\ UNCHANGED <<daemon, call, mishaps, work>>
    BY <1>9 DEF Clean
  <2>1. CASE Sees("controller", {}) /\ Finish
    BY <2>0, <2>1, Goes, Both, Flags, Functions, FinishEffect
  <2>2. CASE \E c \in Container :
              /\ Sees("controller", {c}) /\ GoWith("controller", "remove", c)
              /\ UNCHANGED <<frame, result>>
    BY <2>0, <2>2, Goes, Both, Flags, Functions
  <2>. QED
    BY <1>9, <2>1, <2>2 DEF Clean
<1>10. CASE Abort
  BY <1>10, Goes, Both, Flags, Functions DEF Abort
<1>11. CASE \E p \in Process : InspectFails(p)
  BY <1>11, Goes, Both, Flags, Functions, RaiseEffect DEF InspectFails
<1>12. CASE \E p \in Process : Examine(p)
  <2>. PICK p \in Process : Examine(p)
    BY <1>12
  <2>0. place[p] = "examine" /\ UNCHANGED <<daemon, call, frame, mishaps, work, result>>
    BY DEF Examine
  <2>1. CASE Sees(p, {}) /\ Past(p, NoContainer)
    BY <2>0, <2>1, Goes, Both, Flags, Functions, PastEffect
  <2>2. CASE \E c \in Container :
              Sees(p, {c}) /\ life[c] = "running" /\ GoWith(p, "stop", c)
    BY <2>0, <2>2, Goes, Both, Flags, Functions
  <2>3. CASE \E c \in Container : Sees(p, {c}) /\ life[c] # "running" /\ Past(p, c)
    BY <2>0, <2>3, Goes, Both, Flags, Functions, PastEffect
  <2>. QED
    BY <2>1, <2>2, <2>3 DEF Examine
<1>13. CASE \E p \in Process : Stop(p)
  <2>. PICK p \in Process : Stop(p)
    BY <1>13
  <2>0. place[p] = "stop" /\ UNCHANGED <<name, foreign, call, frame, work, result>>
    BY DEF Stop
  <2>1. CASE Exists(found[p]) /\ Halt(found[p]) /\ Unharmed /\ GoOn(p, "stopped")
    BY <2>0, <2>1, Goes, Both, Flags, Functions DEF Halt
  <2>2. CASE ~Exists(found[p]) /\ UNCHANGED life /\ Unharmed /\ GoOn(p, "check")
    BY <2>0, <2>2, Goes, Both, Flags, Functions
  <2>3. CASE (Halt(found[p]) \/ UNCHANGED life) /\ Mishap(p) /\ GoOn(p, "check")
    BY <2>0, <2>3, Goes, Both, Flags, Functions DEF Halt
  <2>. QED
    BY <2>1, <2>2, <2>3 DEF Stop
<1>14. CASE \E p \in Process : Check(p)
  <2>. PICK p \in Process : Check(p)
    BY <1>14
  <2>0. /\ place[p] \in {"stopped", "check"}
        /\ UNCHANGED <<daemon, call, frame, mishaps, work, result>>
    BY DEF Check
  <2>1. CASE \E S \in SUBSET Container : \E c \in S :
              /\ Sees(p, S) /\ GoWith(p, "kill", c) /\ \E d \in S : life[d] = "running"
              /\ ~(Sweeping(p) /\ place[p] = "stopped")
    BY <2>0, <2>1, Goes, Both, Flags, Functions
  <2>2. CASE \E S \in SUBSET Container :
              /\ Sees(p, S) /\ Past(p, found[p])
              /\ (\A c \in S : life[c] # "running") \/ (Sweeping(p) /\ place[p] = "stopped")
    BY <2>0, <2>2, Goes, Both, Flags, Functions, PastEffect
  <2>. QED
    BY <2>1, <2>2 DEF Check
<1>15. CASE \E p \in Process : Kill(p)
  <2>. PICK p \in Process : Kill(p)
    BY <1>15
  <2>0. place[p] = "kill" /\ UNCHANGED <<name, foreign, call, frame, work, result>>
    BY DEF Kill
  <2>1. CASE life[found[p]] = "running" /\ Halt(found[p]) /\ Unharmed /\ Past(p, found[p])
    BY <2>0, <2>1, Goes, Both, Flags, Functions, PastEffect DEF Halt
  <2>2. CASE life[found[p]] # "running" /\ UNCHANGED life /\ Unharmed /\ GoOn(p, "confirm")
    BY <2>0, <2>2, Goes, Both, Flags, Functions
  <2>3. CASE (Halt(found[p]) \/ UNCHANGED life) /\ Mishap(p) /\ GoOn(p, "confirm")
    BY <2>0, <2>3, Goes, Both, Flags, Functions DEF Halt
  <2>. QED
    BY <2>1, <2>2, <2>3 DEF Kill
<1>16. CASE \E p \in Process : Confirm(p)
  <2>. PICK p \in Process : Confirm(p)
    BY <1>16
  <2>0. place[p] = "confirm" /\ UNCHANGED mishaps
    BY DEF Confirm, Unharmed
  <2>1. CASE /\ Sees(p, {}) /\ Past(p, found[p])
            /\ UNCHANGED <<daemon, call, frame, work, result>>
    BY <2>0, <2>1, Goes, Both, Flags, Functions, PastEffect
  <2>2. CASE \E c \in Container : Sees(p, {c}) /\ Raise(p)
    BY <2>0, <2>2, Goes, Both, Flags, Functions, RaiseEffect
  <2>. QED
    BY <2>1, <2>2 DEF Confirm
<1>17. CASE \E p \in Process : Remove(p)
  <2>. PICK p \in Process : Remove(p)
    BY <1>17
  <2>0. place[p] = "remove" /\ UNCHANGED <<name, foreign, call, work>>
    BY DEF Remove
  <2>1. CASE RemoveSucceeds(p)
    BY <2>0, <2>1, Goes, Both, Flags, Functions, RemovedEffect,
       FinishEffect DEF RemoveSucceeds, Delete
  <2>2. CASE RemoveFails(p)
    BY <2>0, <2>2, Goes, Both, Flags, Functions DEF RemoveFails, Delete
  <2>. QED
    BY <2>1, <2>2 DEF Remove
<1>18. CASE \E p \in Process : Settle(p)
  <2>. PICK p \in Process : Settle(p)
    BY <1>18
  <2>0. place[p] = "settle" /\ UNCHANGED mishaps
    BY DEF Settle, Unharmed
  <2>1. CASE Sees(p, {}) /\ Removed(p) /\ UNCHANGED <<daemon, call, work>>
    BY <2>0, <2>1, Goes, Both, Flags, Functions, RemovedEffect, FinishEffect
  <2>2. CASE \E c \in Container : Sees(p, {c}) /\ Raise(p)
    BY <2>0, <2>2, Goes, Both, Flags, Functions, RaiseEffect
  <2>. QED
    BY <2>1, <2>2 DEF Settle
<1>19. CASE \E p \in Process : List(p)
  BY <1>19, Goes, Both, Flags, Functions DEF List
<1>20. CASE \E p \in Process : ListFails(p)
  BY <1>20, Goes, Both, Flags, Functions, RaiseEffect DEF ListFails
<1>21. CASE \E p \in Process : SweepNext(p)
  BY <1>21, Goes, Both, Flags, Functions DEF SweepNext
<1>22. CASE \E p \in Process : Swept(p)
  BY <1>22, Goes, Both, Flags, Functions DEF Swept
<1>23. CASE UNCHANGED vars
  BY <1>23 DEF vars
<1>. QED
  BY <1>1, <1>2, <1>3, <1>4, <1>5, <1>6, <1>7, <1>8, <1>9, <1>10, <1>11, <1>12, <1>13, <1>14,
     <1>15, <1>16, <1>17, <1>18, <1>19, <1>20, <1>21, <1>22, <1>23, Zenon DEF Next, Command

\* Of what abort has listed, it removes one container after the other.
LEMMA AbortStep ==
  ASSUME TypeOK, PlaceInv, FoundInv, AbortInv, [Next]_vars
  PROVE  AbortInv'
<1>. USE DEF AbortInv, PlaceInv, FoundInv, Handed, Main, Exists, Sweeping, Sees, Inspected,
   daemon, call, frame, work, GoOn, GoTo
<1>1. CASE \E c \in Container : Exit(c) \/ AutoRemove(c)
  BY <1>1, Goes, Both, Flags, Functions DEF Exit, AutoRemove
<1>2. CASE \E c \in Container : Launch(c)
  BY <1>2, Goes, Both, Flags, Functions DEF Launch
<1>3. CASE \E x \in Execution : Run(x)
  BY <1>3, Goes, Both, Flags, Functions DEF Run
<1>4. CASE Decline
  BY <1>4, Goes, Both, Flags, Functions DEF Decline
<1>5. CASE ClientEnds \/ NameConflict \/ ClientFails
  BY <1>5, Goes, Both, Flags, Functions DEF ClientEnds, NameConflict, ClientFails,
     ClientExits
<1>6. CASE TimeOut
  BY <1>6, Goes, Both, Flags, Functions DEF TimeOut
<1>7. CASE Interrupt
  BY <1>7, Goes, Both, Flags, Functions, RaiseEffect DEF Interrupt
<1>8. CASE KillController
  BY <1>8, Goes, Both, Flags, Functions DEF KillController
<1>9. CASE Clean
  <2>0. place["controller"] = "clean" /\ UNCHANGED <<daemon, call, mishaps, work>>
    BY <1>9 DEF Clean
  <2>1. CASE Sees("controller", {}) /\ Finish
    BY <2>0, <2>1, Goes, Both, Flags, Functions, FinishEffect
  <2>2. CASE \E c \in Container :
              /\ Sees("controller", {c}) /\ GoWith("controller", "remove", c)
              /\ UNCHANGED <<frame, result>>
    BY <2>0, <2>2, Goes, Both, Flags, Functions
  <2>. QED
    BY <1>9, <2>1, <2>2 DEF Clean
<1>10. CASE Abort
  BY <1>10, Goes, Both, Flags, Functions DEF Abort
<1>11. CASE \E p \in Process : InspectFails(p)
  BY <1>11, Goes, Both, Flags, Functions, RaiseEffect DEF InspectFails
<1>12. CASE \E p \in Process : Examine(p)
  <2>. PICK p \in Process : Examine(p)
    BY <1>12
  <2>0. place[p] = "examine" /\ UNCHANGED <<daemon, call, frame, mishaps, work, result>>
    BY DEF Examine
  <2>1. CASE Sees(p, {}) /\ Past(p, NoContainer)
    BY <2>0, <2>1, Goes, Both, Flags, Functions, PastEffect
  <2>2. CASE \E c \in Container :
              Sees(p, {c}) /\ life[c] = "running" /\ GoWith(p, "stop", c)
    BY <2>0, <2>2, Goes, Both, Flags, Functions
  <2>3. CASE \E c \in Container : Sees(p, {c}) /\ life[c] # "running" /\ Past(p, c)
    BY <2>0, <2>3, Goes, Both, Flags, Functions, PastEffect
  <2>. QED
    BY <2>1, <2>2, <2>3 DEF Examine
<1>13. CASE \E p \in Process : Stop(p)
  <2>. PICK p \in Process : Stop(p)
    BY <1>13
  <2>0. place[p] = "stop" /\ UNCHANGED <<name, foreign, call, frame, work, result>>
    BY DEF Stop
  <2>1. CASE Exists(found[p]) /\ Halt(found[p]) /\ Unharmed /\ GoOn(p, "stopped")
    BY <2>0, <2>1, Goes, Both, Flags, Functions DEF Halt
  <2>2. CASE ~Exists(found[p]) /\ UNCHANGED life /\ Unharmed /\ GoOn(p, "check")
    BY <2>0, <2>2, Goes, Both, Flags, Functions
  <2>3. CASE (Halt(found[p]) \/ UNCHANGED life) /\ Mishap(p) /\ GoOn(p, "check")
    BY <2>0, <2>3, Goes, Both, Flags, Functions DEF Halt
  <2>. QED
    BY <2>1, <2>2, <2>3 DEF Stop
<1>14. CASE \E p \in Process : Check(p)
  <2>. PICK p \in Process : Check(p)
    BY <1>14
  <2>0. /\ place[p] \in {"stopped", "check"}
        /\ UNCHANGED <<daemon, call, frame, mishaps, work, result>>
    BY DEF Check
  <2>1. CASE \E S \in SUBSET Container : \E c \in S :
              /\ Sees(p, S) /\ GoWith(p, "kill", c) /\ \E d \in S : life[d] = "running"
              /\ ~(Sweeping(p) /\ place[p] = "stopped")
    BY <2>0, <2>1, Goes, Both, Flags, Functions
  <2>2. CASE \E S \in SUBSET Container :
              /\ Sees(p, S) /\ Past(p, found[p])
              /\ (\A c \in S : life[c] # "running") \/ (Sweeping(p) /\ place[p] = "stopped")
    BY <2>0, <2>2, Goes, Both, Flags, Functions, PastEffect
  <2>. QED
    BY <2>1, <2>2 DEF Check
<1>15. CASE \E p \in Process : Kill(p)
  <2>. PICK p \in Process : Kill(p)
    BY <1>15
  <2>0. place[p] = "kill" /\ UNCHANGED <<name, foreign, call, frame, work, result>>
    BY DEF Kill
  <2>1. CASE life[found[p]] = "running" /\ Halt(found[p]) /\ Unharmed /\ Past(p, found[p])
    BY <2>0, <2>1, Goes, Both, Flags, Functions, PastEffect DEF Halt
  <2>2. CASE life[found[p]] # "running" /\ UNCHANGED life /\ Unharmed /\ GoOn(p, "confirm")
    BY <2>0, <2>2, Goes, Both, Flags, Functions
  <2>3. CASE (Halt(found[p]) \/ UNCHANGED life) /\ Mishap(p) /\ GoOn(p, "confirm")
    BY <2>0, <2>3, Goes, Both, Flags, Functions DEF Halt
  <2>. QED
    BY <2>1, <2>2, <2>3 DEF Kill
<1>16. CASE \E p \in Process : Confirm(p)
  <2>. PICK p \in Process : Confirm(p)
    BY <1>16
  <2>0. place[p] = "confirm" /\ UNCHANGED mishaps
    BY DEF Confirm, Unharmed
  <2>1. CASE /\ Sees(p, {}) /\ Past(p, found[p])
            /\ UNCHANGED <<daemon, call, frame, work, result>>
    BY <2>0, <2>1, Goes, Both, Flags, Functions, PastEffect
  <2>2. CASE \E c \in Container : Sees(p, {c}) /\ Raise(p)
    BY <2>0, <2>2, Goes, Both, Flags, Functions, RaiseEffect
  <2>. QED
    BY <2>1, <2>2 DEF Confirm
<1>17. CASE \E p \in Process : Remove(p)
  <2>. PICK p \in Process : Remove(p)
    BY <1>17
  <2>0. place[p] = "remove" /\ UNCHANGED <<name, foreign, call, work>>
    BY DEF Remove
  <2>1. CASE RemoveSucceeds(p)
    BY <2>0, <2>1, Goes, Both, Flags, Functions, RemovedEffect,
       FinishEffect DEF RemoveSucceeds, Delete
  <2>2. CASE RemoveFails(p)
    BY <2>0, <2>2, Goes, Both, Flags, Functions DEF RemoveFails, Delete
  <2>. QED
    BY <2>1, <2>2 DEF Remove
<1>18. CASE \E p \in Process : Settle(p)
  <2>. PICK p \in Process : Settle(p)
    BY <1>18
  <2>0. place[p] = "settle" /\ UNCHANGED mishaps
    BY DEF Settle, Unharmed
  <2>1. CASE Sees(p, {}) /\ Removed(p) /\ UNCHANGED <<daemon, call, work>>
    BY <2>0, <2>1, Goes, Both, Flags, Functions, RemovedEffect, FinishEffect
  <2>2. CASE \E c \in Container : Sees(p, {c}) /\ Raise(p)
    BY <2>0, <2>2, Goes, Both, Flags, Functions, RaiseEffect
  <2>. QED
    BY <2>1, <2>2 DEF Settle
<1>19. CASE \E p \in Process : List(p)
  BY <1>19, Goes, Both, Flags, Functions DEF List
<1>20. CASE \E p \in Process : ListFails(p)
  BY <1>20, Goes, Both, Flags, Functions, RaiseEffect DEF ListFails
<1>21. CASE \E p \in Process : SweepNext(p)
  BY <1>21, Goes, Both, Flags, Functions DEF SweepNext
<1>22. CASE \E p \in Process : Swept(p)
  BY <1>22, Goes, Both, Flags, Functions DEF Swept
<1>23. CASE UNCHANGED vars
  BY <1>23 DEF vars
<1>. QED
  BY <1>1, <1>2, <1>3, <1>4, <1>5, <1>6, <1>7, <1>8, <1>9, <1>10, <1>11, <1>12, <1>13, <1>14,
     <1>15, <1>16, <1>17, <1>18, <1>19, <1>20, <1>21, <1>22, <1>23, Zenon DEF Next, Command

\* A container that runs on has cost a mishap at each of three places.
LEMMA MishapStep ==
  ASSUME TypeOK, DaemonInv, PlaceInv, FoundInv, MishapInv, [Next]_vars
  PROVE  MishapInv'
<1>. USE DEF MishapInv, Escaped, PlaceInv, FoundInv, Handed, Main, Exists, Named, Sweeping,
   Mishap, Unharmed, Terminating, Cleaning, daemon, call, frame, work, GoOn, GoTo
<1>1. CASE \E c \in Container : Exit(c) \/ AutoRemove(c)
  BY <1>1, Goes, Both, Flags, Functions DEF Exit, AutoRemove
<1>2. CASE \E c \in Container : Launch(c)
  BY <1>2, Goes, Both, Flags, Functions DEF Launch
<1>3. CASE \E x \in Execution : Run(x)
  BY <1>3, Goes, Both, Flags, Functions DEF Run
<1>4. CASE Decline
  BY <1>4, Goes, Both, Flags, Functions DEF Decline
<1>5. CASE ClientEnds \/ NameConflict \/ ClientFails
  BY <1>5, Goes, Both, Flags, Functions DEF ClientEnds, NameConflict, ClientFails,
     ClientExits
<1>6. CASE TimeOut
  BY <1>6, Goes, Both, Flags, Functions DEF TimeOut
<1>7. CASE Interrupt
  BY <1>7, Goes, Both, Flags, Functions, RaiseEffect DEF Interrupt
<1>8. CASE KillController
  BY <1>8, Goes, Both, Flags, Functions DEF KillController
<1>9. CASE Clean
  <2>0. place["controller"] = "clean" /\ UNCHANGED <<daemon, call, mishaps, work>>
    BY <1>9 DEF Clean
  <2>1. CASE Sees("controller", {}) /\ Finish
    BY <2>0, <2>1, Goes, Both, Flags, Functions, FinishEffect DEF Sees, Inspected
  <2>2. CASE \E c \in Container :
              /\ Sees("controller", {c}) /\ GoWith("controller", "remove", c)
              /\ UNCHANGED <<frame, result>>
    BY <2>0, <2>2, Goes, Both, Flags, Functions DEF Sees, Inspected
  <2>. QED
    BY <1>9, <2>1, <2>2 DEF Clean
<1>10. CASE Abort
  BY <1>10, Goes, Both, Flags, Functions DEF Abort
<1>11. CASE \E p \in Process : InspectFails(p)
  <2>. PICK p \in Process : InspectFails(p)
    BY <1>11
  <2>0. /\ place[p] \in {"examine", "stopped", "check", "confirm", "clean", "settle"}
        /\ Raise(p)
    BY DEF InspectFails
  <2>1. CASE p = "abort"
    BY <2>0, <2>1, Goes, Both, Flags, Functions, RaiseEffect DEF InspectFails
  <2>2. CASE p = Main /\ Inspected(p) \cap foreign # {} /\ mishaps' = mishaps
    <3>1. CASE sweeping
      <4>1. place'[Main] = "idle" /\ ~handling'
        BY <2>0, <2>2, <3>1, Goes, Both, Flags, RaiseEffect
      <4>. QED
        BY <4>1
    <3>2. CASE ~sweeping
      <4>1. ~Escaped
        BY <2>2, <3>2, Functions DEF Inspected, DaemonInv
      <4>2. UNCHANGED <<life, name, foreign, execution>>
        BY <2>0, RaiseEffect
      <4>. QED
        BY <4>1, <4>2
    <3>. QED
      BY <3>1, <3>2
  <2>3. CASE p = Main /\ Mishap(p)
    BY <2>0, <2>3, Goes, Both, Flags, Functions, RaiseEffect
  <2>. QED
    BY <2>1, <2>2, <2>3, Both DEF InspectFails
<1>12. CASE \E p \in Process : Examine(p)
  <2>. PICK p \in Process : Examine(p)
    BY <1>12
  <2>0. place[p] = "examine" /\ UNCHANGED <<daemon, call, frame, mishaps, work, result>>
    BY DEF Examine
  <2>1. CASE Sees(p, {}) /\ Past(p, NoContainer)
    BY <2>0, <2>1, Goes, Both, Flags, Functions, PastEffect DEF Sees, Inspected
  <2>2. CASE \E c \in Container :
              Sees(p, {c}) /\ life[c] = "running" /\ GoWith(p, "stop", c)
    BY <2>0, <2>2, Goes, Both, Flags, Functions DEF Sees, Inspected
  <2>3. CASE \E c \in Container : Sees(p, {c}) /\ life[c] # "running" /\ Past(p, c)
    BY <2>0, <2>3, Goes, Both, Flags, Functions, PastEffect DEF Sees, Inspected
  <2>. QED
    BY <2>1, <2>2, <2>3 DEF Examine
<1>13. CASE \E p \in Process : Stop(p)
  <2>. PICK p \in Process : Stop(p)
    BY <1>13
  <2>0. place[p] = "stop" /\ UNCHANGED <<name, foreign, call, frame, work, result>>
    BY DEF Stop
  <2>1. CASE Exists(found[p]) /\ Halt(found[p]) /\ Unharmed /\ GoOn(p, "stopped")
    BY <2>0, <2>1, Goes, Both, Flags, Functions DEF Sees, Inspected, Halt
  <2>2. CASE ~Exists(found[p]) /\ UNCHANGED life /\ Unharmed /\ GoOn(p, "check")
    BY <2>0, <2>2, Goes, Both, Flags, Functions DEF Sees, Inspected
  <2>3. CASE (Halt(found[p]) \/ UNCHANGED life) /\ Mishap(p) /\ GoOn(p, "check")
    BY <2>0, <2>3, Goes, Both, Flags, Functions DEF Sees, Inspected, Halt
  <2>. QED
    BY <2>1, <2>2, <2>3 DEF Stop
<1>14. CASE \E p \in Process : Check(p)
  <2>. PICK p \in Process : Check(p)
    BY <1>14
  <2>0. /\ place[p] \in {"stopped", "check"}
        /\ UNCHANGED <<daemon, call, frame, mishaps, work, result>>
    BY DEF Check
  <2>1. CASE \E S \in SUBSET Container : \E c \in S :
              /\ Sees(p, S) /\ GoWith(p, "kill", c) /\ \E d \in S : life[d] = "running"
              /\ ~(Sweeping(p) /\ place[p] = "stopped")
    BY <2>0, <2>1, Goes, Both, Flags, Functions DEF Sees, Inspected
  <2>2. CASE \E S \in SUBSET Container :
              /\ Sees(p, S) /\ Past(p, found[p])
              /\ (\A c \in S : life[c] # "running") \/ (Sweeping(p) /\ place[p] = "stopped")
    BY <2>0, <2>2, Goes, Both, Flags, Functions, PastEffect DEF Sees, Inspected
  <2>. QED
    BY <2>1, <2>2 DEF Check
<1>15. CASE \E p \in Process : Kill(p)
  <2>. PICK p \in Process : Kill(p)
    BY <1>15
  <2>0. place[p] = "kill" /\ UNCHANGED <<name, foreign, call, frame, work, result>>
    BY DEF Kill
  <2>1. CASE life[found[p]] = "running" /\ Halt(found[p]) /\ Unharmed /\ Past(p, found[p])
    BY <2>0, <2>1, Goes, Both, Flags, Functions, PastEffect DEF Sees, Inspected, Halt
  <2>2. CASE life[found[p]] # "running" /\ UNCHANGED life /\ Unharmed /\ GoOn(p, "confirm")
    BY <2>0, <2>2, Goes, Both, Flags, Functions DEF Sees, Inspected
  <2>3. CASE (Halt(found[p]) \/ UNCHANGED life) /\ Mishap(p) /\ GoOn(p, "confirm")
    BY <2>0, <2>3, Goes, Both, Flags, Functions DEF Sees, Inspected, Halt
  <2>. QED
    BY <2>1, <2>2, <2>3 DEF Kill
<1>16. CASE \E p \in Process : Confirm(p)
  <2>. PICK p \in Process : Confirm(p)
    BY <1>16
  <2>0. place[p] = "confirm" /\ UNCHANGED mishaps
    BY DEF Confirm, Unharmed
  <2>1. CASE /\ Sees(p, {}) /\ Past(p, found[p])
            /\ UNCHANGED <<daemon, call, frame, work, result>>
    BY <2>0, <2>1, Goes, Both, Flags, Functions, PastEffect DEF Sees, Inspected
  <2>2. CASE \E c \in Container : Sees(p, {c}) /\ Raise(p)
    BY <2>0, <2>2, Goes, Both, Flags, Functions, RaiseEffect DEF Sees, Inspected
  <2>. QED
    BY <2>1, <2>2 DEF Confirm
<1>17. CASE \E p \in Process : Remove(p)
  <2>. PICK p \in Process : Remove(p)
    BY <1>17
  <2>0. place[p] = "remove" /\ UNCHANGED <<name, foreign, call, work>>
    BY DEF Remove
  <2>1. CASE RemoveSucceeds(p)
    BY <2>0, <2>1, Goes, Both, Flags, Functions, RemovedEffect, FinishEffect DEF Sees,
       Inspected, RemoveSucceeds, Delete
  <2>2. CASE RemoveFails(p)
    BY <2>0, <2>2, Goes, Both, Flags, Functions DEF Sees, Inspected, RemoveFails, Delete
  <2>. QED
    BY <2>1, <2>2 DEF Remove
<1>18. CASE \E p \in Process : Settle(p)
  <2>. PICK p \in Process : Settle(p)
    BY <1>18
  <2>0. place[p] = "settle" /\ UNCHANGED mishaps
    BY DEF Settle, Unharmed
  <2>1. CASE Sees(p, {}) /\ Removed(p) /\ UNCHANGED <<daemon, call, work>>
    BY <2>0, <2>1, Goes, Both, Flags, Functions, RemovedEffect, FinishEffect DEF Sees,
       Inspected
  <2>2. CASE \E c \in Container : Sees(p, {c}) /\ Raise(p)
    BY <2>0, <2>2, Goes, Both, Flags, Functions, RaiseEffect DEF Sees, Inspected
  <2>. QED
    BY <2>1, <2>2 DEF Settle
<1>19. CASE \E p \in Process : List(p)
  BY <1>19, Goes, Both, Flags, Functions DEF List
<1>20. CASE \E p \in Process : ListFails(p)
  BY <1>20, Goes, Both, Flags, Functions, RaiseEffect DEF ListFails
<1>21. CASE \E p \in Process : SweepNext(p)
  BY <1>21, Goes, Both, Flags, Functions DEF SweepNext
<1>22. CASE \E p \in Process : Swept(p)
  BY <1>22, Goes, Both, Flags, Functions DEF Swept
<1>23. CASE UNCHANGED vars
  BY <1>23 DEF vars
<1>. QED
  BY <1>1, <1>2, <1>3, <1>4, <1>5, <1>6, <1>7, <1>8, <1>9, <1>10, <1>11, <1>12, <1>13, <1>14,
     <1>15, <1>16, <1>17, <1>18, <1>19, <1>20, <1>21, <1>22, <1>23, Zenon DEF Next, Command

\* The results of a call.
Result == {"none", "declined", "returned", "raised", "killed", "failed", "swept"}

\* A call that ends leaves its types behind.
LEMMA FinishTypes ==
  ASSUME TypeOK, Finish
  PROVE  /\ place' \in [Process -> Place] /\ found' \in [Process -> Container \union {NoContainer}]
         /\ handling' \in BOOLEAN /\ sweeping' \in BOOLEAN /\ result' \in [Process -> Result]
<1>. USE Both, Flags DEF Finish, GoTo, Main
<1>1. /\ place' \in [Process -> Place]
      /\ found' \in [Process -> Container \union {NoContainer}]
  BY Stays DEF Place
<1>2. handling' \in BOOLEAN /\ sweeping' \in BOOLEAN
  OBVIOUS
<1>3. result' \in [Process -> Result]
  BY DEF TypeOK, Result
<1>. QED
  BY <1>1, <1>2, <1>3

\* So does one that raises.
LEMMA RaiseTypes ==
  ASSUME TypeOK, NEW p \in Process, Raise(p)
  PROVE  /\ place' \in [Process -> Place] /\ found' \in [Process -> Container \union {NoContainer}]
         /\ handling' \in BOOLEAN /\ sweeping' \in BOOLEAN /\ result' \in [Process -> Result]
<1>. USE Both, Flags DEF GoTo, Main
<1>1. result \in [Process -> Result]
  BY DEF TypeOK, Result
<1>2. CASE LeaveSweep(p)
  <2>1. /\ place' \in [Process -> Place]
        /\ found' \in [Process -> Container \union {NoContainer}]
    BY <1>2, Stays DEF LeaveSweep, Place
  <2>2. handling' \in BOOLEAN /\ sweeping' \in BOOLEAN
    BY <1>2 DEF LeaveSweep
  <2>3. result' \in [Process -> Result]
    BY <1>1, <1>2 DEF LeaveSweep, Result
  <2>. QED
    BY <2>1, <2>2, <2>3
<1>3. CASE p = "controller" /\ (Handle \/ CleanUpAnyway)
  <2>1. /\ place' \in [Process -> Place]
        /\ found' \in [Process -> Container \union {NoContainer}]
    BY <1>3, Stays DEF Handle, CleanUpAnyway, Place, Terminating, Cleaning
  <2>. QED
    BY <1>1, <1>3, <2>1 DEF Handle, CleanUpAnyway, frame
<1>4. CASE p = "controller" /\ GiveUp
  BY <1>4, FinishTypes DEF GiveUp
<1>. QED
  BY <1>2, <1>3, <1>4 DEF Raise

\* Every step keeps the types.
LEMMA TypeStep ==
  ASSUME TypeOK, PlaceInv, FoundInv, [Next]_vars
  PROVE  TypeOK'
<1>. USE DEF TypeOK, Main, Handed, FoundInv, Place, Terminating, Cleaning, Sweeping, Mishap,
   Unharmed, Halt, Delete, Result, daemon, call, frame, work, GoOn, GoTo
<1>1. CASE \E c \in Container : Exit(c) \/ AutoRemove(c)
  BY <1>1, Stays, Both DEF Exit, AutoRemove
<1>2. CASE \E c \in Container : Launch(c)
  BY <1>2, Stays, Both DEF Launch
<1>3. CASE \E x \in Execution : Run(x)
  BY <1>3, Stays, Both DEF Run
<1>4. CASE Decline
  BY <1>4, Stays, Both DEF Decline
<1>5. CASE ClientEnds \/ NameConflict \/ ClientFails
  BY <1>5, Stays, Both DEF ClientEnds, NameConflict, ClientFails, ClientExits
<1>6. CASE TimeOut
  BY <1>6, Stays, Both DEF TimeOut
<1>7. CASE Interrupt
  BY <1>7, Stays, Both, RaiseEffect, RaiseTypes DEF Interrupt
<1>8. CASE KillController
  BY <1>8, Stays, Both DEF KillController
<1>9. CASE Clean
  <2>0. place["controller"] = "clean" /\ UNCHANGED <<daemon, call, mishaps, work>>
    BY <1>9 DEF Clean
  <2>1. CASE Sees("controller", {}) /\ Finish
    BY <2>0, <2>1, Stays, Both, FinishTypes
  <2>2. CASE \E c \in Container :
              /\ Sees("controller", {c}) /\ GoWith("controller", "remove", c)
              /\ UNCHANGED <<frame, result>>
    BY <2>0, <2>2, Stays, Both
  <2>. QED
    BY <1>9, <2>1, <2>2 DEF Clean
<1>10. CASE Abort
  BY <1>10, Stays, Both DEF Abort
<1>11. CASE \E p \in Process : InspectFails(p)
  BY <1>11, Stays, Both, RaiseEffect, RaiseTypes DEF InspectFails
<1>12. CASE \E p \in Process : Examine(p)
  <2>. PICK p \in Process : Examine(p)
    BY <1>12
  <2>0. place[p] = "examine" /\ UNCHANGED <<daemon, call, frame, mishaps, work, result>>
    BY DEF Examine
  <2>1. CASE Sees(p, {}) /\ Past(p, NoContainer)
    BY <2>0, <2>1, Stays, Both, PastEffect
  <2>2. CASE \E c \in Container :
              Sees(p, {c}) /\ life[c] = "running" /\ GoWith(p, "stop", c)
    BY <2>0, <2>2, Stays, Both
  <2>3. CASE \E c \in Container : Sees(p, {c}) /\ life[c] # "running" /\ Past(p, c)
    BY <2>0, <2>3, Stays, Both, PastEffect
  <2>. QED
    BY <2>1, <2>2, <2>3 DEF Examine
<1>13. CASE \E p \in Process : Stop(p)
  <2>. PICK p \in Process : Stop(p)
    BY <1>13
  <2>0. place[p] = "stop" /\ UNCHANGED <<name, foreign, call, frame, work, result>>
    BY DEF Stop
  <2>1. CASE Exists(found[p]) /\ Halt(found[p]) /\ Unharmed /\ GoOn(p, "stopped")
    BY <2>0, <2>1, Stays, Both DEF Halt
  <2>2. CASE ~Exists(found[p]) /\ UNCHANGED life /\ Unharmed /\ GoOn(p, "check")
    BY <2>0, <2>2, Stays, Both
  <2>3. CASE (Halt(found[p]) \/ UNCHANGED life) /\ Mishap(p) /\ GoOn(p, "check")
    BY <2>0, <2>3, Stays, Both DEF Halt
  <2>. QED
    BY <2>1, <2>2, <2>3 DEF Stop
<1>14. CASE \E p \in Process : Check(p)
  <2>. PICK p \in Process : Check(p)
    BY <1>14
  <2>0. /\ place[p] \in {"stopped", "check"}
        /\ UNCHANGED <<daemon, call, frame, mishaps, work, result>>
    BY DEF Check
  <2>1. CASE \E S \in SUBSET Container : \E c \in S :
              /\ Sees(p, S) /\ GoWith(p, "kill", c) /\ \E d \in S : life[d] = "running"
              /\ ~(Sweeping(p) /\ place[p] = "stopped")
    BY <2>0, <2>1, Stays, Both
  <2>2. CASE \E S \in SUBSET Container :
              /\ Sees(p, S) /\ Past(p, found[p])
              /\ (\A c \in S : life[c] # "running") \/ (Sweeping(p) /\ place[p] = "stopped")
    BY <2>0, <2>2, Stays, Both, PastEffect
  <2>. QED
    BY <2>1, <2>2 DEF Check
<1>15. CASE \E p \in Process : Kill(p)
  <2>. PICK p \in Process : Kill(p)
    BY <1>15
  <2>0. place[p] = "kill" /\ UNCHANGED <<name, foreign, call, frame, work, result>>
    BY DEF Kill
  <2>1. CASE life[found[p]] = "running" /\ Halt(found[p]) /\ Unharmed /\ Past(p, found[p])
    BY <2>0, <2>1, Stays, Both, PastEffect DEF Halt
  <2>2. CASE life[found[p]] # "running" /\ UNCHANGED life /\ Unharmed /\ GoOn(p, "confirm")
    BY <2>0, <2>2, Stays, Both
  <2>3. CASE (Halt(found[p]) \/ UNCHANGED life) /\ Mishap(p) /\ GoOn(p, "confirm")
    BY <2>0, <2>3, Stays, Both DEF Halt
  <2>. QED
    BY <2>1, <2>2, <2>3 DEF Kill
<1>16. CASE \E p \in Process : Confirm(p)
  <2>. PICK p \in Process : Confirm(p)
    BY <1>16
  <2>0. place[p] = "confirm" /\ UNCHANGED mishaps
    BY DEF Confirm, Unharmed
  <2>1. CASE /\ Sees(p, {}) /\ Past(p, found[p])
            /\ UNCHANGED <<daemon, call, frame, work, result>>
    BY <2>0, <2>1, Stays, Both, PastEffect
  <2>2. CASE \E c \in Container : Sees(p, {c}) /\ Raise(p)
    BY <2>0, <2>2, Stays, Both, RaiseEffect, RaiseTypes
  <2>. QED
    BY <2>1, <2>2 DEF Confirm
<1>17. CASE \E p \in Process : Remove(p)
  <2>. PICK p \in Process : Remove(p)
    BY <1>17
  <2>0. place[p] = "remove" /\ UNCHANGED <<name, foreign, call, work>>
    BY DEF Remove
  <2>1. CASE RemoveSucceeds(p)
    BY <2>0, <2>1, Stays, Both, RemovedEffect, FinishTypes DEF RemoveSucceeds, Delete
  <2>2. CASE RemoveFails(p)
    BY <2>0, <2>2, Stays, Both DEF RemoveFails, Delete
  <2>. QED
    BY <2>1, <2>2 DEF Remove
<1>18. CASE \E p \in Process : Settle(p)
  <2>. PICK p \in Process : Settle(p)
    BY <1>18
  <2>0. place[p] = "settle" /\ UNCHANGED mishaps
    BY DEF Settle, Unharmed
  <2>1. CASE Sees(p, {}) /\ Removed(p) /\ UNCHANGED <<daemon, call, work>>
    BY <2>0, <2>1, Stays, Both, RemovedEffect, FinishTypes
  <2>2. CASE \E c \in Container : Sees(p, {c}) /\ Raise(p)
    BY <2>0, <2>2, Stays, Both, RaiseEffect, RaiseTypes
  <2>. QED
    BY <2>1, <2>2 DEF Settle
<1>19. CASE \E p \in Process : List(p)
  BY <1>19, Stays, Both DEF List
<1>20. CASE \E p \in Process : ListFails(p)
  BY <1>20, Stays, Both, RaiseEffect, RaiseTypes DEF ListFails
<1>21. CASE \E p \in Process : SweepNext(p)
  BY <1>21, Stays, Both DEF SweepNext
<1>22. CASE \E p \in Process : Swept(p)
  BY <1>22, Stays, Both DEF Swept
<1>23. CASE UNCHANGED vars
  BY <1>23 DEF vars
<1>. QED
  BY <1>1, <1>2, <1>3, <1>4, <1>5, <1>6, <1>7, <1>8, <1>9, <1>10, <1>11, <1>12, <1>13, <1>14,
     <1>15, <1>16, <1>17, <1>18, <1>19, <1>20, <1>21, <1>22, <1>23, Zenon DEF Next, Command

\* Whose a container is never changes.
LEMMA ForeignKept ==
  ASSUME TypeOK, [Next]_vars
  PROVE  foreign' = foreign
<1>. USE DEF Main, daemon, call, frame, work, GoOn, GoTo
<1>1. CASE \E c \in Container : Exit(c) \/ AutoRemove(c)
  BY <1>1, Both, Flags DEF Exit, AutoRemove
<1>2. CASE \E c \in Container : Launch(c)
  BY <1>2, Both, Flags DEF Launch
<1>3. CASE \E x \in Execution : Run(x)
  BY <1>3, Both, Flags DEF Run
<1>4. CASE Decline
  BY <1>4, Both, Flags DEF Decline
<1>5. CASE ClientEnds \/ NameConflict \/ ClientFails
  BY <1>5, Both, Flags DEF ClientEnds, NameConflict, ClientFails, ClientExits
<1>6. CASE TimeOut
  BY <1>6, Both, Flags DEF TimeOut
<1>7. CASE Interrupt
  BY <1>7, Both, Flags, RaiseEffect DEF Interrupt
<1>8. CASE KillController
  BY <1>8, Both, Flags DEF KillController
<1>9. CASE Clean
  <2>0. place["controller"] = "clean" /\ UNCHANGED <<daemon, call, mishaps, work>>
    BY <1>9 DEF Clean
  <2>1. CASE Sees("controller", {}) /\ Finish
    BY <2>0, <2>1, FinishEffect
  <2>2. CASE \E c \in Container :
              /\ Sees("controller", {c}) /\ GoWith("controller", "remove", c)
              /\ UNCHANGED <<frame, result>>
    BY <2>0, <2>2
  <2>. QED
    BY <1>9, <2>1, <2>2 DEF Clean
<1>10. CASE Abort
  BY <1>10, Both, Flags DEF Abort
<1>11. CASE \E p \in Process : InspectFails(p)
  BY <1>11, Both, Flags, RaiseEffect DEF InspectFails
<1>12. CASE \E p \in Process : Examine(p)
  BY <1>12, Both, Flags, PastEffect DEF Examine
<1>13. CASE \E p \in Process : Stop(p)
  BY <1>13, Both, Flags DEF Stop
<1>14. CASE \E p \in Process : Check(p)
  BY <1>14, Both, Flags, PastEffect DEF Check
<1>15. CASE \E p \in Process : Kill(p)
  BY <1>15, Both, Flags, PastEffect DEF Kill
<1>16. CASE \E p \in Process : Confirm(p)
  <2>. PICK p \in Process : Confirm(p)
    BY <1>16
  <2>0. place[p] = "confirm" /\ UNCHANGED mishaps
    BY DEF Confirm, Unharmed
  <2>1. CASE /\ Sees(p, {}) /\ Past(p, found[p])
            /\ UNCHANGED <<daemon, call, frame, work, result>>
    BY <2>0, <2>1, PastEffect
  <2>2. CASE \E c \in Container : Sees(p, {c}) /\ Raise(p)
    BY <2>0, <2>2, RaiseEffect
  <2>. QED
    BY <2>1, <2>2 DEF Confirm
<1>17. CASE \E p \in Process : Remove(p)
  BY <1>17, Both, Flags, RemovedEffect, FinishEffect DEF Remove, RemoveSucceeds,
     RemoveFails
<1>18. CASE \E p \in Process : Settle(p)
  <2>. PICK p \in Process : Settle(p)
    BY <1>18
  <2>0. place[p] = "settle" /\ UNCHANGED mishaps
    BY DEF Settle, Unharmed
  <2>1. CASE Sees(p, {}) /\ Removed(p) /\ UNCHANGED <<daemon, call, work>>
    BY <2>0, <2>1, RemovedEffect, FinishEffect
  <2>2. CASE \E c \in Container : Sees(p, {c}) /\ Raise(p)
    BY <2>0, <2>2, RaiseEffect
  <2>. QED
    BY <2>1, <2>2 DEF Settle
<1>19. CASE \E p \in Process : List(p)
  BY <1>19, Both, Flags DEF List
<1>20. CASE \E p \in Process : ListFails(p)
  BY <1>20, Both, Flags, RaiseEffect DEF ListFails
<1>21. CASE \E p \in Process : SweepNext(p)
  BY <1>21, Both, Flags DEF SweepNext
<1>22. CASE \E p \in Process : Swept(p)
  BY <1>22, Both, Flags DEF Swept
<1>23. CASE UNCHANGED vars
  BY <1>23 DEF vars
<1>. QED
  BY <1>1, <1>2, <1>3, <1>4, <1>5, <1>6, <1>7, <1>8, <1>9, <1>10, <1>11, <1>12, <1>13, <1>14,
     <1>15, <1>16, <1>17, <1>18, <1>19, <1>20, <1>21, <1>22, <1>23, Zenon DEF Next, Command
-----------------------------------------------------------------------------
(* The invariant and what follows from it.                                 *)

\* The types hold at first.
LEMMA TypeInit == Init => TypeOK
<1>. SUFFICES ASSUME Init PROVE TypeOK
  OBVIOUS
<1>1. /\ life \in [Container -> {"unused", "running", "exited", "removed"}]
      /\ name \in [Container -> Execution] /\ foreign \subseteq Container
  BY DEF Init
<1>2. place \in [Process -> Place] /\ found \in [Process -> Container \union {NoContainer}]
  BY DEF Init, Place
<1>3. result \in [Process -> Result]
  BY DEF Init, Result
<1>4. todo \in [Process -> SUBSET Container] /\ listed \subseteq Container
  BY DEF Init
<1>5. /\ execution \in Execution /\ own \in Container \union {NoContainer}
      /\ outcome \in {"none", "exited", "timed_out"}
  BY DEF Init
<1>6. handling \in BOOLEAN /\ sweeping \in BOOLEAN
  BY Zenon DEF Init
<1>7. mishaps \in 0 .. 3
  BY DEF Init
<1>. QED
  BY <1>1, <1>2, <1>3, <1>4, <1>5, <1>6, <1>7 DEF TypeOK, Result

\* The invariant holds at first.
LEMMA IInvInit == Init => IInv
<1>. SUFFICES ASSUME Init PROVE IInv
  OBVIOUS
<1>. USE Both DEF Main, Init
<1>1. DaemonInv /\ ~Escaped
  BY DEF DaemonInv, Escaped, Exists, Named
<1>2. PlaceInv /\ FoundInv
  BY DEF PlaceInv, FoundInv, Handed, Sweeping
<1>3. MishapInv /\ ReturnInv /\ AbortInv
  BY <1>1 DEF MishapInv, ReturnInv, AbortInv, Handed
<1>. QED
  BY <1>1, <1>2, <1>3, TypeInit DEF IInv

\* The invariant is kept by every step of both processes, the client and the daemon.
LEMMA IInvStep == IInv /\ [Next]_vars => IInv'
BY TypeStep, DaemonStep, PlaceStep, FoundStep, MishapStep, ReturnStep, AbortStep DEF IInv

\* It is an invariant of the specification.
LEMMA IInvHolds == Spec => []IInv
BY IInvInit, IInvStep, PTL DEF Spec

\* All values of all variables are of their types in every reachable state.
THEOREM TypeCorrect == Spec => []TypeOK
<1>1. IInv => TypeOK
  BY DEF IInv
<1>. QED
  BY <1>1, IInvHolds, PTL

\* cleanup_confirmed is true: whatever failed, was interrupted or was removed by the abort
\* command, a call that returns leaves no container with the name of its execution.
THEOREM ConfirmedGone == Spec => []ConfirmedIsGone
<1>1. IInv => ConfirmedIsGone
  BY DEF IInv, ReturnInv, ConfirmedIsGone, Main
<1>. QED
  BY <1>1, IInvHolds, PTL

\* A call that raises has met three failed commands or interruptions, if it leaves a
\* container of the run that runs on.
THEOREM TwoMishaps == Spec => []TwoMishapsLeaveNothing
<1>1. IInv => TwoMishapsLeaveNothing
  BY DEF IInv, TypeOK, MishapInv, Escaped, TwoMishapsLeaveNothing, Main
<1>. QED
  BY <1>1, IInvHolds, PTL

\* Once terminate_run has returned to the abort command, what it listed is gone for good.
THEOREM AbortStops == Spec => []AbortStopsRun
<1>1. IInv => AbortStopsRun
  BY DEF IInv, AbortInv, AbortStopsRun
<1>. QED
  BY <1>1, IInvHolds, PTL

\* No container without the labels of the run is ever stopped, killed or removed.
THEOREM ForeignSafe == Spec => ForeignUntouched
<1>1. ASSUME IInv, [Next]_vars
      PROVE  [\A c \in foreign : life'[c] = life[c]]_vars
  <2>1. IInv'
    BY <1>1, IInvStep
  <2>2. foreign' = foreign
    BY <1>1, ForeignKept DEF IInv
  <2>3. \A c \in foreign : life[c] = "running" /\ life'[c] = "running"
    BY <1>1, <2>1, <2>2 DEF IInv, DaemonInv
  <2>. QED
    BY <2>3
<1>. QED
  BY <1>1, IInvHolds, PTL DEF Spec, ForeignUntouched
=============================================================================
