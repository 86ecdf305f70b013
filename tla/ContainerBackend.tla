-------------------------- MODULE ContainerBackend --------------------------
(***************************************************************************)
(* The Docker backend (backends/docker.py): run executes one container and *)
(* confirms that it is gone; terminate_run stops what a run has left.  The *)
(* controller runs one execution after the other and, when one raises,     *)
(* sweeps its run; the abort command sweeps the same run at any time.      *)
(*                                                                         *)
(* Both know the containers only by what single docker commands tell them, *)
(* and in between containers exit, are removed, or are stopped by the      *)
(* other.  A docker command may fail, done or not.  The controller may be  *)
(* interrupted in any step, or killed, which leaves its container behind.  *)
(*                                                                         *)
(* The daemon is external: it refuses a name that is taken, and removes a  *)
(* container that has exited, some time later, because of --rm.  A client  *)
(* that is killed, or whose controller is, makes no container after that.  *)
(***************************************************************************)
EXTENDS Naturals

CONSTANTS
  Execution,    \* execution identifiers of the run; they determine the names
  Container,    \* container identifiers: how many are ever made
  NoContainer

ASSUME ContainerAssumption == NoContainer \notin Container

Process == {"controller", "abort"}
Terminating == {"examine", "stop", "stopped", "check", "kill", "confirm"}
Cleaning == {"clean", "remove", "settle"}
Place == {"idle", "waiting", "list", "sweep"} \union Terminating \union Cleaning

VARIABLES
  \* The daemon.
  life,       \* unused, running, exited or removed
  name,       \* the execution that a container is named after
  foreign,    \* the containers without the labels of the run
  \* The call of run in the controller.
  execution,  \* its execution identifier
  own,        \* the container that its docker client made
  outcome,    \* how its docker client ended
  handling,   \* it is in its except block
  sweeping,   \* it has raised, and the workflow calls terminate_run
  mishaps,    \* history: failed commands and interruptions, more than three as three
  \* terminate, cleanup and terminate_run in both processes.
  place,      \* the next docker command
  found,      \* the container that it is about, by its identifier
  todo,       \* the identifiers that terminate_run has yet to look at
  listed,     \* history: all that abort has listed
  result      \* how the last call ended

daemon == <<life, name, foreign>>
call == <<execution, own, outcome>>
frame == <<handling, sweeping>>
work == <<todo, listed>>
vars == <<daemon, call, frame, mishaps, place, found, work, result>>

Init ==
  /\ foreign \in SUBSET Container
  /\ life = [c \in Container |-> IF c \in foreign THEN "running" ELSE "unused"]
  /\ name \in [Container -> Execution]
  /\ \A c, d \in foreign : name[c] = name[d] => c = d
  /\ \A c \in Container \ foreign : name[c] = CHOOSE x \in Execution : TRUE
  /\ execution \in Execution
  /\ own = NoContainer
  /\ outcome = "none"
  /\ handling = FALSE
  /\ sweeping = FALSE
  /\ mishaps = 0
  /\ place = [p \in Process |-> "idle"]
  /\ found = [p \in Process |-> NoContainer]
  /\ todo = [p \in Process |-> {}]
  /\ listed = {}
  /\ result = [p \in Process |-> "none"]
-----------------------------------------------------------------------------
Exists(c) == life[c] \in {"running", "exited"}
Named(x) == {c \in Container : Exists(c) /\ name[c] = x}

\* abort, and the controller once it has raised, are in terminate_run.
Sweeping(p) == p = "abort" \/ sweeping

\* What docker inspect finds: by name in a call of run, by identifier in a sweep.
Inspected(p) ==
  IF Sweeping(p) THEN {c \in {found[p]} \ {NoContainer} : Exists(c)} ELSE Named(execution)

\* Mutant: the labels are not compared.
SeesUnlabelled(p, S) == Inspected(p) = S

\* _inspect_container: nothing, or one container that carries every label.
Sees(p, S) == Inspected(p) = S /\ S \cap foreign = {}

GoWith(p, there, c) ==
  /\ place' = [place EXCEPT ![p] = there]
  /\ found' = [found EXCEPT ![p] = c]
GoOn(p, there) == GoWith(p, there, found[p])
GoTo(p, there) == GoWith(p, there, NoContainer)

Unharmed == UNCHANGED mishaps
Mishap(p) == mishaps' = IF Sweeping(p) \/ mishaps = 3 THEN mishaps ELSE mishaps + 1
-----------------------------------------------------------------------------
(* The daemon, by itself.                                                  *)

Exit(c) ==
  /\ life[c] = "running"
  /\ c \notin foreign
  /\ life' = [life EXCEPT ![c] = "exited"]
  /\ UNCHANGED <<name, foreign, call, frame, mishaps, place, found, work, result>>

AutoRemove(c) ==
  /\ life[c] = "exited"
  /\ life' = [life EXCEPT ![c] = "removed"]
  /\ UNCHANGED <<name, foreign, call, frame, mishaps, place, found, work, result>>
-----------------------------------------------------------------------------
(* run: the docker client and what becomes of it.                          *)

\* The execution is registered as active; the client of docker run is started.
Run(x) ==
  /\ place["controller"] = "idle"
  /\ execution' = x
  /\ own' = NoContainer
  /\ outcome' = "none"
  /\ mishaps' = 0
  /\ result' = [result EXCEPT !["controller"] = "none"]
  /\ GoTo("controller", "waiting")
  /\ UNCHANGED <<daemon, frame, work>>

\* Docker is unhealthy, or the request not protected: run raises before it begins.
Decline ==
  /\ place["controller"] = "idle"
  /\ sweeping' = TRUE
  /\ result' = [result EXCEPT !["controller"] = "declined"]
  /\ GoTo("controller", "list")
  /\ UNCHANGED <<daemon, call, handling, mishaps, work>>

Launch(c) ==
  /\ place["controller"] = "waiting"
  /\ own = NoContainer
  /\ Named(execution) = {}
  /\ life[c] = "unused"
  /\ life' = [life EXCEPT ![c] = "running"]
  /\ name' = [name EXCEPT ![c] = execution]
  /\ own' = c
  /\ UNCHANGED <<foreign, execution, outcome, frame, mishaps, place, found, work, result>>

\* The client returns, whatever its exit code, and cleanup is next.
ClientExits ==
  /\ place["controller"] = "waiting"
  /\ outcome' = "exited"
  /\ GoTo("controller", "clean")
  /\ UNCHANGED <<daemon, execution, own, frame, work, result>>

\* With the exit code of its container, once that is removed;
ClientEnds == own # NoContainer /\ life[own] = "removed" /\ ClientExits /\ Unharmed

\* with 125, because the name is taken;
NameConflict == own = NoContainer /\ Named(execution) # {} /\ ClientExits /\ Unharmed

\* or with 125 because of some other failure.
ClientFails == ClientExits /\ Mishap("controller")

\* The process runner has killed the client at its deadline or on cancellation.
TimeOut ==
  /\ place["controller"] = "waiting"
  /\ outcome' = "timed_out"
  /\ GoTo("controller", "examine")
  /\ UNCHANGED <<daemon, execution, own, frame, mishaps, work, result>>

\* The call has removed its container, and returns or goes on raising.
Finish ==
  /\ GoTo("controller", IF handling THEN "list" ELSE "idle")
  /\ result' = [result EXCEPT !["controller"] = IF handling THEN "raised" ELSE "returned"]
  /\ sweeping' = handling
  /\ handling' = FALSE
-----------------------------------------------------------------------------
(* Exceptions: BackendError from a command, KeyboardInterrupt in any step. *)

\* run's except block, from its start.
Handle ==
  /\ ~Sweeping("controller")
  /\ ~handling
  /\ handling' = TRUE
  /\ GoTo("controller", "examine")
  /\ UNCHANGED <<sweeping, result>>

\* Mutant: terminate raises, and nothing makes cleanup follow.
CleanUpNever ==
  /\ handling
  /\ place["controller"] \in Terminating
  /\ Finish

\* terminate raised in the except block: its finally clause is next.
CleanUpAnyway ==
  /\ handling
  /\ place["controller"] \in Terminating
  /\ GoTo("controller", "clean")
  /\ UNCHANGED <<frame, result>>

\* cleanup raised in the finally clause: the exception leaves run.
GiveUp ==
  /\ handling
  /\ place["controller"] \in Cleaning
  /\ Finish

\* terminate_run raised: abort fails, the workflow ignores it.
LeaveSweep(p) ==
  /\ Sweeping(p)
  /\ GoTo(p, "idle")
  /\ result' = [result EXCEPT ![p] = IF p = "abort" THEN "failed" ELSE @]
  /\ IF p = "controller" THEN sweeping' = FALSE ELSE UNCHANGED sweeping
  /\ UNCHANGED handling

Raise(p) ==
  /\ LeaveSweep(p) \/ (p = "controller" /\ (Handle \/ CleanUpAnyway \/ GiveUp))
  /\ UNCHANGED <<daemon, call, work>>

\* An interruption; the process runner kills the client of the moment.
Interrupt ==
  /\ place["controller"] # "idle"
  /\ Raise("controller")
  /\ Mishap("controller")

\* The controller is killed; its client and its container live on.
KillController ==
  /\ place["controller"] # "idle"
  /\ GoTo("controller", "idle")
  /\ result' = [result EXCEPT !["controller"] = "killed"]
  /\ handling' = FALSE
  /\ sweeping' = FALSE
  /\ UNCHANGED <<daemon, call, mishaps, work>>
-----------------------------------------------------------------------------
(* terminate and the first half of terminate_run's loop.                   *)

\* docker inspect could not be answered, or it shows labels of somebody else.
InspectFails(p) ==
  /\ place[p] \in {"examine", "stopped", "check", "confirm", "clean", "settle"}
  /\ \/ Inspected(p) \cap foreign # {} /\ Unharmed
     \/ Mishap(p)
  /\ Raise(p)

\* A container that no longer runs need not be stopped: terminate is done and
\* cleanup follows, terminate_run goes on to remove it, if it is there.
Past(p, c) ==
  CASE ~Sweeping(p) -> GoTo(p, "clean")
    [] Sweeping(p) /\ c # NoContainer -> GoWith(p, "remove", c)
    [] OTHER -> GoTo(p, "sweep")

Examine(p) ==
  /\ place[p] = "examine"
  /\ \/ Sees(p, {}) /\ Past(p, NoContainer)
     \/ \E c \in Container :
          /\ Sees(p, {c})
          /\ IF life[c] = "running" THEN GoWith(p, "stop", c) ELSE Past(p, c)
  /\ UNCHANGED <<daemon, call, frame, mishaps, work, result>>

Halt(c) == life' = [life EXCEPT ![c] = IF @ = "running" THEN "exited" ELSE @]

\* docker stop: it fails for a container that is gone, or for any other reason,
\* the last one being that it takes too long and succeeds all the same.
Stop(p) ==
  /\ place[p] = "stop"
  /\ \/ Exists(found[p]) /\ Halt(found[p]) /\ Unharmed /\ GoOn(p, "stopped")
     \/ ~Exists(found[p]) /\ UNCHANGED life /\ Unharmed /\ GoOn(p, "check")
     \/ (Halt(found[p]) \/ UNCHANGED life) /\ Mishap(p) /\ GoOn(p, "check")
  /\ UNCHANGED <<name, foreign, call, frame, work, result>>

\* terminate kills what still runs; terminate_run only if the stop has failed.
Check(p) ==
  /\ place[p] \in {"stopped", "check"}
  /\ \E S \in SUBSET Container :
       /\ Sees(p, S)
       /\ IF (\E c \in S : life[c] = "running") /\ ~(Sweeping(p) /\ place[p] = "stopped")
          THEN \E c \in S : GoWith(p, "kill", c)
          ELSE Past(p, found[p])
  /\ UNCHANGED <<daemon, call, frame, mishaps, work, result>>

\* docker kill refuses a container that does not run.
Kill(p) ==
  /\ place[p] = "kill"
  /\ \/ life[found[p]] = "running" /\ Halt(found[p]) /\ Unharmed /\ Past(p, found[p])
     \/ life[found[p]] # "running" /\ UNCHANGED life /\ Unharmed /\ GoOn(p, "confirm")
     \/ (Halt(found[p]) \/ UNCHANGED life) /\ Mishap(p) /\ GoOn(p, "confirm")
  /\ UNCHANGED <<name, foreign, call, frame, work, result>>

\* The kill has failed: was it because the container is gone?
Confirm(p) ==
  /\ place[p] = "confirm"
  /\ \/ /\ Sees(p, {})
        /\ Past(p, found[p])
        /\ UNCHANGED <<daemon, call, frame, work, result>>
     \/ \E c \in Container : Sees(p, {c}) /\ Raise(p)
  /\ Unharmed
-----------------------------------------------------------------------------
(* cleanup and the second half of terminate_run's loop.                    *)

Removed(p) ==
  IF Sweeping(p) THEN GoTo(p, "sweep") /\ UNCHANGED <<frame, result>> ELSE Finish

Clean ==
  /\ place["controller"] = "clean"
  /\ \/ Sees("controller", {}) /\ Finish
     \/ \E c \in Container :
          /\ Sees("controller", {c})
          /\ GoWith("controller", "remove", c)
          /\ UNCHANGED <<frame, result>>
  /\ UNCHANGED <<daemon, call, mishaps, work>>

Delete(c) == life' = [life EXCEPT ![c] = "removed"]

\* docker rm --force: refused if the daemon is at it already, or nothing is there.
RemoveSucceeds(p) ==
  /\ Exists(found[p])
  /\ Delete(found[p])
  /\ Unharmed
  /\ Removed(p)

RemoveFails(p) ==
  /\ \/ life[found[p]] # "running" /\ UNCHANGED life /\ Unharmed
     \/ (Delete(found[p]) \/ UNCHANGED life) /\ Mishap(p)
  /\ GoOn(p, "settle")
  /\ UNCHANGED <<frame, result>>

\* Mutant: the exit code of docker rm is ignored.
RemoveUnchecked(p) ==
  /\ place[p] = "remove"
  /\ Delete(found[p]) \/ UNCHANGED life
  /\ Mishap(p)
  /\ Removed(p)
  /\ UNCHANGED <<name, foreign, call, work>>

Remove(p) ==
  /\ place[p] = "remove"
  /\ RemoveSucceeds(p) \/ RemoveFails(p)
  /\ UNCHANGED <<name, foreign, call, work>>

\* Mutant: the removal failed, and that is the end of it.
SettleAnyway(p) ==
  /\ place[p] = "settle"
  /\ Removed(p)
  /\ Unharmed
  /\ UNCHANGED <<daemon, call, work>>

\* The removal has failed: was it because the container is gone?
Settle(p) ==
  /\ place[p] = "settle"
  /\ \/ Sees(p, {}) /\ Removed(p) /\ UNCHANGED <<daemon, call, work>>
     \/ \E c \in Container : Sees(p, {c}) /\ Raise(p)
  /\ Unharmed
-----------------------------------------------------------------------------
(* terminate_run.                                                          *)

Abort ==
  /\ place["abort"] = "idle"
  /\ GoTo("abort", "list")
  /\ result' = [result EXCEPT !["abort"] = "none"]
  /\ listed' = {}
  /\ UNCHANGED <<daemon, call, frame, mishaps, todo>>

\* docker ps --all, filtered by the labels.
List(p) ==
  /\ place[p] = "list"
  /\ todo' = [todo EXCEPT ![p] = {c \in Container \ foreign : Exists(c)}]
  /\ listed' = IF p = "abort" THEN todo'[p] ELSE listed
  /\ GoTo(p, "sweep")
  /\ UNCHANGED <<daemon, call, frame, mishaps, result>>

\* The daemon is not healthy, or it does not list the containers.
ListFails(p) == place[p] = "list" /\ Raise(p) /\ Mishap(p)

\* The next identifier ...
SweepNext(p) ==
  /\ place[p] = "sweep"
  /\ \E c \in todo[p] :
       /\ GoWith(p, "examine", c)
       /\ todo' = [todo EXCEPT ![p] = @ \ {c}]
  /\ UNCHANGED <<daemon, call, frame, mishaps, listed, result>>

\* ... or none: terminate_run returns.
Swept(p) ==
  /\ place[p] = "sweep"
  /\ todo[p] = {}
  /\ GoTo(p, "idle")
  /\ result' = [result EXCEPT ![p] = IF p = "abort" THEN "swept" ELSE @]
  /\ IF p = "controller" THEN sweeping' = FALSE ELSE UNCHANGED sweeping
  /\ UNCHANGED <<daemon, call, handling, mishaps, work>>
-----------------------------------------------------------------------------
Command(p) ==
  \/ InspectFails(p)
  \/ Examine(p)
  \/ Stop(p)
  \/ Check(p)
  \/ Kill(p)
  \/ Confirm(p)
  \/ Remove(p)
  \/ Settle(p)
  \/ List(p)
  \/ ListFails(p)
  \/ SweepNext(p)
  \/ Swept(p)

Next ==
  \/ \E c \in Container : Exit(c) \/ AutoRemove(c) \/ Launch(c)
  \/ \E x \in Execution : Run(x)
  \/ Decline
  \/ ClientEnds
  \/ NameConflict
  \/ ClientFails
  \/ TimeOut
  \/ Interrupt
  \/ KillController
  \/ Clean
  \/ Abort
  \/ \E p \in Process : Command(p)

Spec == Init /\ [][Next]_vars
-----------------------------------------------------------------------------
(* Properties.                                                             *)

TypeOK ==
  /\ life \in [Container -> {"unused", "running", "exited", "removed"}]
  /\ name \in [Container -> Execution]
  /\ foreign \subseteq Container
  /\ execution \in Execution
  /\ own \in Container \union {NoContainer}
  /\ outcome \in {"none", "exited", "timed_out"}
  /\ handling \in BOOLEAN
  /\ sweeping \in BOOLEAN
  /\ mishaps \in 0 .. 3
  /\ place \in [Process -> Place]
  /\ found \in [Process -> Container \union {NoContainer}]
  /\ todo \in [Process -> SUBSET Container]
  /\ listed \subseteq Container
  /\ result \in [Process ->
                  {"none", "declined", "returned", "raised", "killed", "failed", "swept"}]

\* cleanup_confirmed: when run returns a result, no container of the execution
\* exists, neither its own nor one that an earlier controller left.
ConfirmedIsGone ==
  (place["controller"] = "idle" /\ result["controller"] = "returned")
    => Named(execution) = {}

\* Only the third of three mishaps in one call, failed commands or interruptions,
\* can make run raise and leave a container running.
TwoMishapsLeaveNothing ==
  (place["controller"] = "list" /\ result["controller"] = "raised" /\ mishaps <= 2)
    => \A c \in Named(execution) \ foreign : life[c] # "running"

\* When terminate_run has returned to abort, everything that it listed is gone.
AbortStopsRun ==
  result["abort"] = "swept" => \A c \in listed : ~Exists(c)

\* docs/security.md: "A label mismatch is never deleted", nor is it stopped.
ForeignUntouched ==
  [][\A c \in foreign : life'[c] = life[c]]_vars

\* docs/architecture.md: "Each oracle receives a new container": unless a docker
\* command has failed, the exit code that run returns is that of a container
\* which this call has made.
EachGetsItsContainer ==
  (result["controller"] = "returned" /\ outcome = "exited" /\ mishaps = 0)
    => own # NoContainer
=============================================================================
