----------------------------- MODULE ChildPipes -----------------------------
(***************************************************************************)
(* A command that the controller has started, as the operating system      *)
(* shows it: the process itself, the descendants it forks, the two pipes   *)
(* that carry their output to the controller, and the pipe that carries    *)
(* the input to them, if there is one.  The command is the leader of a     *)
(* process group of its own.                                               *)
(*                                                                         *)
(* What flows is counted, not kept: a unit is so many bytes.  A reader     *)
(* thread sees the end of a pipe when no process holds its writing end.    *)
(* What the controller does with the command is ProcessRunner.             *)
(***************************************************************************)
EXTENDS Naturals

CONSTANTS
  Leader,      \* the command
  Descendant,  \* the processes it may fork, directly or through each other
  Capacity,    \* what a pipe holds before a write to it blocks
  MaxWritten   \* bound of the model: what is written to each stream, depending on
               \* whether there is an input

ASSUME PipesAssumption ==
  /\ Leader \notin Descendant
  /\ Capacity \in Nat \ {0}
  /\ MaxWritten \in [BOOLEAN -> [{"stdout", "stderr"} -> Nat]]

Process == Descendant \union {Leader}

Stream == {"stdout", "stderr"}

VARIABLES
  life,      \* whether each process is unborn, running or dead
  ends,      \* the streams whose writing end each process holds
  asked,     \* the processes that have been sent SIGTERM
  code,      \* how the leader ended: by itself or by a signal
  pipe,      \* what is in each pipe
  written,   \* history: what was written to each stream
  fed,       \* whether the command has an input; if not, it is /dev/null
  input,     \* what is in the pipe of the input
  listening  \* the processes that hold the reading end of that pipe

output == <<pipe, written>>
standardInput == <<fed, input, listening>>
children == <<life, ends, asked, code, output, standardInput>>

Running(p) == life[p] = "running"

\* Nobody can write to the stream any more.
Ended(s) == \A p \in Process : s \notin ends[p]

ChildrenInit ==
  /\ life = [p \in Process |-> IF p = Leader THEN "running" ELSE "unborn"]
  /\ ends = [p \in Process |-> IF p = Leader THEN Stream ELSE {}]
  /\ asked = {}
  /\ code = "none"
  /\ pipe = [s \in Stream |-> 0]
  /\ written = [s \in Stream |-> 0]
  /\ fed \in BOOLEAN
  /\ input = 0
  /\ listening = IF fed THEN {Leader} ELSE {}

\* The operating system blocks the writer while the pipe is full.
Write(p, s) ==
  /\ Running(p)
  /\ s \in ends[p]
  /\ pipe[s] < Capacity
  /\ written[s] < MaxWritten[fed][s]
  /\ pipe' = [pipe EXCEPT ![s] = @ + 1]
  /\ written' = [written EXCEPT ![s] = @ + 1]
  /\ UNCHANGED <<life, ends, asked, code, standardInput>>

ReadInput(p) ==
  /\ Running(p)
  /\ p \in listening
  /\ input > 0
  /\ input' = input - 1
  /\ UNCHANGED <<life, ends, asked, code, output, fed, listening>>

\* A descendant inherits the open pipes and belongs to the same process group.
Fork(p, c) ==
  /\ Running(p)
  /\ life[c] = "unborn"
  /\ life' = [life EXCEPT ![c] = "running"]
  /\ ends' = [ends EXCEPT ![c] = ends[p]]
  /\ listening' = listening \union {x \in {c} : p \in listening}
  /\ UNCHANGED <<asked, code, output, fed, input>>

\* A process may close its output or redirect it elsewhere, and its input.
CloseEnd(p, s) ==
  /\ Running(p)
  /\ s \in ends[p]
  /\ ends' = [ends EXCEPT ![p] = @ \ {s}]
  /\ UNCHANGED <<life, asked, code, output, standardInput>>

CloseInput(p) ==
  /\ Running(p)
  /\ p \in listening
  /\ listening' = listening \ {p}
  /\ UNCHANGED <<life, ends, asked, code, output, fed, input>>

\* What a process held open is closed when it dies.
Dies(ps) ==
  /\ life' = [p \in Process |-> IF p \in ps THEN "dead" ELSE life[p]]
  /\ ends' = [p \in Process |-> IF p \in ps THEN {} ELSE ends[p]]
  /\ listening' = listening \ ps

\* A process exits or dies of a signal, one that the controller has sent or another:
\* it may also ignore SIGTERM, for a while or for good.
Exit(p) ==
  /\ Running(p)
  /\ Dies({p})
  /\ IF p = Leader THEN code' \in {"own", "signal"} ELSE code' = code
  /\ UNCHANGED <<asked, output, fed, input>>

ProcessStep(p) ==
  \/ \E s \in Stream : Write(p, s) \/ CloseEnd(p, s)
  \/ ReadInput(p) \/ CloseInput(p)
  \/ \E c \in Descendant : Fork(p, c)
  \/ Exit(p)

\* SIGTERM to the group.
AskGroup ==
  /\ asked' = asked \union {p \in Process : Running(p)}
  /\ UNCHANGED <<life, ends, code, output, standardInput>>

\* SIGKILL to the group: nothing in it survives.
KillGroup ==
  /\ Dies({p \in Process : Running(p)})
  /\ code' = IF Running(Leader) THEN "signal" ELSE code
  /\ UNCHANGED <<asked, output, fed, input>>

\* A reader takes a unit out of a pipe.
Take(s) ==
  /\ pipe[s] > 0
  /\ pipe' = [pipe EXCEPT ![s] = @ - 1]
  /\ UNCHANGED <<life, ends, asked, code, written, standardInput>>

\* The controller puts a unit into the pipe of the input.
Put ==
  /\ listening # {}
  /\ input < Capacity
  /\ input' = input + 1
  /\ UNCHANGED <<life, ends, asked, code, output, fed, listening>>

ChildrenTypeOK ==
  /\ life \in [Process -> {"unborn", "running", "dead"}]
  /\ ends \in [Process -> SUBSET Stream]
  /\ asked \subseteq Process
  /\ code \in {"none", "own", "signal"}
  /\ pipe \in [Stream -> 0 .. Capacity]
  /\ written \in [Stream -> Nat]
  /\ fed \in BOOLEAN
  /\ input \in 0 .. Capacity
  /\ listening \subseteq Process
=============================================================================
