-------------------------- MODULE RunCoordinator --------------------------
(***************************************************************************)
(* The run coordinator (services/coordinator.py) over three stores: the    *)
(* run directories, the evidence of each run, and the SQLite index         *)
(* (services/run_store.py).  The evidence is the authority; the index is   *)
(* written after it and may lag.  Mutating calls hold the nonblocking      *)
(* repository lock (services/locks.py); list_runs and status hold none.    *)
(*                                                                         *)
(* The evidence of a run is the log that EvidenceLog specifies and         *)
(* EvidenceChain implements: here an append starts, and then either        *)
(* commits or is interrupted and may leave the log sealed.  A process may  *)
(* fail or be killed between any two steps; a power failure also takes     *)
(* back index commits that SQLite (WAL, synchronous=NORMAL) did not flush. *)
(* All runs belong to one repository, so every mutating call contends.     *)
(***************************************************************************)
EXTENDS Naturals, Sequences, SequencesExt, FiniteSets, RunStates

CONSTANTS
  Process,     \* controller processes
  Run,         \* run identifiers
  Target,      \* the states that callers ask for
  MaxEvents,   \* bound of the model: events of all runs together
  Nobody,      \* the repository lock when it is free
  NoJob,       \* a process that executes no mutating call
  NoRow        \* a run that the index does not know

ASSUME CoordinatorAssumption ==
  /\ Target \subseteq RunState
  /\ MaxEvents \in Nat
  /\ Nobody \notin Process

\* An event: run.created, run.state_changed, or an event of any other type.
Created == [kind |-> "created", from |-> NoState, to |-> "CREATED"]
Changed(from, to) == [kind |-> "changed", from |-> from, to |-> to]
Note == [kind |-> "note", from |-> NoState, to |-> NoState]

EventRecord ==
  [kind : {"created", "changed", "note"},
   from : RunState \union {NoState},
   to : RunState \union {NoState}]

\* create_run, transition and append_event, each on one run.
Job ==
  [run : Run, kind : {"create", "note"}, target : {NoState}]
    \union [run : Run, kind : {"move"}, target : Target]

\* The state and the event that an index row names by sequence and hash.
Row == [state : RunState, upto : Seq(EventRecord)]

VARIABLES
  stored,    \* what the directory of each run holds
  chain,     \* the committed evidence of each run
  sealed,    \* runs whose evidence no longer verifies
  unflushed, \* runs whose latest checkpoint the disk may not hold yet
  row,       \* the index row of each run
  saved,     \* the rows a power failure may leave behind
  lock,      \* the holder of the repository lock
  pc,        \* where each process is in its call
  job,       \* the mutating call of each process
  seen,      \* the state each process derived under the lock
  todo       \* the run directories list_runs has still to read

stores == <<stored, chain, sealed, unflushed, row, saved>>
processes == <<lock, pc, job, seen, todo>>
vars == <<stores, processes>>

Held == {"make", "manifest", "first", "locked", "ready", "writing", "committed", "indexed"}
-----------------------------------------------------------------------------
(* _derive_state.                                                          *)

IsMove(event) == event.kind # "note"

\* The last event that sets the state; every chain that is read has one.
LastMove(events) ==
  CHOOSE i \in DOMAIN events :
    /\ IsMove(events[i])
    /\ \A j \in DOMAIN events : j > i => ~IsMove(events[j])

StateOf(events) ==
  IF \E i \in DOMAIN events : IsMove(events[i])
  THEN events[LastMove(events)].to
  ELSE NoState

\* A chain from which _derive_state derives a state and raises no error.
Derivable(events) ==
  /\ events # <<>>
  /\ events[1] = Created
  /\ \A i \in 2 .. Len(events) :
       /\ events[i].kind # "created"
       /\ events[i].kind = "changed" =>
            /\ events[i].from = StateOf(SubSeq(events, 1, i - 1))
            /\ CanTransition(events[i].from, events[i].to)

\* _verified_status returns: the manifest is there and the evidence verifies.
Readable(r) ==
  /\ stored[r] = "manifest"
  /\ ~sealed[r]
  /\ Derivable(chain[r])

\* A reader without the lock may also be refused while an append is under way.
MayBeRefused(r) ==
  \/ ~Readable(r)
  \/ \E p \in Process : pc[p] = "writing" /\ job[p].run = r

\* _make_record: the row that describes the whole evidence of a run.
Record(state, events) == [state |-> state, upto |-> events]
-----------------------------------------------------------------------------
Init ==
  /\ stored = [r \in Run |-> "absent"]
  /\ chain = [r \in Run |-> <<>>]
  /\ sealed = [r \in Run |-> FALSE]
  /\ unflushed = {}
  /\ row = [r \in Run |-> NoRow]
  /\ saved = [r \in Run |-> {NoRow}]
  /\ lock = Nobody
  /\ pc = [p \in Process |-> "idle"]
  /\ job = [p \in Process |-> NoJob]
  /\ seen = [p \in Process |-> NoState]
  /\ todo = [p \in Process |-> {}]

GoTo(p, step) == pc' = [pc EXCEPT ![p] = step]

\* Mutant: the lock is not exclusive.
BeginShared(p, j) ==
  /\ pc[p] = "idle"
  /\ j.kind # "create" => stored[j.run] = "manifest"
  /\ lock' = p
  /\ job' = [job EXCEPT ![p] = j]
  /\ GoTo(p, IF j.kind = "create" THEN "make" ELSE "locked")
  /\ UNCHANGED <<stores, seen, todo>>

\* A mutating call begins: it needs the lock at once, and any call but
\* create_run has found the run directory and read its manifest.
Begin(p, j) ==
  /\ pc[p] = "idle"
  /\ lock = Nobody
  /\ j.kind # "create" => stored[j.run] = "manifest"
  /\ lock' = p
  /\ job' = [job EXCEPT ![p] = j]
  /\ GoTo(p, IF j.kind = "create" THEN "make" ELSE "locked")
  /\ UNCHANGED <<stores, seen, todo>>

\* create_run: mkdir(exist_ok=False), so a run identifier is used once.
MakeDirectory(p) ==
  /\ pc[p] = "make"
  /\ stored[job[p].run] = "absent"
  /\ stored' = [stored EXCEPT ![job[p].run] = "directory"]
  /\ GoTo(p, "manifest")
  /\ UNCHANGED <<chain, sealed, unflushed, row, saved, lock, job, seen, todo>>

WriteManifest(p) ==
  /\ pc[p] = "manifest"
  /\ stored' = [stored EXCEPT ![job[p].run] = "manifest"]
  /\ GoTo(p, "first")
  /\ UNCHANGED <<chain, sealed, unflushed, row, saved, lock, job, seen, todo>>

\* Mutant: the transition is not validated.
ValidateNothing(p) ==
  LET r == job[p].run IN
  /\ pc[p] = "locked"
  /\ Readable(r)
  /\ seen' = [seen EXCEPT ![p] = StateOf(chain[r])]
  /\ GoTo(p, "ready")
  /\ UNCHANGED <<stores, lock, job, todo>>

\* transition and append_event: read the evidence under the lock, and validate
\* the transition against the state that it derives.
Validate(p) ==
  LET r == job[p].run IN
  /\ pc[p] = "locked"
  /\ Readable(r)
  /\ job[p].kind = "move" => CanTransition(StateOf(chain[r]), job[p].target)
  /\ seen' = [seen EXCEPT ![p] = StateOf(chain[r])]
  /\ GoTo(p, "ready")
  /\ UNCHANGED <<stores, lock, job, todo>>

\* The event that a call appends.
EventOf(p) ==
  CASE job[p].kind = "create" -> Created
    [] job[p].kind = "move"   -> Changed(seen[p], job[p].target)
    [] job[p].kind = "note"   -> Note

\* The state of the row that a call writes: the one it made or the one it saw.
StateAfter(p) ==
  CASE job[p].kind = "create" -> "CREATED"
    [] job[p].kind = "move"   -> job[p].target
    [] job[p].kind = "note"   -> seen[p]

\* The bound of the model.
Room == Cardinality({x \in Run \X (1 .. MaxEvents) : x[2] <= Len(chain[x[1]])}) < MaxEvents

\* Mutant: the index is written before the evidence.
StartAppendIndexed(p) ==
  LET r == job[p].run IN
  /\ pc[p] \in {"first", "ready"}
  /\ ~sealed[r]
  /\ Room
  /\ row' = [row EXCEPT ![r] = Record(StateAfter(p), Append(chain[r], EventOf(p)))]
  /\ saved' = [saved EXCEPT ![r] = @ \union {row'[r]}]
  /\ GoTo(p, "writing")
  /\ UNCHANGED <<stored, chain, sealed, unflushed, lock, job, seen, todo>>

\* EvidenceWriter.append opens and verifies the chain and starts to write.
StartAppend(p) ==
  LET r == job[p].run IN
  /\ pc[p] \in {"first", "ready"}
  /\ ~sealed[r]
  /\ Room
  /\ GoTo(p, "writing")
  /\ UNCHANGED <<stores, lock, job, seen, todo>>

\* Mutant: the lock is released before the index is written.
CommitReleasing(p) ==
  LET r == job[p].run IN
  /\ pc[p] = "writing"
  /\ chain' = [chain EXCEPT ![r] = Append(@, EventOf(p))]
  /\ unflushed' = unflushed \union {r}
  /\ lock' = Nobody
  /\ GoTo(p, "committed")
  /\ UNCHANGED <<stored, sealed, row, saved, job, seen, todo>>

\* Mutant: the append is repeated when its outcome is unclear.
CommitTwice(p) ==
  LET r == job[p].run IN
  /\ pc[p] = "writing"
  /\ chain' = [chain EXCEPT ![r] = @ \o <<EventOf(p), EventOf(p)>>]
  /\ unflushed' = unflushed \union {r}
  /\ GoTo(p, "committed")
  /\ UNCHANGED <<stored, sealed, row, saved, lock, job, seen, todo>>

\* The line is flushed and its checkpoint in place; the directory is flushed before
\* append returns, and the call indexes the event.
Commit(p) ==
  LET r == job[p].run IN
  /\ pc[p] = "writing"
  /\ chain' = [chain EXCEPT ![r] = Append(@, EventOf(p))]
  /\ unflushed' = unflushed \union {r}
  /\ GoTo(p, "committed")
  /\ UNCHANGED <<stored, sealed, row, saved, lock, job, seen, todo>>

\* append has flushed the directory and returned; store.insert or store.upsert of
\* the row for the event just appended.
Index(p) ==
  LET r == job[p].run IN
  /\ pc[p] = "committed"
  /\ job[p].kind = "create" => row[r] = NoRow
  /\ row' = [row EXCEPT ![r] = Record(StateAfter(p), chain[r])]
  /\ saved' = [saved EXCEPT ![r] = @ \union {row'[r]}]
  /\ unflushed' = unflushed \ {r}
  /\ GoTo(p, "indexed")
  /\ UNCHANGED <<stored, chain, sealed, lock, job, seen, todo>>

\* The call releases the lock and returns to its caller.
Finish(p) ==
  /\ pc[p] = "indexed"
  /\ lock' = Nobody
  /\ job' = [job EXCEPT ![p] = NoJob]
  /\ seen' = [seen EXCEPT ![p] = NoState]
  /\ GoTo(p, "idle")
  /\ UNCHANGED <<stores, todo>>

\* A mutating call is refused, raises, or its process dies; the lock is free
\* again.  Inside append, the evidence may be left half written, and a checkpoint in
\* place but not flushed.
Fail(p) ==
  /\ pc[p] \in Held
  /\ lock' = Nobody
  /\ job' = [job EXCEPT ![p] = NoJob]
  /\ seen' = [seen EXCEPT ![p] = NoState]
  /\ GoTo(p, "idle")
  /\ \/ UNCHANGED sealed
     \/ pc[p] = "writing" /\ sealed' = [sealed EXCEPT ![job[p].run] = TRUE]
  /\ UNCHANGED <<stored, chain, unflushed, row, saved, todo>>
-----------------------------------------------------------------------------
(* list_runs, without a lock.                                              *)

BeginList(p) ==
  /\ pc[p] = "idle"
  /\ todo' = [todo EXCEPT ![p] = {r \in Run : stored[r] # "absent"}]
  /\ GoTo(p, "listing")
  /\ UNCHANGED <<stores, lock, job, seen>>

\* One more directory has a status; after the last one the call returns.
ListOne(p, r) ==
  /\ pc[p] = "listing"
  /\ r \in todo[p]
  /\ Readable(r)
  /\ todo' = [todo EXCEPT ![p] = @ \ {r}]
  /\ UNCHANGED <<stores, lock, pc, job, seen>>

ListDone(p) ==
  /\ pc[p] = "listing"
  /\ todo[p] = {}
  /\ GoTo(p, "idle")
  /\ UNCHANGED <<stores, lock, job, seen, todo>>

\* The status of one directory raises, and with it the whole listing.
ListFail(p) ==
  /\ pc[p] = "listing"
  /\ \E r \in todo[p] : MayBeRefused(r)
  /\ todo' = [todo EXCEPT ![p] = {}]
  /\ GoTo(p, "idle")
  /\ UNCHANGED <<stores, lock, job, seen>>
-----------------------------------------------------------------------------
\* Power fails.  An interrupted append may be forgotten or leave a half-written
\* log; a checkpoint that was not flushed, by this call or an earlier one that gave
\* up, may be lost; a new directory may be lost; the index falls back to a row that
\* was flushed.
PowerLoss ==
  /\ sealed' \in [Run -> BOOLEAN]
  /\ \A r \in Run :
       sealed'[r] = sealed[r]
         \/ sealed[r]
         \/ r \in unflushed
         \/ \E p \in Process : pc[p] = "writing" /\ job[p].run = r
  /\ unflushed' = {}
  /\ stored' \in [Run -> {"absent", "directory", "manifest"}]
  /\ \A r \in Run :
       stored'[r] = stored[r] \/ (stored[r] = "directory" /\ stored'[r] = "absent")
  /\ row' \in [Run -> UNION {saved[r] : r \in Run}]
  /\ \A r \in Run : row'[r] \in saved[r]
  /\ saved' = [r \in Run |-> {row'[r]}]
  /\ lock' = Nobody
  /\ pc' = [p \in Process |-> "idle"]
  /\ job' = [p \in Process |-> NoJob]
  /\ seen' = [p \in Process |-> NoState]
  /\ todo' = [p \in Process |-> {}]
  /\ UNCHANGED chain

CallStep(p) ==
  \/ MakeDirectory(p)
  \/ WriteManifest(p)
  \/ Validate(p)
  \/ StartAppend(p)
  \/ Commit(p)
  \/ Index(p)
  \/ Finish(p)

ListStep(p) ==
  \/ \E r \in Run : ListOne(p, r)
  \/ ListDone(p)
  \/ ListFail(p)

Next ==
  \/ \E p \in Process, j \in Job : Begin(p, j)
  \/ \E p \in Process : CallStep(p) \/ Fail(p) \/ BeginList(p) \/ ListStep(p)
  \/ PowerLoss

\* A call that has started is scheduled until it returns or fails.
Fairness == \A p \in Process : WF_vars(CallStep(p) \/ Fail(p)) /\ WF_vars(ListStep(p))

Spec == Init /\ [][Next]_vars /\ Fairness
-----------------------------------------------------------------------------
(* Properties.                                                             *)

TypeOK ==
  /\ stored \in [Run -> {"absent", "directory", "manifest"}]
  /\ chain \in [Run -> Seq(EventRecord)]
  /\ sealed \in [Run -> BOOLEAN]
  /\ unflushed \in SUBSET Run
  /\ row \in [Run -> Row \union {NoRow}]
  /\ saved \in [Run -> SUBSET (Row \union {NoRow})]
  /\ lock \in Process \union {Nobody}
  /\ pc \in [Process -> Held \union {"idle", "listing"}]
  /\ job \in [Process -> Job \union {NoJob}]
  /\ seen \in [Process -> RunState \union {NoState}]
  /\ todo \in [Process -> SUBSET Run]

\* Every committed chain derives a state: no two processes, whatever they ask
\* for and in whatever order, write evidence that _derive_state rejects later.
EvidenceStaysDerivable ==
  \A r \in Run : chain[r] # <<>> => Derivable(chain[r])

\* The index never runs ahead of the evidence, not even after a crash or a power
\* failure: a row names an event that is there, and the state it had then.
IndexNeverAhead ==
  \A r \in Run :
    \A indexed \in saved[r] \union {row[r]} :
      indexed # NoRow =>
        /\ IsPrefix(indexed.upto, chain[r])
        /\ indexed.state = StateOf(indexed.upto)

\* A call that returns leaves the index of its run reconciled with the evidence,
\* also the parts of it that earlier crashes left behind.
SuccessReconcilesIndex ==
  [][\A p \in Process :
       Finish(p) =>
         LET r == job[p].run IN row[r] = Record(StateOf(chain[r]), chain[r])]_vars

\* The evidence of each run is used as EvidenceLog allows (readers are left out).
Log(r) ==
  INSTANCE EvidenceLog
    WITH log <- chain[r], sealed <- sealed[r], view <- <<>>,
         Event <- EventRecord, Reader <- {}

\* Every run moves through its lifecycle atomically.
Lifecycle == INSTANCE RunLifecycle WITH state <- [r \in Run |-> StateOf(chain[r])]

\* Locks, crashes, stale indexes and half-made runs are invisible in the states a
\* run goes through: created once, then valid transitions one at a time.
ImplementsLifecycle == Lifecycle!Spec

\* What the coordinator does to the evidence of each run is what EvidenceLog allows:
\* one event at the end of an intact log, however calls fail and are repeated.
ImplementsLogs ==
  [][\A r \in Run :
       \/ UNCHANGED <<chain[r], sealed[r]>>
       \/ Log(r)!Seal
       \/ Log(r)!Unseal
       \/ Log(r)!Commit(Last(chain[r]'))]_vars
=============================================================================
