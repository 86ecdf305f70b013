--------------------------- MODULE EvidenceChain ---------------------------
(***************************************************************************)
(* The evidence store of one run (services/evidence.py): events.jsonl, an  *)
(* append-only file of hash-linked lines, and chain.sha256, the checkpoint *)
(* that names the hash of the last line.                                   *)
(*                                                                         *)
(* Writers hold the repository lock and append one event at a time: open,  *)
(* verify the whole chain, write the line, fsync, replace the checkpoint   *)
(* by rename, fsync the directory.  Readers hold no lock and take up to    *)
(* SnapshotAttempts snapshots of the two files.  A writer may be killed or *)
(* fail with an I/O error between any two of its system calls, and the     *)
(* machine may lose power, which forgets what was not flushed.             *)
(*                                                                         *)
(* SHA-256 is taken to be collision free, so the hash of a line is         *)
(* represented by what it commits to: the events up to and including it.   *)
(***************************************************************************)
EXTENDS Naturals, Sequences, SequencesExt

CONSTANTS
  Writer,            \* controller processes that may append
  Reader,            \* processes that call verify_event_chain
  Event,             \* the events that may be recorded
  SnapshotAttempts,  \* SNAPSHOT_ATTEMPTS of evidence.py
  MaxEvents,         \* bound of the model: the longest chain explored
  Nobody,            \* the lock when it is free
  NoCheckpoint,      \* chain.sha256 when it does not exist
  NoLine             \* a writer that has built no line

ASSUME EvidenceAssumption ==
  /\ SnapshotAttempts \in Nat \ {0}
  /\ MaxEvents \in Nat
  /\ Nobody \notin Writer
  /\ NoCheckpoint \notin Seq(Event)

Hash == Seq(Event)
Line == [event : Event, prev : Hash]
Snapshot == [lines : Seq(Line), torn : BOOLEAN, chain : Hash \union {NoCheckpoint}]
NoSnapshot == [lines |-> <<>>, torn |-> FALSE, chain |-> NoCheckpoint]
Stage == {"idle", "locked", "opened", "partial", "written", "synced", "replaced"}

VARIABLES
  lines,       \* the complete lines of events.jsonl, as every process sees them
  torn,        \* events.jsonl ends with part of a line
  synced,      \* how many lines are on stable storage
  chain,       \* the checkpoint, as every process sees it
  durable,     \* the checkpoints a power failure may leave behind
  lock,        \* the holder of the repository lock
  stage,       \* where each writer is in EvidenceWriter.append
  pending,     \* the line each writer has built
  phase,       \* where each reader is in verify_event_chain
  attempt,     \* the snapshot attempts each reader has used up
  snap,        \* what each reader has read in its current attempt
  report,      \* how each reader's last call ended
  view,        \* history: the last chain each reader accepted
  published,   \* history: the longest checkpoint ever put in place
  acked,       \* history: the last checkpoint an append returned for
  contended    \* history: an append overlapped the reader's current call

files == <<lines, torn, synced, chain, durable>>
writers == <<lock, stage, pending>>
readers == <<phase, attempt, snap, report, view, contended>>
vars == <<files, writers, readers, published, acked>>
-----------------------------------------------------------------------------
\* The hash of a line commits to the line and, through prev, to all before it.
HashOf(line) == Append(line.prev, line.event)

Events(ls) == [i \in DOMAIN ls |-> ls[i].event]

LastHash(ls) == IF ls = <<>> THEN <<>> ELSE HashOf(ls[Len(ls)])

\* Mutant: the links are followed but the checkpoint is not compared.
VerifiesLinksOnly(ls, partial, checkpoint) ==
  /\ ls # <<>>
  /\ ~partial
  /\ \A i \in DOMAIN ls : ls[i].prev = LastHash(SubSeq(ls, 1, i - 1))

\* Mutant: the checkpoint is compared with the link of the last line, not its hash.
VerifiesLastLink(ls, partial, checkpoint) ==
  /\ ls # <<>>
  /\ ~partial
  /\ \A i \in DOMAIN ls : ls[i].prev = LastHash(SubSeq(ls, 1, i - 1))
  /\ checkpoint = ls[Len(ls)].prev

\* _verify_content: framing, every link, and the checkpoint of the last line.
Verifies(ls, partial, checkpoint) ==
  /\ ls # <<>>
  /\ ~partial
  /\ \A i \in DOMAIN ls : ls[i].prev = LastHash(SubSeq(ls, 1, i - 1))
  /\ checkpoint = LastHash(ls)

\* What append accepts before it writes: a chain that verifies, or no chain.
Appendable(ls, partial, checkpoint) ==
  \/ Verifies(ls, partial, checkpoint)
  \/ ls = <<>> /\ ~partial /\ checkpoint = NoCheckpoint

\* A writer has started to change the files and has not yet replaced the checkpoint.
MidAppend == \E w \in Writer : stage[w] \in {"partial", "written", "synced"}

\* The checkpoint is that of the last whole line, and nothing follows that line.
FilesAgree == ~torn /\ chain = (IF lines = <<>> THEN NoCheckpoint ELSE LastHash(lines))

\* The files disagree and no append is under way that would make them agree.
Damaged == ~MidAppend /\ ~FilesAgree
-----------------------------------------------------------------------------
Init ==
  /\ lines = <<>>
  /\ torn = FALSE
  /\ synced = 0
  /\ chain = NoCheckpoint
  /\ durable = {NoCheckpoint}
  /\ lock = Nobody
  /\ stage = [w \in Writer |-> "idle"]
  /\ pending = [w \in Writer |-> NoLine]
  /\ phase = [r \in Reader |-> "idle"]
  /\ attempt = [r \in Reader |-> 0]
  /\ snap = [r \in Reader |-> NoSnapshot]
  /\ report = [r \in Reader |-> "none"]
  /\ view = [r \in Reader |-> <<>>]
  /\ published = <<>>
  /\ acked = <<>>
  /\ contended = [r \in Reader |-> FALSE]
-----------------------------------------------------------------------------
(* The writer: EvidenceWriter.append under RepositoryLock.                 *)

GoTo(w, s) == stage' = [stage EXCEPT ![w] = s]

\* Every reader whose call is in progress is overlapped by a change of the files.
Disturb == contended' = [r \in Reader |-> contended[r] \/ phase[r] # "idle"]

\* Mutant: the lock is not exclusive.
AcquireShared(w) ==
  /\ stage[w] = "idle"
  /\ lock' = w
  /\ GoTo(w, "locked")
  /\ UNCHANGED <<files, pending, readers, published, acked>>

\* RepositoryLock.acquire: nonblocking, so a busy lock is an error, not a wait.
Acquire(w) ==
  /\ stage[w] = "idle"
  /\ lock = Nobody
  /\ lock' = w
  /\ GoTo(w, "locked")
  /\ UNCHANGED <<files, pending, readers, published, acked>>

\* The holder leaves its with-block: it made as many appends as it wanted, its
\* append refused the chain it found, or it died holding the lock.
Release(w) ==
  /\ stage[w] = "locked"
  /\ lock' = Nobody
  /\ GoTo(w, "idle")
  /\ UNCHANGED <<files, pending, readers, published, acked>>

\* Open and read both files; build the next line only on a chain that verifies.
Open(w, e) ==
  /\ stage[w] = "locked"
  /\ Len(lines) < MaxEvents
  /\ Appendable(lines, torn, chain)
  /\ pending' = [pending EXCEPT ![w] = [event |-> e, prev |-> LastHash(lines)]]
  /\ GoTo(w, "opened")
  /\ UNCHANGED <<files, lock, readers, published, acked>>

\* os.write has stored a part of the line only (a short write).
WritePart(w) ==
  /\ stage[w] = "opened"
  /\ torn' = TRUE
  /\ Disturb
  /\ GoTo(w, "partial")
  /\ UNCHANGED <<lines, synced, chain, durable, lock, pending,
                 phase, attempt, snap, report, view, published, acked>>

\* os.write has stored the line, at once or after a short write.
WriteLine(w) ==
  /\ stage[w] \in {"opened", "partial"}
  /\ lines' = Append(lines, pending[w])
  /\ torn' = FALSE
  /\ Disturb
  /\ GoTo(w, "written")
  /\ UNCHANGED <<synced, chain, durable, lock, pending,
                 phase, attempt, snap, report, view, published, acked>>

\* Mutant: the fsync of events.jsonl is forgotten.
SkipSync(w) ==
  /\ stage[w] = "written"
  /\ GoTo(w, "synced")
  /\ UNCHANGED <<files, lock, pending, readers, published, acked>>

\* os.fsync(events.jsonl)
Sync(w) ==
  /\ stage[w] = "written"
  /\ synced' = Len(lines)
  /\ GoTo(w, "synced")
  /\ UNCHANGED <<lines, torn, chain, durable, lock, pending, readers, published, acked>>

\* os.replace(temporary, chain.sha256): atomic, but not yet certain to survive.
Replace(w) ==
  /\ stage[w] = "synced"
  /\ chain' = HashOf(pending[w])
  /\ durable' = durable \union {chain'}
  /\ published' = chain'
  /\ Disturb
  /\ GoTo(w, "replaced")
  /\ UNCHANGED <<lines, torn, synced, lock, pending,
                 phase, attempt, snap, report, view, acked>>

\* Mutant: append returns without flushing the directory.
ReturnUnsynced(w) ==
  /\ stage[w] = "replaced"
  /\ acked' = chain
  /\ pending' = [pending EXCEPT ![w] = NoLine]
  /\ GoTo(w, "locked")
  /\ UNCHANGED <<files, lock, readers, published>>

\* _sync_parent_directory; then append returns the event to its caller.
Return(w) ==
  /\ stage[w] = "replaced"
  /\ durable' = {chain}
  /\ acked' = chain
  /\ pending' = [pending EXCEPT ![w] = NoLine]
  /\ GoTo(w, "locked")
  /\ UNCHANGED <<lines, torn, synced, chain, lock, readers, published>>

\* A call of append fails, or the process dies in the middle of it: the lock is
\* released and the files stay as they are.
Abandon(w) ==
  /\ stage[w] \notin {"idle", "locked"}
  /\ lock' = Nobody
  /\ pending' = [pending EXCEPT ![w] = NoLine]
  /\ GoTo(w, "idle")
  /\ UNCHANGED <<files, readers, published, acked>>
-----------------------------------------------------------------------------
(* The reader: verify_event_chain, without a lock.                         *)

\* The first of the three reads of an attempt; it also starts the call.
ReadEvents(r) ==
  /\ phase[r] \in {"idle", "retry"}
  /\ snap' = [snap EXCEPT ![r] = [lines |-> lines, torn |-> torn, chain |-> NoCheckpoint]]
  /\ phase' = [phase EXCEPT ![r] = "events"]
  /\ contended' = [contended EXCEPT ![r] = (phase[r] = "retry" /\ @) \/ MidAppend]
  /\ UNCHANGED <<files, writers, attempt, report, view, published, acked>>

ReadCheckpoint(r) ==
  /\ phase[r] = "events"
  /\ snap' = [snap EXCEPT ![r].chain = chain]
  /\ phase' = [phase EXCEPT ![r] = "checkpoint"]
  /\ UNCHANGED <<files, writers, attempt, report, view, contended, published, acked>>

\* The second read of events.jsonl found the first one unchanged, and it verifies.
SnapshotGood(r) ==
  /\ snap[r].lines = lines
  /\ snap[r].torn = torn
  /\ Verifies(snap[r].lines, snap[r].torn, snap[r].chain)

Accept(r) ==
  /\ phase[r] = "checkpoint"
  /\ SnapshotGood(r)
  /\ view' = [view EXCEPT ![r] = snap[r].chain]
  /\ report' = [report EXCEPT ![r] = "verified"]
  /\ phase' = [phase EXCEPT ![r] = "idle"]
  /\ attempt' = [attempt EXCEPT ![r] = 0]
  /\ snap' = [snap EXCEPT ![r] = NoSnapshot]
  /\ contended' = [contended EXCEPT ![r] = FALSE]
  /\ UNCHANGED <<files, writers, published, acked>>

\* Mutant: the attempts are not counted.
RetryForever(r) ==
  /\ phase[r] = "checkpoint"
  /\ ~SnapshotGood(r)
  /\ phase' = [phase EXCEPT ![r] = "retry"]
  /\ snap' = [snap EXCEPT ![r] = NoSnapshot]
  /\ UNCHANGED <<files, writers, attempt, report, view, contended, published, acked>>

\* A bad snapshot, with attempts left: sleep and start over.
Retry(r) ==
  /\ phase[r] = "checkpoint"
  /\ ~SnapshotGood(r)
  /\ attempt[r] + 1 < SnapshotAttempts
  /\ attempt' = [attempt EXCEPT ![r] = @ + 1]
  /\ phase' = [phase EXCEPT ![r] = "retry"]
  /\ snap' = [snap EXCEPT ![r] = NoSnapshot]
  /\ UNCHANGED <<files, writers, report, view, contended, published, acked>>

\* A bad snapshot at the last attempt: EvidenceIntegrityError.
Refuse(r) ==
  /\ phase[r] = "checkpoint"
  /\ ~SnapshotGood(r)
  /\ attempt[r] + 1 >= SnapshotAttempts
  /\ report' = [report EXCEPT ![r] = "corrupt"]
  /\ phase' = [phase EXCEPT ![r] = "idle"]
  /\ attempt' = [attempt EXCEPT ![r] = 0]
  /\ snap' = [snap EXCEPT ![r] = NoSnapshot]
  /\ contended' = [contended EXCEPT ![r] = FALSE]
  /\ UNCHANGED <<files, writers, view, published, acked>>
-----------------------------------------------------------------------------
\* Power fails: unflushed lines may be lost or cut, a renamed checkpoint may
\* revert, every process is gone and the operating system drops the lock.
PowerLoss ==
  /\ \E n \in synced .. Len(lines) :
       /\ lines' = SubSeq(lines, 1, n)
       /\ synced' = n
       /\ torn' \in IF torn \/ n < Len(lines) THEN BOOLEAN ELSE {FALSE}
  /\ chain' \in durable
  /\ durable' = {chain'}
  /\ lock' = Nobody
  /\ stage' = [w \in Writer |-> "idle"]
  /\ pending' = [w \in Writer |-> NoLine]
  /\ phase' = [r \in Reader |-> "idle"]
  /\ attempt' = [r \in Reader |-> 0]
  /\ snap' = [r \in Reader |-> NoSnapshot]
  /\ contended' = [r \in Reader |-> FALSE]
  /\ UNCHANGED <<report, view, published, acked>>

WriterStep(w) ==
  \/ WritePart(w)
  \/ WriteLine(w)
  \/ Sync(w)
  \/ Replace(w)
  \/ Return(w)

ReaderStep(r) ==
  \/ ReadCheckpoint(r)
  \/ Accept(r)
  \/ Retry(r)
  \/ Refuse(r)

Next ==
  \/ \E w \in Writer : Acquire(w) \/ Release(w) \/ Abandon(w) \/ WriterStep(w)
  \/ \E w \in Writer, e \in Event : Open(w, e)
  \/ \E r \in Reader : ReadEvents(r) \/ ReaderStep(r)
  \/ PowerLoss

\* A call that has started is scheduled until it ends; nothing makes one start.
Fairness ==
  /\ \A w \in Writer : WF_vars(WriterStep(w))
  /\ \A r \in Reader : WF_vars(ReaderStep(r) \/ (phase[r] = "retry" /\ ReadEvents(r)))

Spec == Init /\ [][Next]_vars /\ Fairness
-----------------------------------------------------------------------------
(* Properties.                                                             *)

TypeOK ==
  /\ lines \in Seq(Line)
  /\ torn \in BOOLEAN
  /\ synced \in 0 .. Len(lines)
  /\ chain \in Hash \union {NoCheckpoint}
  /\ durable \subseteq Hash \union {NoCheckpoint}
  /\ lock \in Writer \union {Nobody}
  /\ stage \in [Writer -> Stage]
  /\ pending \in [Writer -> Line \union {NoLine}]
  /\ phase \in [Reader -> {"idle", "events", "checkpoint", "retry"}]
  /\ attempt \in [Reader -> 0 .. SnapshotAttempts - 1]
  /\ snap \in [Reader -> Snapshot]
  /\ report \in [Reader -> {"none", "verified", "corrupt"}]
  /\ view \in [Reader -> Hash]
  /\ published \in Hash
  /\ acked \in Hash
  /\ contended \in [Reader -> BOOLEAN]

\* The checkpoint never names an event that is not in events.jsonl, whatever
\* was killed or lost: the line is flushed before the checkpoint is replaced.
CheckpointNeverAhead ==
  chain # NoCheckpoint => IsPrefix(chain, Events(lines))

\* An event whose append returned is there for good: after every later crash or
\* power failure it is among the lines, and the checkpoint covers it.
AckedSurvives ==
  acked # <<>> => /\ IsPrefix(acked, Events(lines))
                  /\ chain # NoCheckpoint
                  /\ IsPrefix(acked, chain)

\* A snapshot a reader accepted is never contradicted later: it was published,
\* and not even a power failure takes back one of its events.  (Accepting happens
\* before the append has returned, when the directory may not be flushed yet.)
AcceptedSurvives ==
  \A r \in Reader : IsPrefix(view[r], published) /\ IsPrefix(view[r], Events(lines))

\* ADR 0004: a store that an interruption left inconsistent fails closed.  No
\* later append extends it or replaces its checkpoint; only a power failure can
\* change it, by forgetting what was never flushed.
FailsClosed ==
  [][Damaged => /\ IsPrefix(lines', lines)
                /\ chain' \in durable
                /\ published' = published]_vars

\* A reader that no append overlaps never takes an intact chain for a corrupt one.
QuietReadsSucceed ==
  [][\A r \in Reader :
       (Refuse(r) /\ ~contended[r]) => (Damaged \/ published = <<>>)]_vars

\* Every call of verify_event_chain ends, however many appends it races with.
ReadersReturn ==
  \A r \in Reader : (phase[r] # "idle") ~> (phase[r] = "idle")

\* The store implements the abstract log: an event is committed when its
\* checkpoint is put in place.
Log == INSTANCE EvidenceLog WITH log <- published, sealed <- Damaged

\* Files, crashes and races are invisible to a user of the store, who sees a log
\* that grows, is sealed by an interrupted write, and is observed whole.
ImplementsLog == Log!Spec
=============================================================================
