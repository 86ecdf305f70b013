----------------------- MODULE RunCoordinator_proofs -----------------------
(***************************************************************************)
(* Proofs about the run coordinator, for any number of processes and runs  *)
(* and any requested states: types, derivable evidence, an index that is   *)
(* never ahead, and the refinement of the run lifecycle.                   *)
(***************************************************************************)
EXTENDS RunCoordinator, SequenceTheorems, TLAPS

-----------------------------------------------------------------------------
(* Prefixes and cuts of sequences.                                         *)

\* What a cut of a sequence (evidence lost at the end of a file) is, element by element.
LEMMA CutPointwise ==
  ASSUME NEW S, NEW t \in Seq(S), NEW n \in 0 .. Len(t)
  PROVE  /\ SubSeq(t, 1, n) \in Seq(S)
         /\ Len(SubSeq(t, 1, n)) = n
         /\ \A i \in 1 .. n : SubSeq(t, 1, n)[i] = t[i]
<1>1. Len(t) \in Nat /\ \A i \in 1 .. n : t[i] \in S
  BY ElementOfSeq, LenProperties
<1>2. n \in Int /\ 1 \in Int
  BY <1>1
<1>3. QED
  BY <1>1, <1>2, SubSeqProperties

\* Every sequence is a prefix of itself.
LEMMA PrefixReflexive ==
  ASSUME NEW S, NEW t \in Seq(S)
  PROVE  IsPrefix(t, t)
BY SubSeqFull, LenProperties DEF IsPrefix

\* Appending to the longer sequence keeps the shorter one a prefix.
LEMMA PrefixAppend ==
  ASSUME NEW S, NEW s \in Seq(S), NEW t \in Seq(S), NEW e \in S, IsPrefix(s, t)
  PROVE  IsPrefix(s, Append(t, e))
<1> DEFINE n == Len(s)
           a == SubSeq(t, 1, n)
           b == SubSeq(Append(t, e), 1, n)
<1>1. n \in 0 .. Len(t) /\ Len(t) \in Nat /\ s = a
  BY LenProperties DEF IsPrefix
<1>2. /\ Append(t, e) \in Seq(S)
      /\ Len(Append(t, e)) = Len(t) + 1
      /\ \A i \in 1 .. Len(t) : Append(t, e)[i] = t[i]
  BY AppendProperties
<1>3. n \in 0 .. Len(Append(t, e))
  BY <1>1, <1>2
<1>4. a \in Seq(S) /\ Len(a) = n /\ \A i \in 1 .. n : a[i] = t[i]
  BY <1>1, CutPointwise
<1>5. b \in Seq(S) /\ Len(b) = n /\ \A i \in 1 .. n : b[i] = Append(t, e)[i]
  BY <1>2, <1>3, CutPointwise
<1> HIDE DEF a, b
<1>6. a = b
  BY <1>1, <1>2, <1>4, <1>5, SeqEqual
<1>7. QED
  BY <1>1, <1>2, <1>3, <1>6 DEF IsPrefix, b
-----------------------------------------------------------------------------
(* The inductive invariant.                                                *)

USE CoordinatorAssumption

\* Some event sets the state and none after it does.
LastExists(events) ==
  \E i \in DOMAIN events :
    /\ IsMove(events[i])
    /\ \A j \in DOMAIN events : j > i => ~IsMove(events[j])

\* What is known of the evidence of one run.
RunInv(r) ==
  /\ stored[r] # "manifest" => chain[r] = <<>>
  /\ chain[r] # <<>> => /\ Derivable(chain[r])
                        /\ LastExists(chain[r])
                        /\ StateOf(chain[r]) \in RunState

\* What a call knows of its run between its steps: the lock keeps it true.
CallInv(p) ==
  /\ pc[p] \in Held => lock = p /\ job[p] \in Job
  /\ pc[p] \in {"make", "manifest", "first"} => job[p].kind = "create"
  /\ pc[p] \in {"locked", "ready"} => job[p].kind # "create"
  /\ pc[p] = "manifest" => stored[job[p].run] = "directory"
  /\ pc[p] \in {"first", "locked", "ready", "writing", "committed", "indexed"} =>
       stored[job[p].run] = "manifest"
  /\ pc[p] = "first" => chain[job[p].run] = <<>>
  /\ pc[p] = "writing" => ~sealed[job[p].run]
  /\ pc[p] \in {"ready", "writing"} =>
       IF job[p].kind = "create"
       THEN chain[job[p].run] = <<>>
       ELSE /\ chain[job[p].run] # <<>>
            /\ seen[p] = StateOf(chain[job[p].run])
            /\ job[p].kind = "move" => CanTransition(seen[p], job[p].target)
  /\ pc[p] \in {"committed", "indexed"} =>
       /\ chain[job[p].run] # <<>>
       /\ StateOf(chain[job[p].run]) = StateAfter(p)
  /\ pc[p] = "indexed" =>
       row[job[p].run] = Record(StateOf(chain[job[p].run]), chain[job[p].run])

\* Every row that SQLite may come back with describes a part of the evidence.
IndexInv(r) ==
  /\ row[r] \in saved[r]
  /\ \A x \in saved[r] :
       x # NoRow => IsPrefix(x.upto, chain[r]) /\ x.state = StateOf(x.upto)

EvidenceInv == \A r \in Run : RunInv(r)
CallsInv == \A p \in Process : CallInv(p)
IndexesInv == \A r \in Run : IndexInv(r)

IInv == TypeOK /\ EvidenceInv /\ CallsInv /\ IndexesInv
-----------------------------------------------------------------------------
(* Lemmas about events and the state they derive.                          *)

\* Transitions lead from states to states.
LEMMA TransitionStates ==
  ASSUME NEW a, NEW b, CanTransition(a, b)
  PROVE  a \in RunState /\ b \in RunState
BY DEF CanTransition, ValidTransitions, Progress, Interruptible, RunState

\* The events that calls append are well typed.
LEMMA EventTypes ==
  /\ Created \in EventRecord
  /\ Note \in EventRecord
  /\ \A a \in RunState, b \in RunState : Changed(a, b) \in EventRecord
BY DEF Created, Note, Changed, EventRecord, RunState, NoState

\* An event that sets the state and is followed by none that does is the last move.
LEMMA LastMoveUnique ==
  ASSUME NEW c \in Seq(EventRecord), NEW i \in DOMAIN c, IsMove(c[i]),
         \A j \in DOMAIN c : j > i => ~IsMove(c[j])
  PROVE  StateOf(c) = c[i].to
<1>1. DOMAIN c = 1 .. Len(c) /\ Len(c) \in Nat
  BY LenProperties
<1>2. \A k \in DOMAIN c :
        (IsMove(c[k]) /\ \A j \in DOMAIN c : j > k => ~IsMove(c[j])) => k = i
  BY <1>1
<1>3. LastMove(c) = i
  BY <1>2 DEF LastMove
<1>4. QED
  BY <1>3 DEF StateOf

\* An event that sets the state determines it.
LEMMA AppendMove ==
  ASSUME NEW c \in Seq(EventRecord), NEW e \in EventRecord, IsMove(e)
  PROVE  LastExists(Append(c, e)) /\ StateOf(Append(c, e)) = e.to
<1> DEFINE d == Append(c, e)
           n == Len(c) + 1
<1>1. /\ d \in Seq(EventRecord) /\ Len(d) = n /\ d[n] = e /\ n \in Nat /\ n >= 1
  BY AppendProperties, LenProperties
<1>2. DOMAIN d = 1 .. n
  BY <1>1, LenProperties
<1>3. n \in DOMAIN d /\ \A j \in DOMAIN d : ~(j > n)
  BY <1>1, <1>2
<1> HIDE DEF d, n
<1>4. StateOf(d) = e.to
  BY <1>1, <1>3, LastMoveUnique
<1>5. LastExists(d)
  BY <1>1, <1>3 DEF LastExists
<1>6. QED
  BY <1>4, <1>5 DEF d

\* Any other event leaves it as it is.
LEMMA AppendNote ==
  ASSUME NEW c \in Seq(EventRecord), NEW e \in EventRecord, ~IsMove(e), LastExists(c)
  PROVE  LastExists(Append(c, e)) /\ StateOf(Append(c, e)) = StateOf(c)
<1> DEFINE d == Append(c, e)
           n == Len(c) + 1
<1>1. PICK i \in DOMAIN c : IsMove(c[i]) /\ \A j \in DOMAIN c : j > i => ~IsMove(c[j])
  BY DEF LastExists
<1>2. /\ d \in Seq(EventRecord) /\ Len(d) = n /\ d[n] = e
      /\ \A j \in 1 .. Len(c) : d[j] = c[j]
      /\ Len(c) \in Nat /\ DOMAIN c = 1 .. Len(c)
  BY AppendProperties, LenProperties
<1>3. DOMAIN d = 1 .. n
  BY <1>2, LenProperties
<1>4. \A j \in DOMAIN d : j \in DOMAIN c \/ j = n
  BY <1>2, <1>3
<1> HIDE DEF d
<1>5. i \in DOMAIN d /\ d[i] = c[i] /\ IsMove(d[i])
  BY <1>1, <1>2, <1>3
<1>6. \A j \in DOMAIN d : j > i => ~IsMove(d[j])
  BY <1>1, <1>2, <1>4
<1>7. StateOf(d) = c[i].to
  BY <1>2, <1>5, <1>6, LastMoveUnique
<1>8. StateOf(c) = c[i].to
  BY <1>1, LastMoveUnique
<1>9. LastExists(d)
  BY <1>5, <1>6 DEF LastExists
<1>10. QED
  BY <1>7, <1>8, <1>9 DEF d

\* A chain stays derivable when the next event fits the state it derives.
LEMMA AppendDerivable ==
  ASSUME NEW c \in Seq(EventRecord), Derivable(c),
         NEW e \in EventRecord, e.kind # "created",
         e.kind = "changed" => e.from = StateOf(c) /\ CanTransition(e.from, e.to)
  PROVE  Derivable(Append(c, e))
<1> DEFINE d == Append(c, e)
           n == Len(c) + 1
<1>1. /\ d \in Seq(EventRecord) /\ Len(d) = n /\ d[n] = e
      /\ \A j \in 1 .. Len(c) : d[j] = c[j]
      /\ Len(c) \in Nat
  BY AppendProperties, LenProperties
<1>2. Len(c) >= 1
  BY <1>1, EmptySeq DEF Derivable
<1>3. d # <<>> /\ d[1] = Created
  BY <1>1, <1>2, EmptySeq DEF Derivable
<1>4. \A i \in 2 .. n : SubSeq(d, 1, i - 1) = SubSeq(c, 1, i - 1)
  <2>1. SUFFICES ASSUME NEW i \in 2 .. n
                 PROVE  SubSeq(d, 1, i - 1) = SubSeq(c, 1, i - 1)
    OBVIOUS
  <2> DEFINE a == SubSeq(d, 1, i - 1)
             b == SubSeq(c, 1, i - 1)
  <2>2. i - 1 \in 0 .. Len(c) /\ i - 1 \in 0 .. Len(d)
    BY <1>1
  <2>3. a \in Seq(EventRecord) /\ Len(a) = i - 1 /\ \A j \in 1 .. i - 1 : a[j] = d[j]
    BY <1>1, <2>2, CutPointwise
  <2>4. b \in Seq(EventRecord) /\ Len(b) = i - 1 /\ \A j \in 1 .. i - 1 : b[j] = c[j]
    BY <2>2, CutPointwise
  <2>5. \A j \in 1 .. i - 1 : d[j] = c[j]
    BY <1>1, <2>2
  <2> HIDE DEF a, b
  <2>6. a = b
    BY <2>3, <2>4, <2>5, SeqEqual
  <2>7. QED
    BY <2>6 DEF a, b
<1>5. SubSeq(c, 1, Len(c)) = c
  BY SubSeqFull
<1> HIDE DEF d
<1>6. ASSUME NEW i \in 2 .. n
      PROVE  /\ d[i].kind # "created"
             /\ d[i].kind = "changed" =>
                  /\ d[i].from = StateOf(SubSeq(d, 1, i - 1))
                  /\ CanTransition(d[i].from, d[i].to)
  <2>1. CASE i = n
    <3>1. d[i] = e /\ i - 1 = Len(c)
      BY <1>1, <2>1
    <3>2. SubSeq(d, 1, i - 1) = c
      BY <1>4, <1>5, <3>1
    <3>3. QED
      BY <3>1, <3>2
  <2>2. CASE i # n
    <3>1. i \in 2 .. Len(c) /\ d[i] = c[i]
      BY <1>1, <2>2
    <3>2. QED
      BY <1>4, <3>1 DEF Derivable
  <2>3. QED
    BY <2>1, <2>2
<1>7. Derivable(d)
  BY <1>1, <1>3, <1>6 DEF Derivable
<1>8. QED
  BY <1>7 DEF d

\* The first event of a run makes a derivable chain in CREATED.
LEMMA FirstDerivable ==
  /\ Derivable(Append(<<>>, Created))
  /\ LastExists(Append(<<>>, Created))
  /\ StateOf(Append(<<>>, Created)) = "CREATED"
<1>1. <<>> \in Seq(EventRecord) /\ Len(<<>>) = 0 /\ Created \in EventRecord
  BY EmptySeq, EventTypes
<1> DEFINE d == Append(<<>>, Created)
<1>2. d \in Seq(EventRecord) /\ Len(d) = 1 /\ d[1] = Created
  BY <1>1, AppendProperties
<1>3. d # <<>>
  BY <1>2, EmptySeq
<1>4. IsMove(Created) /\ Created.to = "CREATED"
  BY DEF IsMove, Created
<1>5. LastExists(d) /\ StateOf(d) = "CREATED"
  BY <1>1, <1>4, AppendMove
<1>6. Derivable(d)
  BY <1>2, <1>3 DEF Derivable
<1>7. QED
  BY <1>5, <1>6
-----------------------------------------------------------------------------
(* The inductive invariant.                                                *)

\* A process outside a mutating call has no obligations.
LEMMA OutsideCall ==
  ASSUME NEW p \in Process, pc[p] \notin Held
  PROVE  CallInv(p)
BY DEF CallInv, Held

LEMMA OutsideCallNext ==
  ASSUME NEW p \in Process, pc'[p] \notin Held
  PROVE  CallInv(p)'
BY DEF CallInv, Held

\* Only the holder of the repository lock is inside a mutating call.
LEMMA Exclusive ==
  ASSUME CallsInv, NEW p \in Process, pc[p] \in Held,
         NEW q \in Process, q # p
  PROVE  pc[q] \notin Held
BY DEF CallsInv, CallInv

\* A step of one call leaves what the other processes know as it is.
LEMMA OthersKeep ==
  ASSUME TypeOK, CallsInv, NEW p \in Process, pc[p] \in Held,
         NEW step, GoTo(p, step), CallInv(p)'
  PROVE  CallsInv'
<1>1. ASSUME NEW q \in Process, q # p
      PROVE  CallInv(q)'
  <2>1. pc'[q] = pc[q]
    BY <1>1 DEF GoTo, TypeOK
  <2>2. pc[q] \notin Held
    BY <1>1, Exclusive
  <2>3. QED
    BY <2>1, <2>2, OutsideCallNext
<1>2. QED
  BY <1>1 DEF CallsInv

\* A step that touches neither the evidence nor the index keeps what is known of both.
LEMMA StoresKeep ==
  ASSUME EvidenceInv, IndexesInv, UNCHANGED <<stored, chain, row, saved>>
  PROVE  EvidenceInv' /\ IndexesInv'
BY DEF EvidenceInv, IndexesInv, RunInv, IndexInv

\* The log of the run of a call, and the job, have their types.
LEMMA CallTypes ==
  ASSUME TypeOK, CallsInv, NEW p \in Process, pc[p] \in Held
  PROVE  /\ job[p] \in Job
         /\ job[p].run \in Run
         /\ chain[job[p].run] \in Seq(EventRecord)
         /\ job[p].kind \in {"create", "move", "note"}
         /\ job[p].kind = "move" => job[p].target \in RunState
         /\ lock = p
<1>1. job[p] \in Job /\ lock = p
  BY DEF CallsInv, CallInv
<1>2. job[p].run \in Run /\ job[p].kind \in {"create", "move", "note"}
  BY <1>1 DEF Job
<1>3. job[p].kind = "move" => job[p].target \in RunState
  BY <1>1, CoordinatorAssumption DEF Job
<1>4. QED
  BY <1>1, <1>2, <1>3 DEF TypeOK

\* The event that a call commits fits the evidence of its run.
LEMMA CommitFits ==
  ASSUME IInv, NEW p \in Process, pc[p] = "writing"
  PROVE  LET d == Append(chain[job[p].run], EventOf(p))
         IN  /\ EventOf(p) \in EventRecord
             /\ d \in Seq(EventRecord)
             /\ d # <<>>
             /\ Derivable(d)
             /\ LastExists(d)
             /\ StateOf(d) = StateAfter(p)
             /\ StateOf(d) \in RunState
<1> DEFINE r == job[p].run
           c == chain[r]
           e == EventOf(p)
<1>1. /\ r \in Run /\ c \in Seq(EventRecord)
      /\ job[p].kind \in {"create", "move", "note"}
      /\ job[p].kind = "move" => job[p].target \in RunState
  BY CallTypes DEF IInv, Held
<1>2. RunInv(r) /\ CallInv(p)
  BY <1>1 DEF IInv, EvidenceInv, CallsInv
<1>3. CASE job[p].kind = "create"
  <2>1. c = <<>>
    BY <1>2, <1>3 DEF CallInv
  <2>2. e = Created /\ StateAfter(p) = "CREATED"
    BY <1>3 DEF EventOf, StateAfter
  <2>3. Created \in EventRecord /\ "CREATED" \in RunState
    BY EventTypes DEF RunState
  <2>4. Append(c, e) \in Seq(EventRecord)
    BY <1>1, <2>2, <2>3, AppendProperties
  <2>5. QED
    BY <2>1, <2>2, <2>3, <2>4, FirstDerivable DEF Derivable
<1>4. CASE job[p].kind # "create"
  <2>1. c # <<>> /\ seen[p] = StateOf(c)
    BY <1>2, <1>4 DEF CallInv
  <2>2. Derivable(c) /\ LastExists(c) /\ StateOf(c) \in RunState
    BY <1>2, <2>1 DEF RunInv
  <2>3. CASE job[p].kind = "move"
    <3>1. e = Changed(seen[p], job[p].target) /\ StateAfter(p) = job[p].target
      BY <2>3 DEF EventOf, StateAfter
    <3>2. CanTransition(seen[p], job[p].target)
      BY <1>2, <2>3 DEF CallInv
    <3>3. e \in EventRecord
      BY <1>1, <2>1, <2>2, <2>3, <3>1, EventTypes
    <3>4. /\ e.kind = "changed" /\ e.from = StateOf(c) /\ e.to = job[p].target
          /\ IsMove(e)
      BY <2>1, <3>1 DEF Changed, IsMove
    <3> HIDE DEF r, c, e
    <3>5. Derivable(Append(c, e))
      BY <1>1, <2>1, <2>2, <3>2, <3>3, <3>4, AppendDerivable
    <3>6. LastExists(Append(c, e)) /\ StateOf(Append(c, e)) = job[p].target
      BY <1>1, <3>3, <3>4, AppendMove
    <3>7. Append(c, e) \in Seq(EventRecord)
      BY <1>1, <3>3, AppendProperties
    <3>8. QED
      BY <1>1, <2>3, <3>1, <3>3, <3>5, <3>6, <3>7 DEF c, e, r, Derivable
  <2>4. CASE job[p].kind = "note"
    <3>1. e = Note /\ StateAfter(p) = seen[p]
      BY <2>4 DEF EventOf, StateAfter
    <3>2. e \in EventRecord /\ e.kind = "note" /\ ~IsMove(e)
      BY <3>1, EventTypes DEF Note, IsMove
    <3> HIDE DEF r, c, e
    <3>3. Derivable(Append(c, e))
      BY <1>1, <2>2, <3>2, AppendDerivable
    <3>4. LastExists(Append(c, e)) /\ StateOf(Append(c, e)) = StateOf(c)
      BY <1>1, <2>2, <3>2, AppendNote
    <3>5. Append(c, e) \in Seq(EventRecord)
      BY <1>1, <3>2, AppendProperties
    <3>6. QED
      BY <2>1, <2>2, <3>1, <3>2, <3>3, <3>4, <3>5 DEF c, e, r, Derivable
  <2>5. QED
    BY <1>1, <1>4, <2>3, <2>4
<1>5. QED
  BY <1>3, <1>4

\* It holds at the start.
LEMMA InitIInv == Init => IInv
<1>1. SUFFICES ASSUME Init PROVE IInv
  OBVIOUS
<1>2. <<>> \in Seq(EventRecord)
  BY EmptySeq
<1>3. TypeOK
  BY <1>1, <1>2 DEF Init, TypeOK, Held, NoState
<1>4. EvidenceInv
  BY <1>1 DEF Init, EvidenceInv, RunInv
<1>5. CallsInv
  BY <1>1, OutsideCall DEF Init, CallsInv, Held
<1>6. IndexesInv
  BY <1>1 DEF Init, IndexesInv, IndexInv
<1>7. QED
  BY <1>3, <1>4, <1>5, <1>6 DEF IInv
-----------------------------------------------------------------------------
(* Each action keeps the invariant.                                        *)

LEMMA BeginKeeps ==
  ASSUME IInv, NEW p \in Process, NEW j \in Job, Begin(p, j)
  PROVE  IInv'
<1>1. TypeOK /\ EvidenceInv /\ CallsInv /\ IndexesInv
  BY DEF IInv
<1>2. j.run \in Run /\ j.kind \in {"create", "move", "note"}
  BY DEF Job
<1>3. TypeOK'
  BY <1>1 DEF Begin, TypeOK, Held, GoTo, stores
<1>4. EvidenceInv' /\ IndexesInv'
  BY <1>1, StoresKeep DEF Begin, stores
<1>5. CallInv(p)'
  BY <1>1, <1>2 DEF Begin, TypeOK, GoTo, stores, CallInv, Held
<1>6. ASSUME NEW q \in Process, q # p
      PROVE  CallInv(q)'
  <2>1. pc[q] \notin Held
    BY <1>1, CoordinatorAssumption DEF Begin, CallsInv, CallInv
  <2>2. pc'[q] \notin Held
    BY <1>1, <1>6, <2>1 DEF Begin, GoTo, TypeOK
  <2>3. QED
    BY <2>2, OutsideCallNext
<1>7. QED
  BY <1>3, <1>4, <1>5, <1>6 DEF IInv, CallsInv

LEMMA MakeDirectoryKeeps ==
  ASSUME IInv, NEW p \in Process, MakeDirectory(p)
  PROVE  IInv'
<1>1. TypeOK /\ EvidenceInv /\ CallsInv /\ IndexesInv
  BY DEF IInv
<1>2. pc[p] \in Held
  BY DEF MakeDirectory, Held
<1>3. job[p] \in Job /\ job[p].run \in Run /\ lock = p
  BY <1>1, <1>2, CallTypes
<1>4. TypeOK'
  BY <1>1, <1>3 DEF MakeDirectory, TypeOK, Held, GoTo
<1>5. CallInv(p) /\ job[p].kind = "create"
  BY <1>1 DEF CallsInv, CallInv, MakeDirectory
<1>6. CallInv(p)'
  BY <1>1, <1>3, <1>5 DEF MakeDirectory, TypeOK, GoTo, CallInv, Held
<1>7. CallsInv'
  BY <1>1, <1>2, <1>6, OthersKeep DEF MakeDirectory
<1>8. EvidenceInv'
  BY <1>1, <1>3 DEF MakeDirectory, TypeOK, EvidenceInv, RunInv
<1>9. IndexesInv'
  BY <1>1 DEF MakeDirectory, IndexesInv, IndexInv
<1>10. QED
  BY <1>4, <1>7, <1>8, <1>9 DEF IInv

LEMMA WriteManifestKeeps ==
  ASSUME IInv, NEW p \in Process, WriteManifest(p)
  PROVE  IInv'
<1>1. TypeOK /\ EvidenceInv /\ CallsInv /\ IndexesInv
  BY DEF IInv
<1>2. pc[p] \in Held
  BY DEF WriteManifest, Held
<1>3. job[p] \in Job /\ job[p].run \in Run /\ lock = p
  BY <1>1, <1>2, CallTypes
<1>4. TypeOK'
  BY <1>1, <1>3 DEF WriteManifest, TypeOK, Held, GoTo
<1>5. stored[job[p].run] = "directory" /\ job[p].kind = "create"
  BY <1>1 DEF CallsInv, CallInv, WriteManifest
<1>6. chain[job[p].run] = <<>>
  BY <1>1, <1>3, <1>5 DEF EvidenceInv, RunInv
<1>7. CallInv(p)'
  BY <1>1, <1>3, <1>5, <1>6 DEF WriteManifest, TypeOK, GoTo, CallInv, Held
<1>8. CallsInv'
  BY <1>1, <1>2, <1>7, OthersKeep DEF WriteManifest
<1>9. EvidenceInv'
  BY <1>1, <1>3 DEF WriteManifest, TypeOK, EvidenceInv, RunInv
<1>10. IndexesInv'
  BY <1>1 DEF WriteManifest, IndexesInv, IndexInv
<1>11. QED
  BY <1>4, <1>8, <1>9, <1>10 DEF IInv

LEMMA ValidateKeeps ==
  ASSUME IInv, NEW p \in Process, Validate(p)
  PROVE  IInv'
<1> DEFINE r == job[p].run
<1>1. TypeOK /\ EvidenceInv /\ CallsInv /\ IndexesInv
  BY DEF IInv
<1>2. pc[p] \in Held
  BY DEF Validate, Held
<1>3. job[p] \in Job /\ r \in Run /\ lock = p
  BY <1>1, <1>2, CallTypes
<1>4. chain[r] # <<>>
  BY DEF Validate, Readable, Derivable
<1>5. StateOf(chain[r]) \in RunState
  BY <1>1, <1>3, <1>4 DEF EvidenceInv, RunInv
<1>6. TypeOK'
  BY <1>1, <1>3, <1>5 DEF Validate, TypeOK, Held, GoTo, stores
<1>7. stored[r] = "manifest" /\ job[p].kind # "create"
  BY <1>1 DEF CallsInv, CallInv, Validate
<1>8. CallInv(p)'
  <2>1. /\ pc'[p] = "ready" /\ seen'[p] = StateOf(chain[r])
        /\ UNCHANGED <<stored, chain, row, job, lock>>
    BY <1>1 DEF Validate, GoTo, TypeOK, stores
  <2>2. job[p].kind = "move" => CanTransition(seen'[p], job[p].target)
    BY <2>1 DEF Validate
  <2>3. QED
    BY <1>3, <1>4, <1>7, <2>1, <2>2 DEF CallInv
<1>9. CallsInv'
  BY <1>1, <1>2, <1>8, OthersKeep DEF Validate
<1>10. EvidenceInv' /\ IndexesInv'
  BY <1>1, StoresKeep DEF Validate, stores
<1>11. QED
  BY <1>6, <1>9, <1>10 DEF IInv

LEMMA StartAppendKeeps ==
  ASSUME IInv, NEW p \in Process, StartAppend(p)
  PROVE  IInv'
<1>1. TypeOK /\ EvidenceInv /\ CallsInv /\ IndexesInv
  BY DEF IInv
<1>2. pc[p] \in {"first", "ready"} /\ pc[p] \in Held
  BY DEF StartAppend, Held
<1>3. TypeOK'
  BY <1>1 DEF StartAppend, TypeOK, Held, GoTo, stores
<1>4. CallInv(p)
  BY <1>1 DEF CallsInv
<1>5. /\ pc'[p] = "writing" /\ ~sealed[job[p].run]
      /\ UNCHANGED <<stored, chain, sealed, row, job, lock, seen>>
  BY <1>1 DEF StartAppend, GoTo, TypeOK, stores
<1>6. CallInv(p)'
  BY <1>2, <1>4, <1>5 DEF CallInv, Held
<1>7. CallsInv'
  BY <1>1, <1>2, <1>6, OthersKeep DEF StartAppend
<1>8. EvidenceInv' /\ IndexesInv'
  BY <1>1, StoresKeep DEF StartAppend, stores
<1>9. QED
  BY <1>3, <1>7, <1>8 DEF IInv

LEMMA CommitKeeps ==
  ASSUME IInv, NEW p \in Process, Commit(p)
  PROVE  IInv'
<1> DEFINE r == job[p].run
           d == Append(chain[r], EventOf(p))
<1>1. TypeOK /\ EvidenceInv /\ CallsInv /\ IndexesInv
  BY DEF IInv
<1>2. pc[p] = "writing" /\ pc[p] \in Held
  BY DEF Commit, Held
<1>3. job[p] \in Job /\ r \in Run /\ lock = p /\ chain[r] \in Seq(EventRecord)
  BY <1>1, <1>2, CallTypes
<1>4. /\ EventOf(p) \in EventRecord /\ d \in Seq(EventRecord) /\ d # <<>>
      /\ Derivable(d) /\ LastExists(d)
      /\ StateOf(d) = StateAfter(p) /\ StateOf(d) \in RunState
  BY <1>2, CommitFits
<1>5. /\ chain' = [chain EXCEPT ![r] = d]
      /\ UNCHANGED <<stored, sealed, row, saved, lock, job, seen, todo>>
  BY DEF Commit
<1>6. pc'[p] = "committed"
  BY <1>1 DEF Commit, GoTo, TypeOK
<1>7. chain'[r] = d /\ \A s \in Run : s # r => chain'[s] = chain[s]
  BY <1>1, <1>3, <1>5 DEF TypeOK
<1>8. stored[r] = "manifest"
  BY <1>1, <1>2 DEF CallsInv, CallInv
<1> HIDE DEF d
<1>9. TypeOK'
  BY <1>1, <1>3, <1>4, <1>5 DEF Commit, TypeOK, Held, GoTo
<1>10. CallInv(p)'
  <2>1. StateAfter(p)' = StateAfter(p)
    BY <1>5 DEF StateAfter
  <2>2. QED
    BY <1>3, <1>4, <1>5, <1>6, <1>7, <1>8, <2>1 DEF CallInv
<1>11. CallsInv'
  BY <1>1, <1>2, <1>10, OthersKeep DEF Commit
<1>12. EvidenceInv'
  BY <1>1, <1>3, <1>4, <1>5, <1>7, <1>8 DEF EvidenceInv, RunInv
<1>13. ASSUME NEW s \in Run
       PROVE  IndexInv(s)'
  <2>1. IndexInv(s)
    BY <1>1 DEF IndexesInv
  <2>2. CASE s # r
    BY <1>5, <1>7, <2>1, <2>2 DEF IndexInv
  <2>3. CASE s = r
    <3>1. ASSUME NEW x \in saved[r], x # NoRow
          PROVE  IsPrefix(x.upto, d)
      <4>1. x.upto \in Seq(EventRecord)
        BY <1>1, <1>3, <3>1 DEF TypeOK, Row
      <4>2. IsPrefix(x.upto, chain[r])
        BY <2>1, <2>3, <3>1 DEF IndexInv
      <4>3. QED
        BY <1>3, <1>4, <4>1, <4>2, PrefixAppend DEF d
    <3>2. QED
      BY <1>5, <1>7, <2>1, <2>3, <3>1 DEF IndexInv
  <2>4. QED
    BY <2>2, <2>3
<1>14. QED
  BY <1>9, <1>11, <1>12, <1>13 DEF IInv, IndexesInv

LEMMA IndexKeeps ==
  ASSUME IInv, NEW p \in Process, Index(p)
  PROVE  IInv'
<1> DEFINE r == job[p].run
           x == Record(StateAfter(p), chain[r])
<1>1. TypeOK /\ EvidenceInv /\ CallsInv /\ IndexesInv
  BY DEF IInv
<1>2. pc[p] = "committed" /\ pc[p] \in Held
  BY DEF Index, Held
<1>3. job[p] \in Job /\ r \in Run /\ lock = p /\ chain[r] \in Seq(EventRecord)
  BY <1>1, <1>2, CallTypes
<1>4. CallInv(p)
  BY <1>1 DEF CallsInv
<1>5. chain[r] # <<>> /\ StateOf(chain[r]) = StateAfter(p) /\ stored[r] = "manifest"
  BY <1>2, <1>4 DEF CallInv
<1>6. StateAfter(p) \in RunState
  BY <1>1, <1>3, <1>5 DEF EvidenceInv, RunInv
<1>7. x \in Row
  BY <1>3, <1>6 DEF Record, Row
<1>8. /\ row' = [row EXCEPT ![r] = x]
      /\ saved' = [saved EXCEPT ![r] = @ \union {row'[r]}]
      /\ UNCHANGED <<stored, chain, sealed, lock, job, seen, todo>>
  BY DEF Index
<1>9. /\ row'[r] = x /\ saved'[r] = saved[r] \union {x}
      /\ \A s \in Run : s # r => row'[s] = row[s] /\ saved'[s] = saved[s]
  BY <1>1, <1>3, <1>8 DEF TypeOK
<1>10. pc'[p] = "indexed"
  BY <1>1 DEF Index, GoTo, TypeOK
<1>11. x.upto = chain[r] /\ x.state = StateOf(chain[r])
  BY <1>5 DEF Record
<1>12. x = Record(StateOf(chain[r]), chain[r])
  BY <1>5
<1> HIDE DEF x
<1>13. TypeOK'
  BY <1>1, <1>3, <1>7, <1>8, <1>9 DEF Index, TypeOK, Held, GoTo
<1>14. CallInv(p)'
  <2>1. StateAfter(p)' = StateAfter(p)
    BY <1>8 DEF StateAfter
  <2>2. QED
    BY <1>3, <1>5, <1>8, <1>9, <1>10, <1>12, <2>1 DEF CallInv
<1>15. CallsInv'
  BY <1>1, <1>2, <1>14, OthersKeep DEF Index
<1>16. EvidenceInv'
  BY <1>1, <1>8 DEF EvidenceInv, RunInv
<1>17. IsPrefix(chain[r], chain[r])
  BY <1>3, PrefixReflexive
<1>18. ASSUME NEW s \in Run
       PROVE  IndexInv(s)'
  <2>1. IndexInv(s) /\ chain' = chain
    BY <1>1, <1>8 DEF IndexesInv
  <2>2. CASE s # r
    BY <1>9, <2>1, <2>2 DEF IndexInv
  <2>3. CASE s = r
    BY <1>9, <1>11, <1>17, <2>1, <2>3 DEF IndexInv
  <2>4. QED
    BY <2>2, <2>3
<1>19. QED
  BY <1>13, <1>15, <1>16, <1>18 DEF IInv, IndexesInv

LEMMA FinishKeeps ==
  ASSUME IInv, NEW p \in Process, Finish(p)
  PROVE  IInv'
<1>1. TypeOK /\ EvidenceInv /\ CallsInv /\ IndexesInv
  BY DEF IInv
<1>2. pc[p] \in Held
  BY DEF Finish, Held
<1>3. TypeOK'
  BY <1>1 DEF Finish, TypeOK, Held, GoTo, NoState, stores
<1>4. pc'[p] \notin Held
  BY <1>1 DEF Finish, GoTo, TypeOK, Held
<1>5. CallsInv'
  BY <1>1, <1>2, <1>4, OutsideCallNext, OthersKeep DEF Finish
<1>6. EvidenceInv' /\ IndexesInv'
  BY <1>1, StoresKeep DEF Finish, stores
<1>7. QED
  BY <1>3, <1>5, <1>6 DEF IInv

LEMMA FailKeeps ==
  ASSUME IInv, NEW p \in Process, Fail(p)
  PROVE  IInv'
<1>1. TypeOK /\ EvidenceInv /\ CallsInv /\ IndexesInv
  BY DEF IInv
<1>2. pc[p] \in Held
  BY DEF Fail
<1>3. sealed' \in [Run -> BOOLEAN]
  BY <1>1 DEF Fail, TypeOK
<1>4. TypeOK'
  BY <1>1, <1>3 DEF Fail, TypeOK, GoTo, NoState
<1>5. pc'[p] \notin Held
  BY <1>1 DEF Fail, GoTo, TypeOK, Held
<1>6. CallsInv'
  BY <1>1, <1>2, <1>5, OutsideCallNext, OthersKeep DEF Fail
<1>7. EvidenceInv' /\ IndexesInv'
  BY <1>1, StoresKeep DEF Fail
<1>8. QED
  BY <1>4, <1>6, <1>7 DEF IInv

\* A listing moves between "idle" and "listing" and reads only.
LEMMA ListKeeps ==
  ASSUME IInv, NEW p \in Process, BeginList(p) \/ ListStep(p)
  PROVE  IInv'
<1>1. TypeOK /\ EvidenceInv /\ CallsInv /\ IndexesInv
  BY DEF IInv
<1> DEFINE ReadsOnly ==
             /\ pc[p] \notin Held
             /\ \E step \in {"idle", "listing"} : pc' = [pc EXCEPT ![p] = step]
             /\ UNCHANGED <<stores, lock, job, seen>>
             /\ todo' \in [Process -> SUBSET Run]
<1>2. ReadsOnly
  <2>1. CASE BeginList(p)
    <3>1. {r \in Run : stored[r] # "absent"} \in SUBSET Run
      OBVIOUS
    <3>2. QED
      BY <1>1, <2>1, <3>1 DEF BeginList, GoTo, Held, TypeOK
  <2>2. ASSUME NEW r \in Run, ListOne(p, r)
        PROVE  ReadsOnly
    <3>1. pc' = [pc EXCEPT ![p] = "listing"]
      BY <1>1, <2>2 DEF ListOne, TypeOK
    <3>2. QED
      BY <1>1, <2>2, <3>1 DEF ListOne, Held, TypeOK
  <2>3. CASE ListDone(p)
    BY <1>1, <2>3 DEF ListDone, GoTo, Held, TypeOK
  <2>4. CASE ListFail(p)
    BY <1>1, <2>4 DEF ListFail, GoTo, Held, TypeOK
  <2>5. QED
    BY <2>1, <2>2, <2>3, <2>4 DEF ListStep
<1>3. TypeOK'
  BY <1>1, <1>2 DEF TypeOK, stores
<1>4. ASSUME NEW q \in Process
      PROVE  CallInv(q)'
  <2>1. CASE q = p
    <3>1. pc'[p] \notin Held
      BY <1>1, <1>2 DEF TypeOK, Held
    <3>2. QED
      BY <2>1, <3>1, OutsideCallNext
  <2>2. CASE q # p
    <3>1. pc'[q] = pc[q]
      BY <1>1, <1>2, <2>2 DEF TypeOK
    <3>2. CallInv(q) /\ UNCHANGED <<stored, chain, sealed, row, lock, job, seen>>
      BY <1>1, <1>2 DEF CallsInv, stores
    <3>3. StateAfter(q)' = StateAfter(q)
      BY <3>2 DEF StateAfter
    <3>4. QED
      BY <3>1, <3>2, <3>3 DEF CallInv
  <2>3. QED
    BY <2>1, <2>2
<1>5. EvidenceInv' /\ IndexesInv'
  BY <1>1, <1>2, StoresKeep DEF stores
<1>6. QED
  BY <1>3, <1>4, <1>5 DEF IInv, CallsInv

LEMMA PowerLossKeeps ==
  ASSUME IInv, PowerLoss
  PROVE  IInv'
<1>1. TypeOK /\ EvidenceInv /\ CallsInv /\ IndexesInv
  BY DEF IInv
<1>2. \A r \in Run : row'[r] \in Row \union {NoRow}
  BY <1>1 DEF PowerLoss, TypeOK
<1>3. row' \in [Run -> Row \union {NoRow}]
  BY <1>2 DEF PowerLoss
<1>4. saved' \in [Run -> SUBSET (Row \union {NoRow})]
  BY <1>2 DEF PowerLoss
<1>5. TypeOK'
  BY <1>1, <1>3, <1>4 DEF PowerLoss, TypeOK, NoState
<1>6. EvidenceInv'
  BY <1>1 DEF PowerLoss, EvidenceInv, RunInv, TypeOK
<1>7. CallsInv'
  BY OutsideCallNext DEF PowerLoss, CallsInv, Held
<1>8. IndexesInv'
  <2>1. SUFFICES ASSUME NEW r \in Run PROVE IndexInv(r)'
    BY DEF IndexesInv
  <2>2. IndexInv(r) /\ row'[r] \in saved[r] /\ saved'[r] = {row'[r]} /\ chain' = chain
    BY <1>1 DEF IndexesInv, PowerLoss
  <2>3. QED
    BY <2>2 DEF IndexInv
<1>9. QED
  BY <1>5, <1>6, <1>7, <1>8 DEF IInv

LEMMA StutterKeeps ==
  ASSUME IInv, UNCHANGED vars
  PROVE  IInv'
<1>1. TypeOK'
  BY DEF IInv, TypeOK, vars, stores, processes
<1>2. EvidenceInv' /\ IndexesInv'
  BY StoresKeep DEF IInv, vars, stores
<1>3. CallsInv'
  <2>1. UNCHANGED <<stored, chain, sealed, row, lock, pc, job, seen>>
    BY DEF vars, stores, processes
  <2>2. \A p \in Process : StateAfter(p)' = StateAfter(p)
    BY <2>1 DEF StateAfter
  <2>3. QED
    BY <2>1, <2>2 DEF IInv, CallsInv, CallInv
<1>4. QED
  BY <1>1, <1>2, <1>3 DEF IInv

\* Every step keeps the invariant.
LEMMA NextKeeps == IInv /\ [Next]_vars => IInv'
<1>1. SUFFICES ASSUME IInv, [Next]_vars PROVE IInv'
  OBVIOUS
<1>2. ASSUME NEW p \in Process, CallStep(p)
      PROVE  IInv'
  BY <1>1, <1>2, MakeDirectoryKeeps, WriteManifestKeeps, ValidateKeeps,
     StartAppendKeeps, CommitKeeps, IndexKeeps, FinishKeeps DEF CallStep
<1>3. QED
  BY <1>1, <1>2, BeginKeeps, FailKeeps, ListKeeps, PowerLossKeeps, StutterKeeps DEF Next
-----------------------------------------------------------------------------
(* The theorems.                                                           *)

\* The inductive invariant holds in every reachable state.
THEOREM Inductive == Spec => []IInv
BY InitIInv, NextKeeps, PTL DEF Spec

\* The stores, the index and every call in progress have their types.
THEOREM TypeCorrect == Spec => []TypeOK
<1>1. IInv => TypeOK
  BY DEF IInv
<1>2. QED
  BY <1>1, Inductive, PTL

\* Evidence that the coordinator wrote always derives a state (coordinator.py,
\* _derive_state), whatever its callers ask for and whatever interrupts them.
THEOREM EvidenceDerivable == Spec => []EvidenceStaysDerivable
<1>1. IInv => EvidenceStaysDerivable
  BY DEF IInv, EvidenceInv, RunInv, EvidenceStaysDerivable
<1>2. QED
  BY <1>1, Inductive, PTL

\* No index row, flushed or not, is ahead of the evidence (run_store.py).
THEOREM IndexSafe == Spec => []IndexNeverAhead
<1>1. IInv => IndexNeverAhead
  BY DEF IInv, IndexesInv, IndexInv, IndexNeverAhead
<1>2. QED
  BY <1>1, Inductive, PTL

\* A mutating call that returns has reconciled the index of its run (coordinator.py,
\* transition, append_event and create_run).
THEOREM Reconciles == Spec => SuccessReconcilesIndex
<1>1. ASSUME IInv, NEW p \in Process, Finish(p)
      PROVE  row[job[p].run] = Record(StateOf(chain[job[p].run]), chain[job[p].run])
  BY <1>1 DEF IInv, CallsInv, CallInv, Finish
<1>2. IInv => [\A p \in Process :
                 Finish(p) =>
                   LET r == job[p].run IN row[r] = Record(StateOf(chain[r]), chain[r])]_vars
  BY <1>1
<1>3. QED
  BY <1>2, Inductive, PTL DEF SuccessReconcilesIndex

\* A step of the coordinator commits the event of one call to its run or leaves
\* the evidence of every run as it is.
LEMMA OnlyCommitWrites ==
  ASSUME [Next]_vars
  PROVE  chain' = chain \/ \E p \in Process : Commit(p)
BY DEF Next, vars, stores, CallStep, ListStep, Begin, MakeDirectory, WriteManifest,
       Validate, StartAppend, Index, Finish, Fail, BeginList, ListOne, ListDone,
       ListFail, PowerLoss

\* A run without evidence has no state.
LEMMA NoEvidence == StateOf(<<>>) = NoState
<1>1. DOMAIN <<>> = {}
  BY EmptySeq, LenProperties
<1>2. QED
  BY <1>1 DEF StateOf

\* The lifecycle speaks of the same states and transitions.
LEMMA SameStates ==
  /\ Lifecycle!NoState = NoState
  /\ Lifecycle!RunState = RunState
  /\ \A a, b : Lifecycle!CanTransition(a, b) <=> CanTransition(a, b)
<1>1. Lifecycle!NoState = NoState /\ Lifecycle!RunState = RunState
  BY DEF Lifecycle!NoState, NoState, Lifecycle!RunState, RunState
<1>2. Lifecycle!Progress = Progress
  BY DEF Lifecycle!Progress, Progress
<1>3. Lifecycle!Interruptible = Interruptible
  BY <1>1 DEF Lifecycle!Interruptible, Interruptible
<1>4. Lifecycle!ValidTransitions = ValidTransitions
  BY <1>2, <1>3 DEF Lifecycle!ValidTransitions, ValidTransitions
<1>5. QED
  BY <1>1, <1>4 DEF Lifecycle!CanTransition, CanTransition

\* Every step of the coordinator is a step of the lifecycle, or none.
LEMMA StepRefines ==
  ASSUME IInv, [Next]_vars
  PROVE  [Lifecycle!Next]_([r \in Run |-> StateOf(chain[r])])
<1> DEFINE state == [r \in Run |-> StateOf(chain[r])]
<1>1. CASE chain' = chain
  BY <1>1
<1>2. ASSUME NEW p \in Process, Commit(p)
      PROVE  Lifecycle!Next \/ state' = state
  <2> DEFINE r == job[p].run
             c == chain[r]
             d == Append(c, EventOf(p))
  <2>1. /\ r \in Run /\ c \in Seq(EventRecord)
        /\ job[p].kind \in {"create", "move", "note"}
        /\ job[p].kind = "move" => job[p].target \in RunState
    BY <1>2, CallTypes DEF IInv, Held, Commit
  <2>2. StateOf(d) = StateAfter(p)
    BY <1>2, CommitFits DEF Commit
  <2>3. /\ chain' = [chain EXCEPT ![r] = d] /\ pc[p] = "writing"
        /\ chain \in [Run -> Seq(EventRecord)]
    BY <1>2 DEF Commit, IInv, TypeOK
  <2> HIDE DEF d
  <2>4. state' = [state EXCEPT ![r] = StateAfter(p)]
    BY <2>1, <2>2, <2>3
  <2>5. CallInv(p)
    BY DEF IInv, CallsInv
  <2>6. CASE job[p].kind = "create"
    <3>1. state[r] = NoState /\ StateAfter(p) = "CREATED"
      BY <2>1, <2>3, <2>5, <2>6, NoEvidence DEF CallInv, StateAfter
    <3>2. Lifecycle!Create(r)
      BY <2>4, <3>1, SameStates DEF Lifecycle!Create
    <3>3. QED
      BY <2>1, <3>2 DEF Lifecycle!Next
  <2>7. CASE job[p].kind = "move"
    <3>1. CanTransition(state[r], job[p].target) /\ StateAfter(p) = job[p].target
      BY <2>1, <2>3, <2>5, <2>7 DEF CallInv, StateAfter
    <3>2. Lifecycle!Move(r, job[p].target)
      BY <2>4, <3>1, SameStates DEF Lifecycle!Move
    <3>3. QED
      BY <2>1, <2>7, <3>2, SameStates DEF Lifecycle!Next
  <2>8. CASE job[p].kind = "note"
    <3>1. StateAfter(p) = state[r]
      BY <2>1, <2>3, <2>5, <2>8 DEF CallInv, StateAfter
    <3>2. QED
      BY <2>4, <3>1
  <2>9. QED
    BY <2>1, <2>6, <2>7, <2>8
<1>3. QED
  BY <1>1, <1>2, OnlyCommitWrites

\* The coordinator implements the run lifecycle: with locks, directories, evidence
\* and index left out, every run is created once and moves along valid transitions.
THEOREM RefinesLifecycle == Spec => ImplementsLifecycle
<1>1. Init => Lifecycle!Init
  BY NoEvidence, SameStates DEF Init, Lifecycle!Init
<1>2. QED
  BY <1>1, StepRefines, Inductive, PTL DEF Spec, ImplementsLifecycle, Lifecycle!Spec

\* A step that commits nothing damages the evidence of a run, repairs it, or neither.
LEMMA QuietStepLogs ==
  ASSUME IInv, [Next]_vars, chain' = chain, NEW r \in Run
  PROVE  \/ UNCHANGED <<chain[r], sealed[r]>>
         \/ Log(r)!Seal
         \/ Log(r)!Unseal
<1>1. sealed \in [Run -> BOOLEAN] /\ sealed' \in [Run -> BOOLEAN]
  <2>1. sealed \in [Run -> BOOLEAN]
    BY DEF IInv, TypeOK
  <2>2. IInv'
    BY NextKeeps
  <2>3. QED
    BY <2>1, <2>2 DEF IInv, TypeOK
<1>2. sealed'[r] = sealed[r] \/ sealed'[r] = TRUE \/ (sealed[r] = TRUE /\ sealed'[r] = FALSE)
  BY <1>1
<1>3. QED
  BY <1>2 DEF Log!Seal, Log!Unseal

\* A step that commits writes one event at the end of one intact log.
LEMMA CommitStepLogs ==
  ASSUME IInv, NEW p \in Process, Commit(p), NEW r \in Run
  PROVE  \/ UNCHANGED <<chain[r], sealed[r]>>
         \/ Log(r)!Commit(Last(chain[r]'))
<1>1. /\ job[p].run \in Run
      /\ chain \in [Run -> Seq(EventRecord)]
      /\ pc[p] = "writing"
      /\ sealed' = sealed
      /\ chain' = [chain EXCEPT ![job[p].run] = Append(chain[job[p].run], EventOf(p))]
  BY CallTypes DEF IInv, TypeOK, Commit, Held
<1>2. CASE r # job[p].run
  BY <1>1, <1>2
<1>3. CASE r = job[p].run
  <2> DEFINE c == chain[r]
             d == Append(c, EventOf(p))
  <2>1. chain'[r] = d /\ c \in Seq(EventRecord)
    BY <1>1, <1>3
  <2>2. EventOf(p) \in EventRecord /\ d \in Seq(EventRecord)
    BY <1>1, <1>3, CommitFits
  <2>3. Last(d) = EventOf(p)
    BY <2>1, <2>2, AppendProperties DEF Last
  <2>4. ~sealed[r]
    BY <1>1, <1>3 DEF IInv, CallsInv, CallInv
  <2> HIDE DEF d
  <2>5. chain'[r] = Append(chain[r], Last(chain'[r]))
    BY <2>1, <2>3 DEF d
  <2>6. QED
    BY <1>1, <2>4, <2>5 DEF Log!Commit
<1>4. QED
  BY <1>2, <1>3

\* What the calls do to the evidence of each run is what its log allows: an event
\* at the end of a log that is intact, or an interruption.
THEOREM RefinesLogs == Spec => ImplementsLogs
<1>1. ASSUME IInv, [Next]_vars
      PROVE  \A r \in Run :
               \/ UNCHANGED <<chain[r], sealed[r]>>
               \/ Log(r)!Seal
               \/ Log(r)!Unseal
               \/ Log(r)!Commit(Last(chain[r]'))
  BY <1>1, QuietStepLogs, CommitStepLogs, OnlyCommitWrites
<1>2. QED
  BY <1>1, Inductive, PTL DEF Spec, ImplementsLogs
=============================================================================
