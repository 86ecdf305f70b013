------------------------ MODULE EvidenceChain_proofs ------------------------
(***************************************************************************)
(* Proofs about the evidence store, for any number of writers and readers, *)
(* any events and any number of snapshot attempts: its type invariant, the *)
(* safety invariants, fail-closed behaviour, and that it implements the    *)
(* abstract EvidenceLog.                                                   *)
(***************************************************************************)
EXTENDS EvidenceChain, SequenceTheorems, TLAPS

-----------------------------------------------------------------------------
(* Prefixes, appends and cuts of sequences.                                *)

\* What a cut of a sequence (evidence lost at the end of a file) is, element by element.
LEMMA CutPointwise ==
  ASSUME NEW S, NEW t \in Seq(S), NEW n \in 0 .. Len(t)
  PROVE  /\ SubSeq(t, 1, n) \in Seq(S)
         /\ Len(SubSeq(t, 1, n)) = n
         /\ \A i \in 1 .. n : SubSeq(t, 1, n)[i] = t[i]
<1>1. Len(t) \in Nat /\ \A i \in 1 .. n : t[i] \in S
  BY ElementOfSeq, LenProperties
<1>2. n \in Int /\ 1 \in Int
  BY <1>1
<1>3. QED
  BY <1>1, <1>2, SubSeqProperties

\* A prefix, element by element.
LEMMA PrefixPointwise ==
  ASSUME NEW S, NEW s \in Seq(S), NEW t \in Seq(S)
  PROVE  IsPrefix(s, t) <=> /\ Len(s) <= Len(t)
                            /\ \A i \in 1 .. Len(s) : s[i] = t[i]
<1>1. Len(s) \in Nat /\ Len(t) \in Nat
  BY LenProperties
<1>2. CASE ~(Len(s) <= Len(t))
  BY <1>2 DEF IsPrefix
<1>3. CASE Len(s) <= Len(t)
  <2>1. Len(s) \in 0 .. Len(s) /\ Len(s) \in 0 .. Len(t)
    BY <1>1, <1>3
  <2>2. SubSeq(s, 1, Len(s)) = s
    BY SubSeqFull
  <2>3. /\ SubSeq(t, 1, Len(s)) \in Seq(S)
        /\ Len(SubSeq(t, 1, Len(s))) = Len(s)
        /\ \A i \in 1 .. Len(s) : SubSeq(t, 1, Len(s))[i] = t[i]
    BY <2>1, CutPointwise
  <2>4. (\A i \in 1 .. Len(s) : s[i] = t[i]) => s = SubSeq(t, 1, Len(s))
    BY <2>3, SeqEqual
  <2>5. QED
    BY <1>3, <2>2, <2>3, <2>4 DEF IsPrefix
<1>4. QED
  BY <1>2, <1>3

\* The empty sequence is a prefix of every sequence.
LEMMA PrefixEmpty ==
  ASSUME NEW S, NEW t \in Seq(S)
  PROVE  IsPrefix(<<>>, t)
<1>1. SUFFICES ASSUME NEW s \in Seq(S), Len(s) = 0
               PROVE  IsPrefix(s, t)
  BY EmptySeq
<1>2. Len(t) \in Nat
  BY LenProperties
<1>3. Len(s) <= Len(t) /\ \A i \in 1 .. Len(s) : s[i] = t[i]
  BY <1>1, <1>2
<1>4. QED
  BY <1>3, PrefixPointwise

\* IsPrefix is reflexive.
LEMMA PrefixReflexive ==
  ASSUME NEW S, NEW t \in Seq(S)
  PROVE  IsPrefix(t, t)
BY PrefixPointwise, LenProperties

\* IsPrefix is antisymmetric.
LEMMA PrefixAntisymmetric ==
  ASSUME NEW S, NEW s \in Seq(S), NEW t \in Seq(S), IsPrefix(s, t), IsPrefix(t, s)
  PROVE  s = t
<1>1. Len(s) \in Nat /\ Len(t) \in Nat
  BY LenProperties
<1>2. /\ Len(s) <= Len(t) /\ \A i \in 1 .. Len(s) : s[i] = t[i]
      /\ Len(t) <= Len(s)
  BY PrefixPointwise
<1>3. Len(s) = Len(t)
  BY <1>1, <1>2
<1>4. QED
  BY <1>2, <1>3, SeqEqual

\* IsPrefix is transitive.
LEMMA PrefixTransitive ==
  ASSUME NEW S, NEW s \in Seq(S), NEW t \in Seq(S), NEW u \in Seq(S),
         IsPrefix(s, t), IsPrefix(t, u)
  PROVE  IsPrefix(s, u)
<1>1. Len(s) \in Nat /\ Len(t) \in Nat /\ Len(u) \in Nat
  BY LenProperties
<1>2. /\ Len(s) <= Len(t) /\ \A i \in 1 .. Len(s) : s[i] = t[i]
      /\ Len(t) <= Len(u) /\ \A i \in 1 .. Len(t) : t[i] = u[i]
  BY PrefixPointwise
<1>3. Len(s) <= Len(u) /\ \A i \in 1 .. Len(s) : s[i] = u[i]
  BY <1>1, <1>2
<1>4. QED
  BY <1>3, PrefixPointwise

\* Appending to the longer sequence keeps the shorter one a prefix.
LEMMA PrefixAppend ==
  ASSUME NEW S, NEW s \in Seq(S), NEW t \in Seq(S), NEW e \in S, IsPrefix(s, t)
  PROVE  IsPrefix(s, Append(t, e))
<1>1. Len(s) \in Nat /\ Len(t) \in Nat
  BY LenProperties
<1>2. Len(s) <= Len(t) /\ \A i \in 1 .. Len(s) : s[i] = t[i]
  BY PrefixPointwise
<1>3. /\ Append(t, e) \in Seq(S)
      /\ Len(Append(t, e)) = Len(t) + 1
      /\ \A i \in 1 .. Len(t) : Append(t, e)[i] = t[i]
  BY AppendProperties
<1>4. Len(s) <= Len(Append(t, e)) /\ \A i \in 1 .. Len(s) : s[i] = Append(t, e)[i]
  BY <1>1, <1>2, <1>3
<1>5. QED
  BY <1>3, <1>4, PrefixPointwise

\* Cutting the longer sequence no shorter than the prefix keeps the prefix.
LEMMA PrefixCut ==
  ASSUME NEW S, NEW s \in Seq(S), NEW t \in Seq(S), NEW n \in 0 .. Len(t),
         IsPrefix(s, t), Len(s) <= n
  PROVE  IsPrefix(s, SubSeq(t, 1, n))
<1>1. Len(s) \in Nat /\ Len(t) \in Nat
  BY LenProperties
<1>2. \A i \in 1 .. Len(s) : s[i] = t[i]
  BY PrefixPointwise
<1>3. /\ SubSeq(t, 1, n) \in Seq(S)
      /\ Len(SubSeq(t, 1, n)) = n
      /\ \A i \in 1 .. n : SubSeq(t, 1, n)[i] = t[i]
  BY CutPointwise
<1>4. \A i \in 1 .. Len(s) : s[i] = SubSeq(t, 1, n)[i]
  BY <1>1, <1>2, <1>3
<1>5. QED
  BY <1>3, <1>4, PrefixPointwise

\* A shorter cut of a cut is the shorter cut.
LEMMA CutOfCut ==
  ASSUME NEW S, NEW t \in Seq(S), NEW n \in 0 .. Len(t), NEW m \in 0 .. n
  PROVE  SubSeq(SubSeq(t, 1, n), 1, m) = SubSeq(t, 1, m)
<1> DEFINE c == SubSeq(t, 1, n)
           a == SubSeq(c, 1, m)
           b == SubSeq(t, 1, m)
<1>1. Len(t) \in Nat /\ m \in 0 .. Len(t) /\ m \in Nat /\ n \in Nat
  BY LenProperties
<1>2. c \in Seq(S) /\ Len(c) = n /\ \A i \in 1 .. n : c[i] = t[i]
  BY CutPointwise
<1>3. b \in Seq(S) /\ Len(b) = m /\ \A i \in 1 .. m : b[i] = t[i]
  BY <1>1, CutPointwise
<1> HIDE DEF c, b
<1>4. a \in Seq(S) /\ Len(a) = m /\ \A i \in 1 .. m : a[i] = c[i]
  BY <1>2, CutPointwise
<1> HIDE DEF a
<1>5. \A i \in 1 .. m : a[i] = b[i]
  BY <1>1, <1>2, <1>3, <1>4
<1>6. a = b
  BY <1>3, <1>4, <1>5, SeqEqual
<1>7. QED
  BY <1>6 DEF a, b, c

\* A cut is a prefix of what was cut.
LEMMA CutIsPrefix ==
  ASSUME NEW S, NEW t \in Seq(S), NEW n \in 0 .. Len(t)
  PROVE  IsPrefix(SubSeq(t, 1, n), t)
<1>1. /\ SubSeq(t, 1, n) \in Seq(S)
      /\ Len(SubSeq(t, 1, n)) = n
      /\ \A i \in 1 .. n : SubSeq(t, 1, n)[i] = t[i]
  BY CutPointwise
<1>2. Len(t) \in Nat
  BY LenProperties
<1>3. Len(SubSeq(t, 1, n)) <= Len(t)
  BY <1>1, <1>2
<1>4. QED
  BY <1>1, <1>3, PrefixPointwise

\* A sequence is a prefix of itself with one more element.
LEMMA AppendExtends ==
  ASSUME NEW S, NEW t \in Seq(S), NEW e \in S
  PROVE  IsPrefix(t, Append(t, e))
BY PrefixReflexive, PrefixAppend
-----------------------------------------------------------------------------
(* The inductive invariant.                                                *)

USE EvidenceAssumption

\* What chain.sha256 holds when the events in es are published.
CheckpointOf(es) == IF es = <<>> THEN NoCheckpoint ELSE es

\* Only the holder of the lock is inside append, and each stage of append fixes
\* how the two files, its own line and the published log are related.
WriterInv(w) ==
  /\ stage[w] # "idle" => lock = w
  /\ stage[w] \notin {"idle", "locked"} => pending[w] \in Line
  /\ stage[w] \in {"opened", "partial"} =>
       /\ pending[w].prev = Events(lines)
       /\ published = Events(lines)
       /\ chain = CheckpointOf(published)
       /\ stage[w] = "opened" => ~torn
  /\ stage[w] \in {"written", "synced"} =>
       /\ ~torn
       /\ Events(lines) = HashOf(pending[w])
       /\ published = pending[w].prev
       /\ chain = CheckpointOf(published)
  /\ stage[w] = "replaced" =>
       /\ ~torn
       /\ lines # <<>>
       /\ chain = Events(lines)
  /\ stage[w] \in {"synced", "replaced"} => synced = Len(lines)

StageInv == \A w \in Writer : WriterInv(w)

\* Every line links to the hash of all the lines before it.
Linked == \A i \in 1 .. Len(lines) : lines[i].prev = SubSeq(Events(lines), 1, i - 1)

\* Every checkpoint that may be found on disk was published, everything published
\* is flushed, and everything acknowledged is in every one of those checkpoints.
DurableInv ==
  /\ chain \in durable
  /\ \A c \in durable : c # NoCheckpoint => IsPrefix(c, published)
  /\ IsPrefix(published, Events(lines))
  /\ Len(published) <= synced
  /\ acked # <<>> => \A c \in durable : c # NoCheckpoint /\ IsPrefix(acked, c)

\* What a reader holds or has accepted was published, and the checkpoint it holds
\* has not been taken back since.
ReaderInv ==
  \A r \in Reader :
    /\ IsPrefix(view[r], published)
    /\ (phase[r] = "checkpoint" /\ snap[r].chain # NoCheckpoint) =>
          /\ IsPrefix(snap[r].chain, published)
          /\ chain # NoCheckpoint
          /\ IsPrefix(snap[r].chain, chain)

IInv == TypeOK /\ StageInv /\ Linked /\ DurableInv /\ ReaderInv

-----------------------------------------------------------------------------
(* Lemmas about the operators of the store.                                *)

\* The fields of a line.
LEMMA LineFields ==
  \A l \in Line : l.event \in Event /\ l.prev \in Seq(Event)
BY DEF Line, Hash

\* The events of a list of lines are a sequence of the same length.
LEMMA EventsType ==
  ASSUME NEW ls \in Seq(Line)
  PROVE  /\ Events(ls) \in Hash
         /\ Len(Events(ls)) = Len(ls)
         /\ \A i \in 1 .. Len(ls) : Events(ls)[i] = ls[i].event
<1>1. Len(ls) \in Nat /\ DOMAIN ls = 1 .. Len(ls)
  BY LenProperties
<1>2. \A i \in 1 .. Len(ls) : ls[i].event \in Event
  BY LineFields, ElementOfSeq
<1>3. Events(ls) = [i \in 1 .. Len(ls) |-> ls[i].event]
  BY <1>1 DEF Events
<1>4. QED
  BY <1>1, <1>2, <1>3 DEF Hash

\* The hash of a line is a sequence of events.
LEMMA HashOfType ==
  ASSUME NEW l \in Line
  PROVE  HashOf(l) \in Hash /\ HashOf(l) # <<>>
BY AppendProperties DEF Line, Hash, HashOf

\* Appending a line whose prev is the log so far appends its event to the log.
LEMMA EventsAppend ==
  ASSUME NEW ls \in Seq(Line), NEW l \in Line
  PROVE  Events(Append(ls, l)) = Append(Events(ls), l.event)
<1> DEFINE s == Events(Append(ls, l))
           t == Append(Events(ls), l.event)
<1>1. /\ Append(ls, l) \in Seq(Line)
      /\ Len(Append(ls, l)) = Len(ls) + 1
      /\ \A i \in 1 .. Len(ls) : Append(ls, l)[i] = ls[i]
      /\ Append(ls, l)[Len(ls) + 1] = l
  BY AppendProperties
<1>2. /\ s \in Seq(Event)
      /\ Len(s) = Len(ls) + 1
      /\ \A i \in 1 .. Len(ls) + 1 : s[i] = Append(ls, l)[i].event
  BY <1>1, EventsType DEF Hash
<1>3. l.event \in Event /\ Events(ls) \in Seq(Event)
  BY EventsType DEF Line, Hash
<1>4. /\ t \in Seq(Event)
      /\ Len(t) = Len(ls) + 1
      /\ \A i \in 1 .. Len(ls) : t[i] = ls[i].event
      /\ t[Len(ls) + 1] = l.event
  BY <1>3, AppendProperties, EventsType
<1>5. \A i \in 1 .. Len(s) : s[i] = t[i]
  BY <1>1, <1>2, <1>4, LenProperties
<1> HIDE DEF s, t
<1>6. s = t
  BY <1>2, <1>4, <1>5, SeqEqual
<1>7. QED
  BY <1>6 DEF s, t

\* Cutting the file cuts the log.
LEMMA EventsCut ==
  ASSUME NEW ls \in Seq(Line), NEW n \in 0 .. Len(ls)
  PROVE  Events(SubSeq(ls, 1, n)) = SubSeq(Events(ls), 1, n)
<1> DEFINE s == Events(SubSeq(ls, 1, n))
           t == SubSeq(Events(ls), 1, n)
<1>1. /\ SubSeq(ls, 1, n) \in Seq(Line)
      /\ Len(SubSeq(ls, 1, n)) = n
      /\ \A i \in 1 .. n : SubSeq(ls, 1, n)[i] = ls[i]
  BY CutPointwise
<1>2. s \in Seq(Event) /\ Len(s) = n /\ \A i \in 1 .. n : s[i] = ls[i].event
  BY <1>1, EventsType DEF Hash
<1>3. /\ Events(ls) \in Seq(Event) /\ n \in 0 .. Len(Events(ls))
      /\ \A i \in 1 .. Len(ls) : Events(ls)[i] = ls[i].event
  BY EventsType DEF Hash
<1>4. t \in Seq(Event) /\ Len(t) = n /\ \A i \in 1 .. n : t[i] = Events(ls)[i]
  BY <1>3, CutPointwise
<1>5. \A i \in 1 .. n : t[i] = ls[i].event
  BY <1>3, <1>4, LenProperties
<1> HIDE DEF s, t
<1>6. s = t
  BY <1>2, <1>4, <1>5, SeqEqual
<1>7. QED
  BY <1>6 DEF s, t

\* With every line linked, the hash of the last line is the whole log.
LEMMA LastHashIsLog ==
  ASSUME NEW ls \in Seq(Line),
         \A i \in 1 .. Len(ls) : ls[i].prev = SubSeq(Events(ls), 1, i - 1)
  PROVE  LastHash(ls) = Events(ls)
<1>1. Len(ls) \in Nat /\ (ls = <<>> <=> Len(ls) = 0)
  BY LenProperties, EmptySeq
<1>2. /\ Events(ls) \in Seq(Event)
      /\ Len(Events(ls)) = Len(ls)
      /\ \A i \in 1 .. Len(ls) : Events(ls)[i] = ls[i].event
  BY EventsType DEF Hash
<1>3. CASE Len(ls) = 0
  <2>1. LastHash(ls) = <<>>
    BY <1>1, <1>3 DEF LastHash
  <2>2. Events(ls) = <<>>
    BY <1>2, <1>3, EmptySeq, SeqEqual
  <2>3. QED
    BY <2>1, <2>2
<1>4. CASE Len(ls) # 0
  <2> DEFINE n == Len(ls)
             p == SubSeq(Events(ls), 1, n - 1)
  <2>1. n \in 1 .. Len(ls) /\ n - 1 \in 0 .. Len(Events(ls))
    BY <1>1, <1>2, <1>4
  <2>2. LastHash(ls) = Append(p, ls[n].event)
    BY <1>1, <1>4, <2>1 DEF LastHash, HashOf
  <2>3. p \in Seq(Event) /\ Len(p) = n - 1 /\ \A i \in 1 .. n - 1 : p[i] = Events(ls)[i]
    BY <1>2, <2>1, CutPointwise
  <2>4. ls[n].event \in Event
    BY <2>1, ElementOfSeq, LineFields
  <2> HIDE DEF p
  <2>5. /\ Append(p, ls[n].event) \in Seq(Event)
        /\ Len(Append(p, ls[n].event)) = n
        /\ \A i \in 1 .. n - 1 : Append(p, ls[n].event)[i] = p[i]
        /\ Append(p, ls[n].event)[n] = ls[n].event
    <3>1. Len(p) + 1 = n /\ Len(p) = n - 1
      BY <2>1, <2>3
    <3>2. QED
      BY <2>3, <2>4, <3>1, AppendProperties
  <2>6. \A i \in 1 .. n : Append(p, ls[n].event)[i] = Events(ls)[i]
    BY <1>2, <2>1, <2>3, <2>5
  <2>7. Append(p, ls[n].event) = Events(ls)
    BY <1>2, <2>5, <2>6, SeqEqual
  <2>8. QED
    BY <2>2, <2>7
<1>5. QED
  BY <1>3, <1>4

-----------------------------------------------------------------------------
(* Type correctness.                                                       *)

\* The last hash of a list of lines is a hash.
LEMMA LastHashType ==
  ASSUME NEW ls \in Seq(Line)
  PROVE  LastHash(ls) \in Hash
<1>1. CASE ls = <<>>
  BY <1>1, EmptySeq DEF LastHash, Hash
<1>2. CASE ls # <<>>
  <2>1. Len(ls) \in 1 .. Len(ls)
    BY <1>2, EmptySeq, LenProperties
  <2>2. ls[Len(ls)] \in Line
    BY <2>1, ElementOfSeq
  <2>3. QED
    BY <1>2, <2>2, HashOfType DEF LastHash
<1>3. QED
  BY <1>1, <1>2

\* The initial state is well typed.
LEMMA InitTypeOK == Init => TypeOK
<1>1. <<>> \in Seq(Line) /\ <<>> \in Hash /\ Len(<<>>) = 0
  BY EmptySeq DEF Hash
<1>2. NoSnapshot \in Snapshot
  BY <1>1 DEF NoSnapshot, Snapshot
<1>3. 0 \in 0 .. SnapshotAttempts - 1
  OBVIOUS
<1> SUFFICES ASSUME Init PROVE TypeOK
  OBVIOUS
<1>4. lines \in Seq(Line) /\ synced \in 0 .. Len(lines)
  BY <1>1 DEF Init
<1>5. view \in [Reader -> Hash] /\ published \in Hash /\ acked \in Hash
  BY <1>1 DEF Init
<1>6. snap \in [Reader -> Snapshot]
  BY <1>2 DEF Init
<1>7. QED
  BY <1>3, <1>4, <1>5, <1>6 DEF Init, TypeOK, Stage

\* The steps of a writer keep the state well typed.
LEMMA WriterTypeOK ==
  ASSUME TypeOK, NEW w \in Writer,
         stage[w] \notin {"idle", "locked"} => pending[w] \in Line,
         stage[w] = "replaced" => chain \in Hash,
         \/ Acquire(w) \/ Release(w) \/ Abandon(w) \/ WriterStep(w)
         \/ \E e \in Event : Open(w, e)
  PROVE  TypeOK'
<1> USE DEF TypeOK
<1>0. /\ Len(lines) \in Nat
      /\ NoSnapshot \in Snapshot
  BY LenProperties, EmptySeq DEF NoSnapshot, Snapshot, Hash
<1>1. ASSUME Acquire(w) PROVE TypeOK'
  BY <1>0, <1>1 DEF Acquire, GoTo, Stage, files, readers
<1>2. ASSUME Release(w) PROVE TypeOK'
  BY <1>0, <1>2 DEF Release, GoTo, Stage, files, readers
<1>3. ASSUME Abandon(w) PROVE TypeOK'
  BY <1>0, <1>3 DEF Abandon, GoTo, Stage, files, readers
<1>4. ASSUME NEW e \in Event, Open(w, e) PROVE TypeOK'
  <2>1. LastHash(lines) \in Hash
    BY LastHashType
  <2>2. [event |-> e, prev |-> LastHash(lines)] \in Line
    BY <2>1 DEF Line
  <2>3. pending' \in [Writer -> Line \union {NoLine}]
    BY <1>4, <2>2 DEF Open
  <2>4. stage' \in [Writer -> Stage]
    BY <1>4 DEF Open, GoTo, Stage
  <2>5. QED
    BY <1>0, <1>4, <2>3, <2>4 DEF Open, files, readers
<1>5. ASSUME WritePart(w) PROVE TypeOK'
  BY <1>0, <1>5 DEF WritePart, GoTo, Stage, Disturb
<1>6. ASSUME WriteLine(w) PROVE TypeOK'
  <2>1. pending[w] \in Line
    BY <1>6 DEF WriteLine
  <2>2. lines' \in Seq(Line) /\ Len(lines') = Len(lines) + 1
    BY <1>6, <2>1, AppendProperties DEF WriteLine
  <2>3. synced' \in 0 .. Len(lines')
    BY <1>0, <1>6, <2>2 DEF WriteLine
  <2>4. QED
    BY <1>6, <2>2, <2>3 DEF WriteLine, GoTo, Stage, Disturb
<1>7. ASSUME Sync(w) PROVE TypeOK'
  BY <1>0, <1>7 DEF Sync, GoTo, Stage, readers
<1>8. ASSUME Replace(w) PROVE TypeOK'
  <2>1. HashOf(pending[w]) \in Hash
    BY <1>8, HashOfType DEF Replace
  <2>2. QED
    BY <1>0, <1>8, <2>1 DEF Replace, GoTo, Stage, Disturb
<1>9. ASSUME Return(w) PROVE TypeOK'
  BY <1>0, <1>9 DEF Return, GoTo, Stage, readers
<1>10. QED
  BY <1>1, <1>2, <1>3, <1>4, <1>5, <1>6, <1>7, <1>8, <1>9 DEF WriterStep

\* The steps of a reader keep the state well typed.
LEMMA ReaderTypeOK ==
  ASSUME TypeOK, NEW r \in Reader, ReadEvents(r) \/ ReaderStep(r)
  PROVE  TypeOK'
<1> USE DEF TypeOK
<1>0. NoSnapshot \in Snapshot
  BY EmptySeq DEF NoSnapshot, Snapshot, Hash
<1>1. ASSUME ReadEvents(r) PROVE TypeOK'
  BY <1>1 DEF ReadEvents, Snapshot, files, writers, MidAppend
<1>2. ASSUME ReadCheckpoint(r) PROVE TypeOK'
  <2>1. [snap[r] EXCEPT !.chain = chain] \in Snapshot
    <3>1. snap[r] \in Snapshot /\ chain \in Hash \union {NoCheckpoint}
      OBVIOUS
    <3>2. QED
      BY <3>1 DEF Snapshot
  <2>2. snap' = [snap EXCEPT ![r] = [snap[r] EXCEPT !.chain = chain]]
    BY <1>2 DEF ReadCheckpoint
  <2>3. snap' \in [Reader -> Snapshot]
    BY <2>1, <2>2
  <2>4. QED
    BY <1>2, <2>3 DEF ReadCheckpoint, files, writers
<1>3. ASSUME Accept(r) PROVE TypeOK'
  <2>1. snap[r].chain = LastHash(snap[r].lines) /\ snap[r].lines \in Seq(Line)
    BY <1>3 DEF Accept, SnapshotGood, Verifies, Snapshot
  <2>2. snap[r].chain \in Hash
    BY <2>1, LastHashType
  <2>3. QED
    BY <1>0, <1>3, <2>2 DEF Accept, files, writers
<1>4. ASSUME Retry(r) PROVE TypeOK'
  BY <1>0, <1>4 DEF Retry, files, writers
<1>5. ASSUME Refuse(r) PROVE TypeOK'
  BY <1>0, <1>5 DEF Refuse, files, writers
<1>6. QED
  BY <1>1, <1>2, <1>3, <1>4, <1>5 DEF ReaderStep

\* A power failure keeps the state well typed.
LEMMA PowerLossTypeOK ==
  ASSUME TypeOK, PowerLoss
  PROVE  TypeOK'
<1> USE DEF TypeOK
<1>1. PICK n \in synced .. Len(lines) :
         /\ lines' = SubSeq(lines, 1, n)
         /\ synced' = n
         /\ torn' \in IF torn \/ n < Len(lines) THEN BOOLEAN ELSE {FALSE}
  BY DEF PowerLoss
<1>2. n \in 0 .. Len(lines) /\ n \in Nat
  BY LenProperties
<1>3. lines' \in Seq(Line) /\ Len(lines') = n
  BY <1>1, <1>2, CutPointwise
<1>4. NoSnapshot \in Snapshot
  BY EmptySeq DEF NoSnapshot, Snapshot, Hash
<1>5. torn' \in BOOLEAN
  BY <1>1
<1>6. QED
  BY <1>1, <1>2, <1>3, <1>4, <1>5 DEF PowerLoss, Stage
-----------------------------------------------------------------------------
(* The inductive invariant.                                                *)

\* IInv holds initially.
LEMMA InitIInv == Init => IInv
<1> SUFFICES ASSUME Init PROVE IInv
  OBVIOUS
<1>1. TypeOK
  BY InitTypeOK
<1>2. StageInv
  BY DEF Init, StageInv, WriterInv
<1>3. Linked
  BY EmptySeq DEF Init, Linked
<1>4. Events(lines) \in Seq(Event) /\ <<>> \in Seq(Event) /\ Len(<<>>) = 0
  BY <1>1, EventsType, EmptySeq DEF TypeOK, Hash
<1>5. \A t \in Seq(Event) : IsPrefix(<<>>, t)
  BY PrefixEmpty
<1>6. DurableInv
  BY <1>4, <1>5 DEF Init, DurableInv
<1>7. ReaderInv
  BY <1>4, <1>5 DEF Init, ReaderInv
<1>8. QED
  BY <1>1, <1>2, <1>3, <1>6, <1>7 DEF IInv

\* While one writer is inside its with-block every other one is idle.
LEMMA OneHolder ==
  ASSUME IInv, NEW w \in Writer, NEW v \in Writer, stage[w] # "idle", v # w
  PROVE  stage[v] = "idle"
BY DEF IInv, StageInv, WriterInv

\* What append relies on once it has verified the chain: the published log is
\* exactly what the file holds, and the checkpoint is exactly what was published.
LEMMA VerifiedMeansPublished ==
  ASSUME IInv, Appendable(lines, torn, chain)
  PROVE  /\ LastHash(lines) = Events(lines)
         /\ published = Events(lines)
         /\ chain = CheckpointOf(published)
         /\ ~torn
<1> USE DEF IInv, TypeOK, DurableInv
<1>1. LastHash(lines) = Events(lines)
  BY LastHashIsLog DEF Linked
<1>2. /\ Events(lines) \in Seq(Event)
      /\ published \in Seq(Event)
      /\ Len(Events(lines)) = Len(lines)
  BY EventsType DEF Hash
<1>3. ~torn
  BY DEF Appendable, Verifies
<1>4. CASE lines # <<>>
  <2>1. chain = Events(lines)
    BY <1>1, <1>4 DEF Appendable, Verifies
  <2>2. chain # NoCheckpoint
    BY <1>2, <2>1
  <2>3. IsPrefix(chain, published) /\ IsPrefix(published, chain)
    BY <2>1, <2>2
  <2>4. published = chain
    BY <1>2, <2>1, <2>3, PrefixAntisymmetric
  <2>5. published # <<>>
    BY <1>2, <1>4, <2>1, <2>4, EmptySeq
  <2>6. QED
    BY <1>1, <1>3, <2>1, <2>4, <2>5 DEF CheckpointOf
<1>5. CASE lines = <<>>
  <2>1. Len(lines) = 0
    BY <1>5, EmptySeq
  <2>2. Events(lines) = <<>>
    BY <1>2, <2>1, EmptySeq, SeqEqual
  <2>3. IsPrefix(Events(lines), published)
    BY <1>2, <2>2, PrefixEmpty
  <2>4. published = Events(lines)
    BY <1>2, <2>3, PrefixAntisymmetric
  <2>5. chain = NoCheckpoint
    BY <1>5 DEF Appendable, Verifies
  <2>6. QED
    BY <1>1, <1>3, <2>2, <2>4, <2>5 DEF CheckpointOf
<1>6. QED
  BY <1>4, <1>5

\* Every step of a writer keeps IInv.
LEMMA WriterIInv ==
  ASSUME IInv, NEW w \in Writer,
         \/ Acquire(w) \/ Release(w) \/ Abandon(w) \/ WriterStep(w)
         \/ \E e \in Event : Open(w, e)
  PROVE  IInv'
<1>1. TypeOK /\ WriterInv(w)
  BY DEF IInv, StageInv
<1>2. Events(lines) \in Seq(Event) /\ Len(Events(lines)) = Len(lines) /\ Len(lines) \in Nat
  BY <1>1, EventsType, LenProperties DEF TypeOK, Hash
<1>3. stage[w] = "replaced" => chain \in Hash
  BY <1>1, <1>2 DEF WriterInv, Hash
<1>4. TypeOK'
  BY <1>1, <1>3, WriterTypeOK DEF WriterInv
<1>5. stage \in [Writer -> Stage] /\ pending \in [Writer -> Line \union {NoLine}]
  BY <1>1 DEF TypeOK
<1>6. \A v \in Writer : WriterInv(v)
  BY DEF IInv, StageInv
<1>7. \A v \in Writer : (stage[w] # "idle" /\ v # w) => stage[v] = "idle"
  BY OneHolder
<1>8. DurableInv /\ ReaderInv /\ Linked
  BY DEF IInv
<1>9. ASSUME Acquire(w) PROVE IInv'
  <2>1. \A v \in Writer : stage[v] = "idle"
    BY <1>6, <1>9 DEF WriterInv, Acquire
  <2>2. StageInv'
    BY <1>5, <1>9, <2>1 DEF StageInv, WriterInv, Acquire, GoTo
  <2>3. (Linked /\ DurableInv /\ ReaderInv)'
    BY <1>8, <1>9 DEF Acquire, Linked, DurableInv, ReaderInv, files, readers
  <2>4. QED
    BY <1>4, <2>2, <2>3 DEF IInv
<1>10. ASSUME Release(w) PROVE IInv'
  <2>1. StageInv'
    BY <1>5, <1>7, <1>10 DEF StageInv, WriterInv, Release, GoTo
  <2>2. (Linked /\ DurableInv /\ ReaderInv)'
    BY <1>8, <1>10 DEF Release, Linked, DurableInv, ReaderInv, files, readers
  <2>3. QED
    BY <1>4, <2>1, <2>2 DEF IInv
<1>11. ASSUME Abandon(w) PROVE IInv'
  <2>1. StageInv'
    BY <1>5, <1>7, <1>11 DEF StageInv, WriterInv, Abandon, GoTo
  <2>2. (Linked /\ DurableInv /\ ReaderInv)'
    BY <1>8, <1>11 DEF Abandon, Linked, DurableInv, ReaderInv, files, readers
  <2>3. QED
    BY <1>4, <2>1, <2>2 DEF IInv
<1>12. ASSUME NEW e \in Event, Open(w, e) PROVE IInv'
  <2>1. /\ LastHash(lines) = Events(lines)
        /\ published = Events(lines)
        /\ chain = CheckpointOf(published)
        /\ ~torn
    BY <1>12, VerifiedMeansPublished DEF Open
  <2>2. [event |-> e, prev |-> LastHash(lines)] \in Line
    BY <1>2, <2>1 DEF Line, Hash
  <2>3. /\ pending'[w] = [event |-> e, prev |-> LastHash(lines)]
        /\ stage' = [stage EXCEPT ![w] = "opened"]
    BY <1>5, <1>12 DEF Open, GoTo
  <2>4. WriterInv(w)'
    BY <1>5, <1>6, <1>12, <2>1, <2>2, <2>3 DEF WriterInv, Open, files
  <2>5. \A v \in Writer : v # w => stage'[v] = "idle"
    BY <1>5, <1>7, <1>12, <2>3 DEF Open
  <2>6. StageInv'
    BY <2>4, <2>5 DEF StageInv, WriterInv
  <2>7. (Linked /\ DurableInv /\ ReaderInv)'
    BY <1>8, <1>12 DEF Open, Linked, DurableInv, ReaderInv, files, readers
  <2>8. QED
    BY <1>4, <2>6, <2>7 DEF IInv
<1>13. ASSUME WritePart(w) PROVE IInv'
  <2>1. StageInv'
    BY <1>5, <1>6, <1>7, <1>13 DEF StageInv, WriterInv, WritePart, GoTo
  <2>2. (Linked /\ DurableInv /\ ReaderInv)'
    BY <1>8, <1>13 DEF WritePart, Linked, DurableInv, ReaderInv
  <2>3. QED
    BY <1>4, <2>1, <2>2 DEF IInv
<1>14. ASSUME WriteLine(w) PROVE IInv'
  <2> DEFINE l == pending[w]
  <2>1. /\ l \in Line /\ l.event \in Event
        /\ l.prev = Events(lines)
        /\ published = Events(lines)
        /\ chain = CheckpointOf(published)
    BY <1>6, <1>14, LineFields DEF WriterInv, WriteLine
  <2>2. /\ lines' = Append(lines, l)
        /\ lines' \in Seq(Line)
        /\ Len(lines') = Len(lines) + 1
        /\ \A i \in 1 .. Len(lines) : lines'[i] = lines[i]
        /\ lines'[Len(lines) + 1] = l
    BY <1>1, <1>14, <2>1, AppendProperties DEF WriteLine, TypeOK
  <2>3. Events(lines') = Append(Events(lines), l.event)
    BY <1>1, <2>1, <2>2, EventsAppend DEF TypeOK
  <2>4. Events(lines)' = Append(Events(lines), l.event)
    BY <2>3 DEF Events
  <2>5. WriterInv(w)'
    <3>1. /\ stage'[w] = "written" /\ lock = w
          /\ pending' = pending /\ published' = published /\ chain' = chain
          /\ lock' = lock /\ ~torn'
      BY <1>5, <1>6, <1>14 DEF WriterInv, WriteLine, GoTo
    <3>2. Events(lines)' = HashOf(pending[w])
      BY <2>1, <2>4 DEF HashOf
    <3>3. QED
      BY <2>1, <3>1, <3>2 DEF WriterInv, HashOf
  <2>6. \A v \in Writer : v # w => stage'[v] = "idle"
    BY <1>5, <1>7, <1>14 DEF WriteLine, GoTo
  <2>7. StageInv'
    BY <2>5, <2>6 DEF StageInv, WriterInv
  <2>8. Linked'
    <3>1. /\ Events(lines') \in Seq(Event)
          /\ Len(Events(lines')) = Len(lines) + 1
          /\ \A i \in 1 .. Len(lines) : Events(lines')[i] = Events(lines)[i]
      BY <1>2, <2>1, <2>3, AppendProperties
    <3>2. SUFFICES ASSUME NEW i \in 1 .. Len(lines')
                   PROVE  lines'[i].prev = SubSeq(Events(lines'), 1, i - 1)
      BY DEF Linked, Events
    <3>3. i - 1 \in 0 .. Len(Events(lines)) /\ i - 1 \in 0 .. Len(Events(lines'))
      BY <1>2, <2>2, <3>1
    <3>4. SubSeq(Events(lines'), 1, i - 1) = SubSeq(Events(lines), 1, i - 1)
      <4> DEFINE a == SubSeq(Events(lines'), 1, i - 1)
                 b == SubSeq(Events(lines), 1, i - 1)
      <4>1. a \in Seq(Event) /\ Len(a) = i - 1
            /\ \A j \in 1 .. i - 1 : a[j] = Events(lines')[j]
        BY <3>1, <3>3, CutPointwise
      <4>2. b \in Seq(Event) /\ Len(b) = i - 1
            /\ \A j \in 1 .. i - 1 : b[j] = Events(lines)[j]
        BY <1>2, <3>3, CutPointwise
      <4>3. \A j \in 1 .. i - 1 : Events(lines')[j] = Events(lines)[j]
        BY <1>2, <3>1, <3>3
      <4> HIDE DEF a, b
      <4>4. a = b
        BY <4>1, <4>2, <4>3, SeqEqual
      <4>5. QED
        BY <4>4 DEF a, b
    <3>5. CASE i \in 1 .. Len(lines)
      BY <1>8, <2>2, <3>4, <3>5 DEF Linked
    <3>6. CASE i = Len(lines) + 1
      <4>1. SubSeq(Events(lines), 1, i - 1) = Events(lines)
        BY <1>2, <3>6, SubSeqFull
      <4>2. QED
        BY <2>1, <2>2, <3>4, <3>6, <4>1
    <3>7. QED
      BY <1>2, <2>2, <3>5, <3>6
  <2>9. DurableInv'
    <3>1. published \in Seq(Event) /\ IsPrefix(published, Events(lines)')
      BY <1>1, <1>2, <2>1, <2>4, AppendExtends DEF TypeOK, Hash
    <3>2. QED
      BY <1>8, <1>14, <3>1 DEF DurableInv, WriteLine
  <2>10. ReaderInv'
    BY <1>8, <1>14 DEF WriteLine, ReaderInv
  <2>11. QED
    BY <1>4, <2>7, <2>8, <2>9, <2>10 DEF IInv
<1>15. ASSUME Sync(w) PROVE IInv'
  <2>1. StageInv'
    BY <1>5, <1>6, <1>7, <1>15 DEF StageInv, WriterInv, Sync, GoTo
  <2>2. (Linked /\ ReaderInv)'
    BY <1>8, <1>15 DEF Sync, Linked, ReaderInv, readers
  <2>3. Len(published) <= Len(lines)
    BY <1>1, <1>2, <1>8, PrefixPointwise DEF DurableInv, TypeOK, Hash
  <2>4. DurableInv'
    BY <1>8, <1>15, <2>3 DEF DurableInv, Sync
  <2>5. QED
    BY <1>4, <2>1, <2>2, <2>4 DEF IInv
<1>16. ASSUME Replace(w) PROVE IInv'
  <2> DEFINE h == HashOf(pending[w])
  <2>1. /\ pending[w] \in Line
        /\ published = pending[w].prev
        /\ chain = CheckpointOf(published)
        /\ h = Events(lines)
        /\ synced = Len(lines)
        /\ ~torn
    BY <1>6, <1>16 DEF WriterInv, Replace
  <2>2. h \in Seq(Event) /\ h # <<>>
    BY <2>1, HashOfType DEF Hash
  <2>3. lines # <<>>
    <3>1. Len(h) # 0
      BY <2>2, EmptySeq
    <3>2. QED
      BY <1>2, <2>1, <3>1, EmptySeq
  <2>4. chain' = h /\ published' = h /\ durable' = durable \union {h}
        /\ stage' = [stage EXCEPT ![w] = "replaced"]
    BY <1>16 DEF Replace, GoTo
  <2>5. WriterInv(w)'
    <3>1. /\ stage'[w] = "replaced" /\ lock = w
          /\ pending' = pending /\ lines' = lines /\ synced' = synced
          /\ lock' = lock /\ torn' = torn
      BY <1>5, <1>6, <1>16, <2>4 DEF WriterInv, Replace
    <3>2. Events(lines)' = Events(lines)
      BY <3>1 DEF Events
    <3>3. QED
      BY <2>1, <2>3, <2>4, <3>1, <3>2 DEF WriterInv
  <2>6. \A v \in Writer : v # w => stage'[v] = "idle"
    BY <1>5, <1>7, <1>16, <2>4 DEF Replace
  <2>7. StageInv'
    BY <2>5, <2>6 DEF StageInv, WriterInv
  <2>8. Linked'
    BY <1>8, <1>16 DEF Linked, Replace
  <2>9. published \in Seq(Event) /\ IsPrefix(published, h)
    BY <1>1, <2>1, LineFields, AppendExtends DEF HashOf, TypeOK
  <2>10. \A s \in Seq(Event) : IsPrefix(s, published) => IsPrefix(s, h)
    BY <2>2, <2>9, PrefixTransitive
  <2>11. DurableInv'
    <3>1. \A c \in durable' : c # NoCheckpoint => IsPrefix(c, published')
      <4>1. SUFFICES ASSUME NEW c \in durable', c # NoCheckpoint
                     PROVE  IsPrefix(c, h)
        BY <2>4
      <4>2. CASE c = h
        BY <2>2, <4>2, PrefixReflexive
      <4>3. CASE c \in durable
        BY <1>1, <1>8, <2>10, <4>1, <4>3 DEF DurableInv, TypeOK, Hash
      <4>4. QED
        BY <2>4, <4>2, <4>3
    <3>2. IsPrefix(published', Events(lines)')
      BY <1>16, <2>1, <2>2, <2>4, PrefixReflexive DEF Replace, Events
    <3>3. Len(published') <= synced'
      BY <1>2, <1>16, <2>1, <2>4 DEF Replace
    <3>4. acked' # <<>> => \A c \in durable' : c # NoCheckpoint /\ IsPrefix(acked', c)
      <4>1. SUFFICES ASSUME acked # <<>>, NEW c \in durable'
                     PROVE  c # NoCheckpoint /\ IsPrefix(acked, c)
        BY <1>16 DEF Replace
      <4>2. CASE c \in durable
        BY <1>8, <4>1, <4>2 DEF DurableInv
      <4>3. CASE c = h
        <5>1. chain # NoCheckpoint /\ IsPrefix(acked, chain)
          BY <1>8, <4>1 DEF DurableInv
        <5>2. chain = published
          BY <2>1, <5>1 DEF CheckpointOf
        <5>3. IsPrefix(acked, h)
          BY <1>1, <2>10, <5>1, <5>2 DEF TypeOK, Hash
        <5>4. h # NoCheckpoint
          BY <2>2
        <5>5. QED
          BY <4>3, <5>3, <5>4
      <4>4. QED
        BY <2>4, <4>2, <4>3
    <3>5. chain' \in durable'
      BY <2>4
    <3>6. QED
      BY <3>1, <3>2, <3>3, <3>4, <3>5 DEF DurableInv
  <2>12. ReaderInv'
    <3>1. SUFFICES ASSUME NEW r \in Reader
                   PROVE  /\ IsPrefix(view[r], h)
                          /\ (phase[r] = "checkpoint" /\ snap[r].chain # NoCheckpoint)
                                => IsPrefix(snap[r].chain, h) /\ h # NoCheckpoint
      BY <1>16, <2>4 DEF ReaderInv, Replace
    <3>2. IsPrefix(view[r], h)
      BY <1>1, <1>8, <2>10 DEF ReaderInv, TypeOK, Hash
    <3>3. snap[r].chain \in Hash \union {NoCheckpoint}
      BY <1>1 DEF TypeOK, Snapshot
    <3>4. h # NoCheckpoint
      BY <2>2
    <3>5. QED
      BY <1>8, <2>10, <3>2, <3>3, <3>4 DEF ReaderInv, Hash
  <2>13. QED
    BY <1>4, <2>7, <2>8, <2>11, <2>12 DEF IInv
<1>17. ASSUME Return(w) PROVE IInv'
  <2>1. StageInv'
    BY <1>5, <1>6, <1>7, <1>17 DEF StageInv, WriterInv, Return, GoTo
  <2>2. (Linked /\ ReaderInv)'
    BY <1>8, <1>17 DEF Return, Linked, ReaderInv, readers
  <2>3. chain = Events(lines)
    BY <1>6, <1>17 DEF WriterInv, Return
  <2>4. chain \in Seq(Event) /\ chain # NoCheckpoint /\ IsPrefix(chain, chain)
    BY <1>2, <2>3, PrefixReflexive
  <2>5. DurableInv'
    BY <1>8, <1>17, <2>4 DEF DurableInv, Return
  <2>6. QED
    BY <1>4, <2>1, <2>2, <2>5 DEF IInv
<1>18. QED
  BY <1>9, <1>10, <1>11, <1>12, <1>13, <1>14, <1>15, <1>16, <1>17 DEF WriterStep

\* Every step of a reader keeps IInv.
LEMMA ReaderIInv ==
  ASSUME IInv, NEW r \in Reader, ReadEvents(r) \/ ReaderStep(r)
  PROVE  IInv'
<1>1. TypeOK /\ StageInv /\ Linked /\ DurableInv /\ ReaderInv
  BY DEF IInv
<1>2. TypeOK'
  BY <1>1, ReaderTypeOK
<1>3. UNCHANGED <<files, writers, published, acked>>
  BY DEF ReadEvents, ReaderStep, ReadCheckpoint, Accept, Retry, Refuse
<1>4. StageInv'
  BY <1>1, <1>3 DEF StageInv, WriterInv, Events, files, writers
<1>5. (Linked /\ DurableInv)'
  BY <1>1, <1>3 DEF Linked, DurableInv, Events, files
<1>6. /\ phase \in [Reader -> {"idle", "events", "checkpoint", "retry"}]
      /\ snap \in [Reader -> Snapshot] /\ view \in [Reader -> Hash]
  BY <1>1 DEF TypeOK
<1>7. published' = published /\ chain' = chain
  BY <1>3 DEF files
<1>8. ASSUME ReadEvents(r) PROVE ReaderInv'
  BY <1>1, <1>6, <1>7, <1>8 DEF ReadEvents, ReaderInv
<1>9. ASSUME ReadCheckpoint(r) PROVE ReaderInv'
  <2>1. chain # NoCheckpoint => IsPrefix(chain, published)
    BY <1>1 DEF DurableInv
  <2>2. snap'[r].chain = chain /\ view' = view
    BY <1>6, <1>9 DEF ReadCheckpoint, Snapshot
  <2>3. \A q \in Reader : q # r => snap'[q] = snap[q] /\ phase'[q] = phase[q]
    BY <1>6, <1>9 DEF ReadCheckpoint
  <2>4. chain # NoCheckpoint => IsPrefix(chain, chain)
    BY <1>1, PrefixReflexive DEF TypeOK, Hash
  <2>5. QED
    BY <1>1, <1>7, <2>1, <2>2, <2>3, <2>4 DEF ReaderInv
<1>10. ASSUME Accept(r) PROVE ReaderInv'
  <2>1. snap[r].lines \in Seq(Line) /\ snap[r].chain = LastHash(snap[r].lines)
    BY <1>6, <1>10 DEF Accept, SnapshotGood, Verifies, Snapshot
  <2>2. snap[r].chain \in Seq(Event)
    BY <2>1, LastHashType DEF Hash
  <2>3. snap[r].chain # NoCheckpoint
    BY <2>2
  <2>4. IsPrefix(snap[r].chain, published)
    BY <1>1, <1>10, <2>3 DEF ReaderInv, Accept
  <2>5. QED
    BY <1>1, <1>6, <1>7, <1>10, <2>4 DEF ReaderInv, Accept
<1>11. ASSUME Retry(r) PROVE ReaderInv'
  BY <1>1, <1>6, <1>7, <1>11 DEF Retry, ReaderInv
<1>12. ASSUME Refuse(r) PROVE ReaderInv'
  BY <1>1, <1>6, <1>7, <1>12 DEF Refuse, ReaderInv
<1>13. ReaderInv'
  BY <1>8, <1>9, <1>10, <1>11, <1>12 DEF ReaderStep
<1>14. QED
  BY <1>2, <1>4, <1>5, <1>13 DEF IInv

\* A power failure keeps IInv: what is cut off was neither flushed nor published.
LEMMA PowerLossIInv ==
  ASSUME IInv, PowerLoss
  PROVE  IInv'
<1>1. TypeOK /\ StageInv /\ Linked /\ DurableInv /\ ReaderInv
  BY DEF IInv
<1>2. TypeOK'
  BY <1>1, PowerLossTypeOK
<1>3. PICK n \in synced .. Len(lines) : lines' = SubSeq(lines, 1, n) /\ synced' = n
  BY DEF PowerLoss
<1>4. /\ n \in 0 .. Len(lines) /\ Len(lines) \in Nat
      /\ Events(lines) \in Seq(Event) /\ Len(Events(lines)) = Len(lines)
  BY <1>1, EventsType, LenProperties DEF TypeOK, Hash
<1>5. /\ Len(lines') = n
      /\ \A i \in 1 .. n : lines'[i] = lines[i]
  BY <1>1, <1>3, <1>4, CutPointwise DEF TypeOK
<1>6. Events(lines') = SubSeq(Events(lines), 1, n)
  BY <1>1, <1>3, <1>4, EventsCut DEF TypeOK
<1>7. Events(lines)' = SubSeq(Events(lines), 1, n)
  BY <1>6 DEF Events
<1>8. StageInv'
  BY DEF PowerLoss, StageInv, WriterInv
<1>9. Linked'
  <2>1. SUFFICES ASSUME NEW i \in 1 .. n
                 PROVE  lines'[i].prev = SubSeq(Events(lines'), 1, i - 1)
    BY <1>5 DEF Linked, Events
  <2>2. i - 1 \in 0 .. n /\ i \in 1 .. Len(lines) /\ n \in 0 .. Len(Events(lines))
    BY <1>4
  <2>3. lines'[i].prev = SubSeq(Events(lines), 1, i - 1)
    BY <1>1, <1>5, <2>2 DEF Linked
  <2>4. SubSeq(SubSeq(Events(lines), 1, n), 1, i - 1) = SubSeq(Events(lines), 1, i - 1)
    BY <1>4, <2>2, CutOfCut
  <2>5. QED
    BY <1>6, <2>3, <2>4
<1>10. published \in Seq(Event) /\ published' = published /\ acked' = acked
  BY <1>1 DEF PowerLoss, TypeOK, Hash
<1>11. IsPrefix(published, Events(lines)')
  <2>1. Len(published) <= n /\ n \in 0 .. Len(Events(lines))
    BY <1>1, <1>4, <1>10, LenProperties DEF DurableInv, TypeOK
  <2>2. QED
    BY <1>1, <1>4, <1>7, <1>10, <2>1, PrefixCut DEF DurableInv
<1>12. Len(published) <= synced'
  BY <1>1, <1>3, <1>4, <1>10, LenProperties DEF DurableInv, TypeOK
<1>13. DurableInv'
  BY <1>1, <1>10, <1>11, <1>12 DEF DurableInv, PowerLoss
<1>14. ReaderInv'
  BY <1>1, <1>10 DEF ReaderInv, PowerLoss
<1>15. QED
  BY <1>2, <1>8, <1>9, <1>13, <1>14 DEF IInv

\* IInv is inductive.
LEMMA NextIInv == IInv /\ [Next]_vars => IInv'
<1> SUFFICES ASSUME IInv, [Next]_vars PROVE IInv'
  OBVIOUS
<1>1. CASE Next
  BY <1>1, WriterIInv, ReaderIInv, PowerLossIInv DEF Next
<1>2. CASE UNCHANGED vars
  BY <1>2 DEF vars, files, writers, readers, IInv, TypeOK, StageInv, WriterInv,
              Linked, DurableInv, ReaderInv, Events
<1>3. QED
  BY <1>1, <1>2

\* The inductive invariant holds in every reachable state.
THEOREM Inductive == Spec => []IInv
<1>1. QED
  BY InitIInv, NextIInv, PTL DEF Spec

-----------------------------------------------------------------------------
(* The properties of the store.                                            *)

\* Every variable keeps its type.
THEOREM TypeCorrect == Spec => []TypeOK
<1>1. IInv => TypeOK
  BY DEF IInv
<1>2. QED
  BY <1>1, Inductive, PTL

\* The prefixes the three safety invariants speak of, in one state.
LEMMA PublishedPrefixes ==
  ASSUME IInv
  PROVE  /\ CheckpointNeverAhead
         /\ AckedSurvives
         /\ AcceptedSurvives
<1>1. TypeOK /\ DurableInv /\ ReaderInv
  BY DEF IInv
<1>2. Events(lines) \in Seq(Event) /\ published \in Seq(Event) /\ acked \in Seq(Event)
  BY <1>1, EventsType DEF TypeOK, Hash
<1>3. \A s \in Seq(Event) : IsPrefix(s, published) => IsPrefix(s, Events(lines))
  BY <1>1, <1>2, PrefixTransitive DEF DurableInv
<1>4. chain # NoCheckpoint => chain \in Seq(Event) /\ IsPrefix(chain, published)
  BY <1>1 DEF TypeOK, DurableInv, Hash
<1>5. CheckpointNeverAhead
  BY <1>3, <1>4 DEF CheckpointNeverAhead
<1>6. AckedSurvives
  <2>1. SUFFICES ASSUME acked # <<>>
                 PROVE  /\ IsPrefix(acked, Events(lines))
                        /\ chain # NoCheckpoint
                        /\ IsPrefix(acked, chain)
    BY DEF AckedSurvives
  <2>2. chain # NoCheckpoint /\ IsPrefix(acked, chain)
    BY <1>1, <2>1 DEF DurableInv
  <2>3. IsPrefix(chain, Events(lines)) /\ chain \in Seq(Event)
    BY <1>3, <1>4, <2>2
  <2>4. QED
    BY <1>2, <2>2, <2>3, PrefixTransitive
<1>7. AcceptedSurvives
  BY <1>1, <1>3 DEF AcceptedSurvives, ReaderInv, TypeOK, Hash
<1>8. QED
  BY <1>5, <1>6, <1>7

\* The checkpoint never gets ahead of events.jsonl, in memory or on disk.
THEOREM CheckpointSafe == Spec => []CheckpointNeverAhead
BY PublishedPrefixes, Inductive, PTL

\* What append acknowledged survives every crash and power failure.
THEOREM AckedSafe == Spec => []AckedSurvives
BY PublishedPrefixes, Inductive, PTL

\* What a reader accepted is never contradicted.
THEOREM AcceptedSafe == Spec => []AcceptedSurvives
BY PublishedPrefixes, Inductive, PTL

\* A writer that has verified the chain and not yet written finds the files intact.
LEMMA OpenedFilesAgree ==
  ASSUME IInv, NEW w \in Writer, stage[w] = "opened"
  PROVE  FilesAgree
<1>1. /\ published = Events(lines)
      /\ chain = CheckpointOf(published)
      /\ ~torn
  BY DEF IInv, StageInv, WriterInv
<1>2. LastHash(lines) = Events(lines)
  BY LastHashIsLog DEF IInv, TypeOK, Linked
<1>3. Events(lines) \in Seq(Event) /\ Len(Events(lines)) = Len(lines)
  BY EventsType DEF IInv, TypeOK, Hash
<1>4. Events(lines) = <<>> <=> lines = <<>>
  BY <1>3, EmptySeq DEF IInv, TypeOK
<1>5. QED
  BY <1>1, <1>2, <1>4 DEF FilesAgree, CheckpointOf

\* A step from a damaged store forgets lines at most and publishes nothing.
LEMMA DamagedStep ==
  ASSUME IInv, Damaged, Next
  PROVE  /\ IsPrefix(lines', lines)
         /\ chain' \in durable
         /\ published' = published
<1>1. TypeOK /\ chain \in durable /\ lines \in Seq(Line)
  BY DEF IInv, TypeOK, DurableInv
<1>2. IsPrefix(lines, lines)
  BY <1>1, PrefixReflexive
<1>3. \A w \in Writer : stage[w] \notin {"opened", "partial", "written", "synced"}
  BY OpenedFilesAgree DEF Damaged, MidAppend
<1>4. ASSUME NEW w \in Writer,
             \/ Acquire(w) \/ Release(w) \/ Abandon(w) \/ WriterStep(w)
             \/ \E e \in Event : Open(w, e)
      PROVE  lines' = lines /\ chain' = chain /\ published' = published
  BY <1>3, <1>4 DEF Acquire, Release, Abandon, WriterStep, Open, WritePart, WriteLine,
                   Sync, Replace, Return, files
<1>5. ASSUME NEW r \in Reader, ReadEvents(r) \/ ReaderStep(r)
      PROVE  lines' = lines /\ chain' = chain /\ published' = published
  BY <1>5 DEF ReadEvents, ReaderStep, ReadCheckpoint, Accept, Retry, Refuse, files
<1>6. ASSUME PowerLoss
      PROVE  IsPrefix(lines', lines) /\ chain' \in durable /\ published' = published
  <2>1. PICK n \in synced .. Len(lines) : lines' = SubSeq(lines, 1, n)
    BY <1>6 DEF PowerLoss
  <2>2. n \in 0 .. Len(lines)
    BY <1>1, LenProperties DEF TypeOK
  <2>3. QED
    BY <1>1, <1>6, <2>1, <2>2, CutIsPrefix DEF PowerLoss
<1>7. QED
  BY <1>1, <1>2, <1>4, <1>5, <1>6 DEF Next

\* ADR 0004, for every number of processes: an inconsistent store stays closed.
THEOREM FailClosed == Spec => FailsClosed
<1>1. ASSUME IInv, [Next]_vars
      PROVE  [Damaged => /\ IsPrefix(lines', lines)
                         /\ chain' \in durable
                         /\ published' = published]_vars
  BY <1>1, DamagedStep
<1>2. QED
  BY <1>1, Inductive, PTL DEF Spec, FailsClosed
-----------------------------------------------------------------------------
(* The refinement of EvidenceLog.                                          *)

\* Putting a checkpoint in place commits one event to an intact log.
LEMMA ReplaceCommits ==
  ASSUME IInv, NEW w \in Writer, Replace(w)
  PROVE  Log!Commit(pending[w].event)
<1>1. /\ pending[w] \in Line
      /\ published = pending[w].prev
      /\ HashOf(pending[w]) = Events(lines)
      /\ ~torn
  BY DEF IInv, StageInv, WriterInv, Replace
<1>2. ~Damaged
  BY DEF Replace, Damaged, MidAppend
<1>3. published' = Append(published, pending[w].event)
  BY <1>1 DEF Replace, HashOf
<1>4. LastHash(lines) = Events(lines)
  BY LastHashIsLog DEF IInv, TypeOK, Linked
<1>5. lines # <<>>
  <2>1. HashOf(pending[w]) \in Seq(Event) /\ HashOf(pending[w]) # <<>>
    BY <1>1, HashOfType DEF Hash
  <2>2. Len(Events(lines)) = Len(lines) /\ lines \in Seq(Line)
    BY EventsType DEF IInv, TypeOK
  <2>3. QED
    BY <1>1, <2>1, <2>2, EmptySeq
<1>6. FilesAgree'
  BY <1>1, <1>4, <1>5 DEF Replace, FilesAgree, LastHash
<1>7. ~Damaged'
  BY <1>6 DEF Damaged
<1>8. view' = view
  BY DEF Replace
<1>9. Damaged = FALSE /\ Damaged' = FALSE
  BY <1>2, <1>7 DEF Damaged
<1>10. QED
  BY <1>3, <1>8, <1>9 DEF Log!Commit

\* A snapshot that is accepted is the whole published log of an intact store.
LEMMA AcceptObserves ==
  ASSUME IInv, NEW r \in Reader, Accept(r)
  PROVE  Log!Observe(r)
<1>1. /\ lines # <<>> /\ ~torn
      /\ snap[r].chain = LastHash(lines)
      /\ phase[r] = "checkpoint"
  BY DEF Accept, SnapshotGood, Verifies
<1>2. LastHash(lines) = Events(lines)
  BY LastHashIsLog DEF IInv, TypeOK, Linked
<1>3. /\ lines \in Seq(Line)
      /\ Events(lines) \in Seq(Event) /\ Len(Events(lines)) = Len(lines)
      /\ published \in Seq(Event)
  BY EventsType DEF IInv, TypeOK, Hash
<1>4. snap[r].chain = Events(lines) /\ snap[r].chain # NoCheckpoint
  BY <1>1, <1>2, <1>3
<1>5. /\ IsPrefix(Events(lines), published) /\ IsPrefix(published, Events(lines))
      /\ chain # NoCheckpoint
      /\ IsPrefix(Events(lines), chain)
  BY <1>1, <1>4 DEF IInv, ReaderInv, DurableInv
<1>6. published = Events(lines)
  BY <1>3, <1>5, PrefixAntisymmetric
<1>7. chain \in Seq(Event) /\ IsPrefix(chain, Events(lines))
  BY <1>5, <1>6 DEF IInv, DurableInv, TypeOK, Hash
<1>8. chain = Events(lines)
  BY <1>3, <1>5, <1>7, PrefixAntisymmetric
<1>9. FilesAgree
  BY <1>1, <1>2, <1>8 DEF FilesAgree
<1>10. ~Damaged /\ ~Damaged'
  <2>1. UNCHANGED <<files, writers>>
    BY DEF Accept
  <2>2. Damaged' = Damaged
    BY <2>1 DEF Damaged, MidAppend, FilesAgree, LastHash, HashOf, files, writers
  <2>3. QED
    BY <1>9, <2>2 DEF Damaged
<1>11. published # <<>>
  BY <1>1, <1>3, <1>6, EmptySeq
<1>12. view' = [view EXCEPT ![r] = published] /\ published' = published
  BY <1>4, <1>6 DEF Accept
<1>13. Damaged = FALSE /\ Damaged' = FALSE
  BY <1>10 DEF Damaged
<1>14. QED
  BY <1>11, <1>12, <1>13 DEF Log!Observe

\* Every step of the store is a step of the log or changes nothing a user sees.
LEMMA StepSimulates ==
  ASSUME IInv, [Next]_vars
  PROVE  [Log!Next]_(Log!vars)
<1>1. ASSUME published' = published, view' = view
      PROVE  [Log!Next]_(Log!vars)
  <2>1. Damaged' \in BOOLEAN /\ Damaged \in BOOLEAN
    BY DEF Damaged
  <2>2. CASE Damaged' = Damaged
    BY <1>1, <2>2 DEF Log!vars
  <2>3. CASE Damaged /\ ~Damaged'
    BY <1>1, <2>3 DEF Log!Next, Log!Unseal
  <2>4. CASE ~Damaged /\ Damaged'
    BY <1>1, <2>4 DEF Log!Next, Log!Seal
  <2>5. QED
    BY <2>1, <2>2, <2>3, <2>4
<1>2. ASSUME NEW w \in Writer, Replace(w)
      PROVE  [Log!Next]_(Log!vars)
  <2>1. pending[w].event \in Event
    BY <1>2, LineFields DEF IInv, StageInv, WriterInv, Replace
  <2>2. QED
    BY <1>2, <2>1, ReplaceCommits DEF Log!Next
<1>3. ASSUME NEW r \in Reader, Accept(r)
      PROVE  [Log!Next]_(Log!vars)
  BY <1>3, AcceptObserves DEF Log!Next
<1>4. CASE UNCHANGED vars
  BY <1>1, <1>4 DEF vars, readers
<1>5. ASSUME NEW w \in Writer,
             \/ Acquire(w) \/ Release(w) \/ Abandon(w)
             \/ WritePart(w) \/ WriteLine(w) \/ Sync(w) \/ Return(w)
             \/ \E e \in Event : Open(w, e)
      PROVE  published' = published /\ view' = view
  BY <1>5 DEF Acquire, Release, Abandon, WritePart, WriteLine, Sync, Return, Open, readers
<1>6. ASSUME NEW r \in Reader,
             ReadEvents(r) \/ ReadCheckpoint(r) \/ Retry(r) \/ Refuse(r)
      PROVE  published' = published /\ view' = view
  BY <1>6 DEF ReadEvents, ReadCheckpoint, Retry, Refuse
<1>7. PowerLoss => published' = published /\ view' = view
  BY DEF PowerLoss
<1>8. QED
  BY <1>1, <1>2, <1>3, <1>4, <1>5, <1>6, <1>7 DEF Next, WriterStep, ReaderStep

\* The evidence store implements the log that the rest of the system relies on.
THEOREM Implements == Spec => ImplementsLog
<1>1. Init => Log!Init
  <2> SUFFICES ASSUME Init PROVE Log!Init
    OBVIOUS
  <2>2. FilesAgree
    BY DEF Init, FilesAgree
  <2>3. Damaged = FALSE
    BY <2>2 DEF Damaged
  <2>4. QED
    BY <2>3 DEF Init, Log!Init
<1>2. QED
  BY <1>1, StepSimulates, Inductive, PTL DEF Spec, ImplementsLog, Log!Spec

-----------------------------------------------------------------------------
(* Reads that no append overlaps.                                          *)

\* The links that verification follows are those that the writers have made.
LEMMA LinksVerify ==
  ASSUME IInv, NEW i \in 1 .. Len(lines)
  PROVE  lines[i].prev = LastHash(SubSeq(lines, 1, i - 1))
<1>. DEFINE n == i - 1
            ls == SubSeq(lines, 1, n)
<1>1. /\ lines \in Seq(Line) /\ Events(lines) \in Seq(Event) /\ Len(Events(lines)) = Len(lines)
      /\ Len(lines) \in Nat
  BY EventsType DEF IInv, TypeOK, Hash
<1>2. n \in 0 .. Len(lines) /\ \A k \in 1 .. n : k \in 1 .. Len(lines) /\ k - 1 \in 0 .. n
  BY <1>1
<1>3. lines[i].prev = SubSeq(Events(lines), 1, n)
  BY DEF IInv, Linked
<1>. HIDE DEF n
<1>4. ls \in Seq(Line) /\ Len(ls) = n /\ \A k \in 1 .. n : ls[k] = lines[k]
  BY <1>1, <1>2, CutPointwise
<1>5. Events(ls) = SubSeq(Events(lines), 1, n)
  BY <1>1, <1>2, EventsCut
<1>. HIDE DEF ls
<1>6. ASSUME NEW k \in 1 .. Len(ls) PROVE ls[k].prev = SubSeq(Events(ls), 1, k - 1)
  <2>1. k \in 1 .. n /\ k \in 1 .. Len(lines) /\ k - 1 \in 0 .. n
    BY <1>2, <1>4
  <2>2. lines[k].prev = SubSeq(Events(lines), 1, k - 1)
    BY <2>1 DEF IInv, Linked
  <2>3. SubSeq(SubSeq(Events(lines), 1, n), 1, k - 1) = SubSeq(Events(lines), 1, k - 1)
    BY <1>1, <1>2, <2>1, CutOfCut
  <2>. QED
    BY <1>4, <1>5, <2>1, <2>2, <2>3
<1>7. LastHash(ls) = Events(ls)
  BY <1>4, <1>6, LastHashIsLog
<1>. QED
  BY <1>3, <1>5, <1>7 DEF ls, n

\* A call that no change of the files has overlapped has read what the files hold.
QuietInv ==
  \A r \in Reader : phase[r] # "idle" /\ ~contended[r] =>
    /\ ~MidAppend
    /\ phase[r] \in {"events", "checkpoint"} => snap[r].lines = lines /\ snap[r].torn = torn
    /\ phase[r] = "checkpoint" => snap[r].chain = chain

\* A writer changes the files only by a step that the readers' history notes.
LEMMA QuietWriter ==
  ASSUME TypeOK, QuietInv, NEW w \in Writer,
         \/ Acquire(w) \/ Release(w) \/ Abandon(w) \/ WriterStep(w)
         \/ \E e \in Event : Open(w, e)
  PROVE  QuietInv'
<1>1. CASE WritePart(w) \/ WriteLine(w) \/ Replace(w)
  <2>1. \A r \in Reader : phase[r] # "idle" => contended'[r]
    BY <1>1 DEF WritePart, WriteLine, Replace, Disturb
  <2>2. phase' = phase
    BY <1>1 DEF WritePart, WriteLine, Replace
  <2>. QED
    BY <2>1, <2>2 DEF QuietInv
<1>2. CASE \/ Acquire(w) \/ Release(w) \/ Abandon(w) \/ Sync(w) \/ Return(w)
           \/ \E e \in Event : Open(w, e)
  <2>1. UNCHANGED <<lines, torn, chain, phase, snap, contended>>
    BY <1>2 DEF Acquire, Release, Abandon, Sync, Return, Open, files, readers
  <2>2. ~MidAppend => ~MidAppend'
    BY <1>2 DEF TypeOK, MidAppend, Acquire, Release, Abandon, Sync, Return, Open, GoTo
  <2>. QED
    BY <2>1, <2>2 DEF QuietInv
<1>. QED
  BY <1>1, <1>2 DEF WriterStep

\* A reader keeps what it has read; a new attempt starts with nothing read and nothing overlapped.
LEMMA QuietReader ==
  ASSUME TypeOK, QuietInv, NEW q \in Reader, ReadEvents(q) \/ ReaderStep(q)
  PROVE  QuietInv'
<1>1. UNCHANGED <<files, writers>>
  BY DEF ReadEvents, ReaderStep, ReadCheckpoint, Accept, Retry, Refuse
<1>2. UNCHANGED <<lines, torn, chain>> /\ MidAppend' = MidAppend
  BY <1>1 DEF files, writers, MidAppend
<1>. SUFFICES ASSUME NEW r \in Reader, phase'[r] # "idle", ~contended'[r]
              PROVE  /\ ~MidAppend
                     /\ phase'[r] \in {"events", "checkpoint"} =>
                          snap'[r].lines = lines /\ snap'[r].torn = torn
                     /\ phase'[r] = "checkpoint" => snap'[r].chain = chain
  BY <1>2 DEF QuietInv
<1>3. CASE r # q
  <2>1. phase'[r] = phase[r] /\ contended'[r] = contended[r] /\ snap'[r] = snap[r]
    BY <1>3 DEF TypeOK, ReadEvents, ReaderStep, ReadCheckpoint, Accept, Retry, Refuse
  <2>. QED
    BY <2>1 DEF QuietInv
<1>4. CASE r = q /\ ReadEvents(q)
  <2>1. /\ phase'[r] = "events" /\ (contended'[r] <=> (phase[r] = "retry" /\ contended[r]) \/ MidAppend)
        /\ snap'[r] = [lines |-> lines, torn |-> torn, chain |-> NoCheckpoint]
    BY <1>4 DEF TypeOK, ReadEvents
  <2>. QED
    BY <2>1
<1>5. CASE r = q /\ ReadCheckpoint(q)
  <2>1. /\ phase[r] = "events" /\ phase'[r] = "checkpoint" /\ contended'[r] = contended[r]
        /\ snap'[r] = [snap[r] EXCEPT !.chain = chain]
    BY <1>5 DEF TypeOK, ReadCheckpoint
  <2>2. snap[r] \in Snapshot
    BY DEF TypeOK
  <2>3. snap'[r].lines = snap[r].lines /\ snap'[r].torn = snap[r].torn /\ snap'[r].chain = chain
    BY <2>1, <2>2 DEF Snapshot
  <2>. QED
    BY <2>1, <2>3 DEF QuietInv
<1>6. CASE r = q /\ (Accept(q) \/ Refuse(q))
  <2>1. phase'[r] = "idle"
    BY <1>6 DEF TypeOK, Accept, Refuse
  <2>. QED
    BY <2>1
<1>7. CASE r = q /\ Retry(q)
  <2>1. phase[r] = "checkpoint" /\ phase'[r] = "retry" /\ contended'[r] = contended[r]
    BY <1>7 DEF TypeOK, Retry
  <2>. QED
    BY <2>1 DEF QuietInv
<1>. QED
  BY <1>3, <1>4, <1>5, <1>6, <1>7 DEF ReaderStep

\* A power failure leaves no append under way and overlaps every call.
LEMMA QuietStep == IInv /\ QuietInv /\ [Next]_vars => QuietInv'
<1>. SUFFICES ASSUME IInv, QuietInv, [Next]_vars PROVE QuietInv'
  OBVIOUS
<1>1. TypeOK
  BY DEF IInv
<1>2. CASE PowerLoss
  <2>1. \A r \in Reader : phase'[r] = "idle"
    BY <1>2 DEF PowerLoss
  <2>. QED
    BY <2>1 DEF QuietInv
<1>3. CASE UNCHANGED vars
  <2>1. UNCHANGED <<lines, torn, chain, phase, snap, contended, stage>>
    BY <1>3 DEF vars, files, writers, readers
  <2>. QED
    BY <2>1 DEF QuietInv, MidAppend
<1>. QED
  BY <1>1, <1>2, <1>3, QuietWriter, QuietReader DEF Next

\* What quiet calls have read is kept throughout.
LEMMA QuietThroughout == Spec => [](IInv /\ QuietInv)
<1>1. Init => QuietInv
  BY DEF Init, QuietInv
<1>. QED
  BY <1>1, QuietStep, Inductive, PTL DEF Spec

\* Files that agree, of which something has been published, verify.
LEMMA AgreeingVerify ==
  ASSUME IInv, FilesAgree, published # <<>>
  PROVE  Verifies(lines, torn, chain)
<1>1. /\ lines \in Seq(Line) /\ Events(lines) \in Seq(Event) /\ Len(Events(lines)) = Len(lines)
      /\ published \in Seq(Event) /\ IsPrefix(published, Events(lines))
  BY EventsType DEF IInv, TypeOK, Hash, DurableInv
<1>2. Len(published) \in Nat /\ Len(published) # 0
  BY <1>1, EmptySeq
<1>3. Len(published) <= Len(lines)
  BY <1>1, PrefixPointwise
<1>4. lines # <<>>
  BY <1>1, <1>2, <1>3, EmptySeq
<1>5. \A i \in DOMAIN lines : lines[i].prev = LastHash(SubSeq(lines, 1, i - 1))
  BY <1>1, LinksVerify
<1>. QED
  BY <1>4, <1>5 DEF Verifies, FilesAgree

\* verify_event_chain: a call that no append overlaps and that reports corruption does so of
\* files that an interruption left damaged, or before the first append returned.
THEOREM QuietReads == Spec => QuietReadsSucceed
<1>1. ASSUME IInv, QuietInv, NEW r \in Reader, Refuse(r), ~contended[r], ~Damaged
      PROVE  published = <<>>
  <2>1. /\ phase[r] = "checkpoint" /\ ~SnapshotGood(r)
    BY <1>1 DEF Refuse
  <2>2. ~MidAppend /\ snap[r].lines = lines /\ snap[r].torn = torn /\ snap[r].chain = chain
    BY <1>1, <2>1 DEF QuietInv
  <2>3. FilesAgree
    BY <1>1, <2>2 DEF Damaged
  <2>4. ~Verifies(lines, torn, chain)
    BY <2>1, <2>2 DEF SnapshotGood
  <2>. QED
    BY <1>1, <2>3, <2>4, AgreeingVerify
<1>2. IInv /\ QuietInv /\ [Next]_vars
        => [\A r \in Reader : (Refuse(r) /\ ~contended[r]) => (Damaged \/ published = <<>>)]_vars
  BY <1>1
<1>. QED
  BY <1>2, QuietThroughout, PTL DEF Spec, QuietReadsSucceed

-----------------------------------------------------------------------------
(* How long verify_event_chain can take.                                   *)

\* The steps that the current attempt of a reader still has.
LeftOfAttempt == [idle |-> 0, checkpoint |-> 1, events |-> 2, retry |-> 3]

\* The steps of a call: those of its attempt, and three for each attempt after it.
ReadsLeft(r) ==
  IF phase[r] = "idle" THEN 0
  ELSE 3 * (SnapshotAttempts - (attempt[r] + 1)) + LeftOfAttempt[phase[r]]

\* With every step of its own a call comes closer to its end, and nobody else's step takes
\* it further away from it.
ReadersGetOn ==
  [][\A r \in Reader : phase[r] # "idle" =>
       /\ ReadsLeft(r)' <= ReadsLeft(r)
       /\ ReadEvents(r) \/ ReaderStep(r) => ReadsLeft(r)' < ReadsLeft(r)]_vars

\* A call takes three steps for each of its attempts.
LEMMA ReadsRange ==
  ASSUME TypeOK, NEW r \in Reader
  PROVE  /\ ReadsLeft(r) \in 0 .. 3 * SnapshotAttempts
         /\ phase[r] # "idle" => ReadsLeft(r) > 0
<1>1. /\ attempt[r] \in 0 .. SnapshotAttempts - 1 /\ SnapshotAttempts \in Nat \ {0}
      /\ phase[r] \in {"idle", "events", "checkpoint", "retry"}
  BY EvidenceAssumption DEF TypeOK
<1>. DEFINE after == SnapshotAttempts - (attempt[r] + 1)
<1>2. after \in 0 .. SnapshotAttempts - 1
  BY <1>1
<1>3. LeftOfAttempt[phase[r]] \in 0 .. 3 /\ (phase[r] # "idle" => LeftOfAttempt[phase[r]] > 0)
  BY <1>1 DEF LeftOfAttempt
<1>4. ReadsLeft(r) = IF phase[r] = "idle" THEN 0 ELSE 3 * after + LeftOfAttempt[phase[r]]
  BY DEF ReadsLeft
<1>. HIDE DEF after
<1>. QED
  BY <1>1, <1>2, <1>3, <1>4

\* A call gets on by its own steps, by a retry too, as that uses up an attempt.
LEMMA ReaderProgress ==
  ASSUME TypeOK, NEW r \in Reader, phase[r] # "idle", ReadEvents(r) \/ ReaderStep(r)
  PROVE  ReadsLeft(r)' < ReadsLeft(r) /\ ReadsLeft(r)' <= ReadsLeft(r)
<1>1. ReadsLeft(r) \in Nat /\ ReadsLeft(r) > 0
  BY ReadsRange
<1>2. /\ attempt[r] \in 0 .. SnapshotAttempts - 1 /\ SnapshotAttempts \in Nat \ {0}
      /\ phase \in [Reader -> {"idle", "events", "checkpoint", "retry"}]
      /\ attempt \in [Reader -> 0 .. SnapshotAttempts - 1]
  BY EvidenceAssumption DEF TypeOK
<1>3. CASE ReadEvents(r)
  <2>1. phase[r] = "retry" /\ phase'[r] = "events" /\ attempt' = attempt
    BY <1>2, <1>3 DEF ReadEvents
  <2>. QED
    BY <1>2, <2>1 DEF ReadsLeft, LeftOfAttempt
<1>4. CASE ReadCheckpoint(r)
  <2>1. phase[r] = "events" /\ phase'[r] = "checkpoint" /\ attempt' = attempt
    BY <1>2, <1>4 DEF ReadCheckpoint
  <2>. QED
    BY <1>2, <2>1 DEF ReadsLeft, LeftOfAttempt
<1>5. CASE Accept(r) \/ Refuse(r)
  <2>1. phase'[r] = "idle"
    BY <1>2, <1>5 DEF Accept, Refuse
  <2>2. ReadsLeft(r)' = 0
    BY <2>1 DEF ReadsLeft
  <2>. QED
    BY <1>1, <2>2
<1>6. CASE Retry(r)
  <2>1. /\ phase[r] = "checkpoint" /\ phase'[r] = "retry" /\ attempt'[r] = attempt[r] + 1
        /\ attempt[r] + 1 < SnapshotAttempts
    BY <1>2, <1>6 DEF Retry
  <2>. QED
    BY <1>2, <2>1 DEF ReadsLeft, LeftOfAttempt
<1>. QED
  BY <1>3, <1>4, <1>5, <1>6 DEF ReaderStep

\* Nobody else moves a reader, but a power failure, which ends its call.
LEMMA ReaderUndisturbed ==
  ASSUME TypeOK, NEW r \in Reader, [Next]_vars, ~(ReadEvents(r) \/ ReaderStep(r))
  PROVE  ReadsLeft(r)' <= ReadsLeft(r)
<1>1. ReadsLeft(r) \in Nat
  BY ReadsRange
<1>2. CASE phase'[r] = phase[r] /\ attempt'[r] = attempt[r]
  <2>1. ReadsLeft(r)' = ReadsLeft(r)
    BY <1>2 DEF ReadsLeft
  <2>. QED
    BY <1>1, <2>1
<1>3. CASE PowerLoss
  <2>1. ReadsLeft(r)' = 0
    BY <1>3 DEF PowerLoss, ReadsLeft
  <2>. QED
    BY <1>1, <2>1
<1>4. ASSUME NEW q \in Reader, q # r, ReadEvents(q) \/ ReaderStep(q)
      PROVE  phase'[r] = phase[r] /\ attempt'[r] = attempt[r]
  BY <1>4 DEF TypeOK, ReadEvents, ReaderStep, ReadCheckpoint, Accept, Retry, Refuse
<1>5. ASSUME NEW w \in Writer,
             \/ Acquire(w) \/ Release(w) \/ Abandon(w) \/ WriterStep(w)
             \/ \E e \in Event : Open(w, e)
      PROVE  UNCHANGED <<phase, attempt>>
  BY <1>5 DEF Acquire, Release, Abandon, WriterStep, WritePart, WriteLine, Sync, Replace,
              Return, Open, Disturb, readers
<1>6. CASE UNCHANGED vars
  BY <1>2, <1>6 DEF vars, readers
<1>. QED
  BY <1>2, <1>3, <1>4, <1>5, <1>6 DEF Next

\* verify_event_chain: a call ends after at most three steps for each of its attempts,
\* however many appends it races with: each of its steps brings it closer to its end, and no
\* append, no other reader and no crash takes it further away.
THEOREM ReadsAreBounded ==
  Spec => ReadersGetOn /\ [](\A r \in Reader : ReadsLeft(r) \in 0 .. 3 * SnapshotAttempts)
<1>1. ASSUME TypeOK, [Next]_vars, NEW r \in Reader, phase[r] # "idle"
      PROVE  /\ ReadsLeft(r)' <= ReadsLeft(r)
             /\ ReadEvents(r) \/ ReaderStep(r) => ReadsLeft(r)' < ReadsLeft(r)
  BY <1>1, ReaderProgress, ReaderUndisturbed
<1>2. TypeOK /\ [Next]_vars =>
        [\A r \in Reader : phase[r] # "idle" =>
           /\ ReadsLeft(r)' <= ReadsLeft(r)
           /\ ReadEvents(r) \/ ReaderStep(r) => ReadsLeft(r)' < ReadsLeft(r)]_vars
  BY <1>1
<1>3. TypeOK => \A r \in Reader : ReadsLeft(r) \in 0 .. 3 * SnapshotAttempts
  BY ReadsRange
<1>. QED
  BY <1>2, <1>3, TypeCorrect, PTL DEF Spec, ReadersGetOn
=============================================================================
