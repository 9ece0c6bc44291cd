-------------------------- MODULE FlashQueueProofs --------------------------
(***************************************************************************)
(* What the operations of FlashQueue do to the contents of a disk: which   *)
(* version of a file is read and which versions a power cut may leave.     *)
(***************************************************************************)
EXTENDS FlashQueue, SequenceTheorems, FiniteSetTheorems, TLAPS

\* A file that is written holds the new contents, a power cut may leave them
\* or any version it might have left before, and no other file is touched
\* (file_put_data).
LEMMA PutDisk ==
    ASSUME NEW C, NEW d, IsDisk(d, C), NEW f \in DOMAIN C, NEW v \in C[f]
    PROVE  LET e == Put(d, f, v)
           IN  /\ IsDisk(e, C)
               /\ Read(e, f) = v
               /\ Copies(e, f) = Copies(d, f) \cup {v}
               /\ \A g \in DOMAIN C \ {f} : /\ Read(e, g) = Read(d, g)
                                            /\ Copies(e, g) = Copies(d, g)
               /\ e.flash = d.flash
<1> DEFINE e == Put(d, f, v)
           q == d.pending[f]
<1>1. q \in Seq(C[f]) /\ d.order \in Seq(DOMAIN C)
  BY DEF IsDisk
<1>2. /\ Append(q, v) \in Seq(C[f])
      /\ Append(q, v) # <<>>
      /\ Len(Append(q, v)) = Len(q) + 1
      /\ Append(q, v)[Len(q) + 1] = v
      /\ \A i \in 1..Len(q) : Append(q, v)[i] = q[i]
      /\ DOMAIN Append(q, v) = 1..(Len(q) + 1)
      /\ DOMAIN q = 1..Len(q)
      /\ Len(q) \in Nat
  BY <1>1
<1>3. /\ e.flash = d.flash
      /\ DOMAIN e.pending = DOMAIN C
      /\ e.pending = [g \in DOMAIN C |-> e.pending[g]]
      /\ e.pending[f] = Append(q, v)
      /\ \A g \in DOMAIN C \ {f} : e.pending[g] = d.pending[g]
      /\ e.order = IF InOrder THEN Append(d.order, f) ELSE d.order
      /\ e = [flash |-> e.flash, pending |-> e.pending, order |-> e.order]
  BY DEF IsDisk, Put
<1>4. e.order \in Seq(DOMAIN C)
  <2>1. Append(d.order, f) \in Seq(DOMAIN C)
    BY <1>1, AppendProperties
  <2> QED BY <1>1, <1>3, <2>1
<1>5. IsDisk(e, C)
  BY <1>2, <1>3, <1>4 DEF IsDisk
<1>6. Read(e, f) = v
  BY <1>2, <1>3 DEF Read, Last
<1>7. Copies(e, f) = Copies(d, f) \cup {v}
  <2>1. {Append(q, v)[i] : i \in 1..(Len(q) + 1)} = {q[i] : i \in 1..Len(q)} \cup {v}
    BY <1>2
  <2> DEFINE p == Append(q, v)
  <2>2. Copies(e, f) = {d.flash[f]} \cup {p[i] : i \in 1..(Len(q) + 1)}
    <3>1. e.pending[f] = p /\ e.flash = d.flash /\ DOMAIN p = 1..(Len(q) + 1)
      BY <1>2, <1>3
    <3> HIDE DEF p
    <3> QED BY <3>1 DEF Copies
  <2>3. Copies(d, f) = {d.flash[f]} \cup {q[i] : i \in 1..Len(q)}
    BY <1>2 DEF Copies
  <2> QED BY <2>1, <2>2, <2>3
<1>8. \A g \in DOMAIN C \ {f} : Read(e, g) = Read(d, g) /\ Copies(e, g) = Copies(d, g)
  BY <1>3 DEF Read, Copies
<1> QED BY <1>3, <1>5, <1>6, <1>7, <1>8

\* A write that reaches the flash changes nothing a handler reads, and a
\* power cut can leave nothing new.
LEMMA DrainedDisk ==
    ASSUME NEW C, NEW d, IsDisk(d, C), NEW f \in DOMAIN C, CanDrain(d, f)
    PROVE  LET e == Drained(d, f)
           IN  /\ IsDisk(e, C)
               /\ \A g \in DOMAIN C : /\ Read(e, g) = Read(d, g)
                                      /\ Copies(e, g) \subseteq Copies(d, g)
<1> DEFINE e == Drained(d, f)
           q == d.pending[f]
<1>1. q \in Seq(C[f]) /\ q # <<>> /\ d.order \in Seq(DOMAIN C)
  BY DEF IsDisk, CanDrain
<1>2. /\ Tail(q) \in Seq(C[f])
      /\ Head(q) = q[1]
      /\ Head(q) \in C[f]
      /\ Len(q) \in Nat
      /\ Len(q) >= 1
      /\ Len(Tail(q)) = Len(q) - 1
      /\ Tail(q) = <<>> <=> Len(q) = 1
      /\ \A i \in 1..(Len(q) - 1) : Tail(q)[i] = q[i + 1]
      /\ DOMAIN Tail(q) = 1..(Len(q) - 1)
      /\ DOMAIN q = 1..Len(q)
  <2>1. /\ Tail(q) \in Seq(C[f])
        /\ Head(q) \in C[f]
        /\ Len(Tail(q)) = Len(q) - 1
        /\ \A i \in 1..Len(Tail(q)) : Tail(q)[i] = q[i + 1]
    BY <1>1, HeadTailProperties
  <2>2. Len(q) \in Nat \ {0} /\ DOMAIN q = 1..Len(q) /\ Head(q) = q[1]
    BY <1>1, EmptySeq
  <2>3. DOMAIN Tail(q) = 1..Len(Tail(q))
    BY <2>1
  <2>4. Tail(q) = <<>> <=> Len(Tail(q)) = 0
    BY <2>1, EmptySeq
  <2> QED BY <2>1, <2>2, <2>3, <2>4
<1>3. /\ e.flash[f] = Head(q)
      /\ e.flash = [g \in DOMAIN C |-> e.flash[g]]
      /\ e.pending = [g \in DOMAIN C |-> e.pending[g]]
      /\ e.pending[f] = Tail(q)
      /\ \A g \in DOMAIN C \ {f} : e.pending[g] = d.pending[g] /\ e.flash[g] = d.flash[g]
      /\ e.order = IF InOrder THEN Tail(d.order) ELSE d.order
      /\ e = [flash |-> e.flash, pending |-> e.pending, order |-> e.order]
  BY DEF IsDisk, Drained
<1>4. e.order \in Seq(DOMAIN C)
  <2>1. CASE InOrder
    <3>1. d.order # <<>>
      BY <2>1 DEF CanDrain
    <3>2. Tail(d.order) \in Seq(DOMAIN C)
      BY <1>1, <3>1, HeadTailProperties
    <3> QED BY <1>3, <2>1, <3>2
  <2>2. CASE ~InOrder
    BY <1>1, <1>3, <2>2
  <2> QED BY <2>1, <2>2
<1>5. IsDisk(e, C)
  BY <1>2, <1>3, <1>4, ZenonT(120) DEF IsDisk
<1>6. Read(e, f) = Read(d, f)
  <2>1. CASE Len(q) = 1
    BY <1>1, <1>2, <1>3, <2>1 DEF Read, Last
  <2>2. CASE Len(q) # 1
    <3>1. Len(q) - 1 \in 1..(Len(q) - 1) /\ Tail(q) # <<>>
      BY <1>2, <2>2
    <3>2. Tail(q)[Len(q) - 1] = q[(Len(q) - 1) + 1]
      BY <1>2, <3>1
    <3>3. Last(Tail(q)) = Last(q)
      <4>1. (Len(q) - 1) + 1 = Len(q) /\ Len(Tail(q)) = Len(q) - 1
        BY <1>2
      <4> HIDE DEF q
      <4> QED BY <3>2, <4>1 DEF Last
    <3> QED BY <1>1, <1>3, <3>1, <3>3 DEF Read
  <2> QED BY <2>1, <2>2
<1>7. Copies(e, f) \subseteq Copies(d, f)
  <2>1. \A i \in 1..(Len(q) - 1) : \E j \in 1..Len(q) : Tail(q)[i] = q[j]
    BY <1>2
  <2>2. Head(q) = q[1] /\ 1 \in 1..Len(q)
    BY <1>2
  <2>3. Copies(e, f) = {Head(q)} \cup {Tail(q)[i] : i \in 1..(Len(q) - 1)}
    <3>1. e.flash[f] = Head(q) /\ e.pending[f] = Tail(q)
      BY <1>3
    <3>2. DOMAIN Tail(q) = 1..(Len(q) - 1)
      BY <1>2
    <3> HIDE DEF e, q
    <3> QED BY <3>1, <3>2 DEF Copies
  <2>4. Copies(d, f) = {d.flash[f]} \cup {q[i] : i \in 1..Len(q)}
    BY <1>2 DEF Copies
  <2> QED BY <2>1, <2>2, <2>3, <2>4
<1>8. \A g \in DOMAIN C \ {f} : Read(e, g) = Read(d, g) /\ Copies(e, g) = Copies(d, g)
  BY <1>3 DEF Read, Copies
<1> QED BY <1>5, <1>6, <1>7, <1>8

\* A disk with nothing to write reads, and keeps through a power cut,
\* exactly its contents.
LEMMA SettledDisk ==
    ASSUME NEW C, NEW c, c = [f \in DOMAIN C |-> c[f]],
           \A f \in DOMAIN C : c[f] \in C[f]
    PROVE  LET e == Settled(c)
           IN  /\ IsDisk(e, C)
               /\ \A f \in DOMAIN C : Read(e, f) = c[f] /\ Copies(e, f) = {c[f]}
<1> DEFINE e == Settled(c)
<1>1. /\ e.flash = c
      /\ e.pending = [f \in DOMAIN C |-> <<>>]
      /\ e.order = <<>>
      /\ e = [flash |-> e.flash, pending |-> e.pending, order |-> e.order]
  BY DEF Settled
<1>2. IsDisk(e, C)
  <2>1. /\ \A f \in DOMAIN C : e.flash[f] \in C[f]
        /\ \A f \in DOMAIN C : e.pending[f] \in Seq(C[f])
    BY <1>1, EmptySeq
  <2>2. /\ e.flash = [f \in DOMAIN C |-> e.flash[f]]
        /\ e.pending = [f \in DOMAIN C |-> e.pending[f]]
    BY <1>1
  <2>3. e.order \in Seq(DOMAIN C)
    BY <1>1, EmptySeq
  <2> HIDE DEF e
  <2> QED BY <1>1, <2>1, <2>2, <2>3 DEF IsDisk
<1>3. \A f \in DOMAIN C : Read(e, f) = c[f]
  BY <1>1 DEF Read
<1>4. ASSUME NEW f \in DOMAIN C PROVE Copies(e, f) = {c[f]}
  <2>1. e.pending[f] = <<>> /\ DOMAIN e.pending[f] = {}
    BY <1>1
  <2> QED BY <1>1, <2>1 DEF Copies
<1> QED BY <1>2, <1>3, <1>4

\* After a power cut every file holds one of the versions it could leave.
LEMMA CrashedDisk ==
    ASSUME NEW C, NEW d, IsDisk(d, C)
    PROVE  LET e == Crashed(d)
           IN  /\ IsDisk(e, C)
               /\ \A f \in DOMAIN C : /\ Read(e, f) = d.flash[f]
                                      /\ Read(e, f) \in Copies(d, f)
                                      /\ Copies(e, f) \subseteq Copies(d, f)
<1>1. /\ d.flash = [f \in DOMAIN C |-> d.flash[f]]
      /\ \A f \in DOMAIN C : d.flash[f] \in C[f]
  BY DEF IsDisk
<1>2. /\ IsDisk(Crashed(d), C)
      /\ \A f \in DOMAIN C : /\ Read(Crashed(d), f) = d.flash[f]
                             /\ Copies(Crashed(d), f) = {d.flash[f]}
  BY <1>1, SettledDisk DEF Crashed
<1> QED BY <1>2 DEF Copies

\* What is read is one of the versions a power cut may leave, and every such
\* version is one the file may hold.
LEMMA ReadIsCopy ==
    ASSUME NEW C, NEW d, IsDisk(d, C), NEW f \in DOMAIN C
    PROVE  /\ Read(d, f) \in Copies(d, f)
           /\ Copies(d, f) \subseteq C[f]
<1> DEFINE q == d.pending[f]
<1>1. q \in Seq(C[f]) /\ d.flash[f] \in C[f]
  BY DEF IsDisk
<1>2. DOMAIN q = 1..Len(q) /\ \A i \in 1..Len(q) : q[i] \in C[f]
  BY <1>1
<1>3. CASE q = <<>>
  BY <1>1, <1>2, <1>3 DEF Read, Copies
<1>4. CASE q # <<>>
  <2>1. Len(q) \in 1..Len(q)
    BY <1>1, <1>4
  <2> QED BY <1>1, <1>2, <1>4, <2>1 DEF Read, Copies, Last
<1> QED BY <1>3, <1>4

\* Once core0 has nothing left to write, only what is read can be left.
LEMMA SettledReads ==
    ASSUME NEW C, NEW d, IsDisk(d, C), IsSettled(d), NEW f \in DOMAIN C
    PROVE  Copies(d, f) = {Read(d, f)}
<1>1. d.pending[f] = <<>> /\ DOMAIN d.pending[f] = {}
  BY DEF IsDisk, IsSettled
<1> QED BY <1>1 DEF Read, Copies

\* The files of a finite set can be put in a sequence (SetToSeq).
LEMMA FilesInSomeOrder ==
    ASSUME NEW T, NEW S \in SUBSET T, IsFiniteSet(S)
    PROVE  SetToSeq(S) \in Seq(T)
<1> DEFINE n == Cardinality(S)
           Orders == {g \in [1..n -> S] : IsInjective(g)}
<1>1. n \in Nat /\ ExistsBijection(1..n, S)
  BY FS_CardinalityType
<1>2. PICK g \in Bijection(1..n, S) : TRUE
  BY <1>1 DEF ExistsBijection
<1>3. g \in [1..n -> S] /\ IsInjective(g)
  BY <1>2 DEF Bijection, Injection
<1>4. SetToSeq(S) \in [1..n -> S]
  BY <1>3 DEF SetToSeq
<1>5. SetToSeq(S) \in [1..n -> T]
  BY <1>4
<1> QED BY <1>1, <1>5

\* Several files are written at once: each as by file_put_data.
LEMMA PutAllDisk ==
    ASSUME NEW C, NEW d, IsDisk(d, C),
           NEW v, DOMAIN v \subseteq DOMAIN C, IsFiniteSet(DOMAIN v),
           \A f \in DOMAIN v : v[f] \in C[f]
    PROVE  LET e == PutAll(d, v)
           IN  /\ IsDisk(e, C)
               /\ \A f \in DOMAIN v : /\ Read(e, f) = v[f]
                                      /\ Copies(e, f) = Copies(d, f) \cup {v[f]}
               /\ \A f \in DOMAIN C \ DOMAIN v : /\ Read(e, f) = Read(d, f)
                                                 /\ Copies(e, f) = Copies(d, f)
               /\ e.flash = d.flash
<1> DEFINE e == PutAll(d, v)
<1>1. /\ e.flash = d.flash
      /\ e.pending = [f \in DOMAIN C |-> IF f \in DOMAIN v THEN Append(d.pending[f], v[f])
                                                          ELSE d.pending[f]]
      /\ e.order = IF InOrder THEN d.order \o SetToSeq(DOMAIN v) ELSE d.order
      /\ e = [flash |-> e.flash, pending |-> e.pending, order |-> e.order]
      /\ d.flash = [f \in DOMAIN C |-> d.flash[f]]
      /\ \A f \in DOMAIN C : d.flash[f] \in C[f] /\ d.pending[f] \in Seq(C[f])
      /\ d.order \in Seq(DOMAIN C)
  BY DEF PutAll, IsDisk
<1>2. e.order \in Seq(DOMAIN C)
  <2>1. SetToSeq(DOMAIN v) \in Seq(DOMAIN C)
    BY FilesInSomeOrder
  <2>2. d.order \o SetToSeq(DOMAIN v) \in Seq(DOMAIN C)
    BY <1>1, <2>1, ConcatProperties
  <2> QED BY <1>1, <2>2
<1> HIDE DEF e
<1>3. \A f \in DOMAIN C : e.pending[f] \in Seq(C[f])
  BY <1>1, AppendProperties
<1>4. IsDisk(e, C)
  BY <1>1, <1>2, <1>3 DEF IsDisk
<1>5. ASSUME NEW f \in DOMAIN v
      PROVE  Read(e, f) = v[f] /\ Copies(e, f) = Copies(d, f) \cup {v[f]}
  <2> DEFINE q == d.pending[f]
  <2>1. q \in Seq(C[f]) /\ e.pending[f] = Append(q, v[f])
    BY <1>1, <1>5
  <2> HIDE DEF q
  <2>2. /\ Append(q, v[f]) # <<>>
        /\ Len(Append(q, v[f])) = Len(q) + 1
        /\ Append(q, v[f])[Len(q) + 1] = v[f]
        /\ \A i \in 1..Len(q) : Append(q, v[f])[i] = q[i]
        /\ DOMAIN Append(q, v[f]) = 1..(Len(q) + 1)
        /\ DOMAIN q = 1..Len(q)
        /\ Len(q) \in Nat
    BY <2>1
  <2>3. {Append(q, v[f])[i] : i \in 1..(Len(q) + 1)} = {q[i] : i \in 1..Len(q)} \cup {v[f]}
    BY <2>2
  <2>4. Copies(e, f) = Copies(d, f) \cup {v[f]}
    <3>1. Copies(d, f) = {d.flash[f]} \cup {q[i] : i \in 1..Len(q)}
      BY <2>2 DEF Copies, q
    <3>2. Copies(e, f) = {d.flash[f]} \cup {Append(q, v[f])[i] : i \in 1..(Len(q) + 1)}
      <4>1. e.flash[f] = d.flash[f] /\ DOMAIN e.pending[f] = 1..(Len(q) + 1)
        BY <1>1, <2>1, <2>2
      <4>2. Copies(e, f) = {d.flash[f]} \cup {e.pending[f][i] : i \in 1..(Len(q) + 1)}
        BY <4>1 DEF Copies
      <4> QED BY <2>1, <4>2
    <3> QED BY <2>3, <3>1, <3>2
  <2> QED BY <2>1, <2>2, <2>4 DEF Read, Last
<1>6. \A f \in DOMAIN C \ DOMAIN v : Read(e, f) = Read(d, f) /\ Copies(e, f) = Copies(d, f)
  BY <1>1 DEF Read, Copies
<1> QED BY <1>1, <1>4, <1>5, <1>6 DEF e

-----------------------------------------------------------------------------
(* The versions of a file from the one in the flash to the one that is     *)
(* read, in the order they were written.                                   *)

Versions(d, f) == <<d.flash[f]>> \o d.pending[f]

\* Copies and Read in terms of the versions.
LEMMA VersionsOf ==
    ASSUME NEW C, NEW d, IsDisk(d, C), NEW f \in DOMAIN C
    PROVE  LET v == Versions(d, f)
           IN  /\ v \in Seq(C[f]) /\ Len(v) \in Nat \ {0}
               /\ Len(v) = Len(d.pending[f]) + 1
               /\ v[1] = d.flash[f]
               /\ \A i \in 2..Len(v) : v[i] = d.pending[f][i - 1]
               /\ Read(d, f) = v[Len(v)]
               /\ Copies(d, f) = {v[i] : i \in 1..Len(v)}
<1> DEFINE q == d.pending[f]
           v == Versions(d, f)
<1>1. q \in Seq(C[f]) /\ d.flash[f] \in C[f] /\ <<d.flash[f]>> \in Seq(C[f])
  BY DEF IsDisk
<1>2. /\ v \in Seq(C[f]) /\ Len(v) = Len(q) + 1 /\ v[1] = d.flash[f]
      /\ \A i \in 2..Len(v) : v[i] = q[i - 1]
      /\ Len(q) \in Nat
  BY <1>1 DEF Versions
<1> HIDE DEF v, q
<1>3. Read(d, f) = v[Len(v)]
  <2>1. CASE q = <<>>
    BY <1>2, <2>1 DEF Read, q
  <2>2. CASE q # <<>>
    <3>1. Len(q) # 0
      BY <1>1, <2>2, EmptySeq
    <3>2. Len(v) \in 2..Len(v) /\ v[Len(v)] = q[Len(q)]
      BY <1>2, <3>1
    <3> QED BY <2>2, <3>2 DEF Read, Last, q
  <2> QED BY <2>1, <2>2
<1>4. Copies(d, f) = {v[i] : i \in 1..Len(v)}
  <2>1. DOMAIN q = 1..Len(q)
    BY <1>1
  <2>2. \A i \in 1..Len(q) : i + 1 \in 1..Len(v) /\ v[i + 1] = q[i]
    BY <1>2
  <2>3. \A i \in 1..Len(v) : i = 1 \/ (i - 1 \in 1..Len(q) /\ v[i] = q[i - 1])
    BY <1>2
  <2>4. 1 \in 1..Len(v)
    BY <1>2
  <2>5. Copies(d, f) = {v[1]} \cup {q[i] : i \in 1..Len(q)}
    BY <1>2, <2>1 DEF Copies, q
  <2>6. {v[1]} \cup {q[i] : i \in 1..Len(q)} \subseteq {v[i] : i \in 1..Len(v)}
    BY <2>2, <2>4
  <2>7. {v[i] : i \in 1..Len(v)} \subseteq {v[1]} \cup {q[i] : i \in 1..Len(q)}
    BY <2>3
  <2> QED BY <2>5, <2>6, <2>7
<1> QED BY <1>2, <1>3, <1>4 DEF v, q

\* Writes add a version, core0 takes the oldest away, a power cut leaves it.
LEMMA PutVersions ==
    ASSUME NEW C, NEW d, IsDisk(d, C), NEW f \in DOMAIN C, NEW x \in C[f]
    PROVE  LET e == Put(d, f, x)
           IN  /\ Versions(e, f) = Append(Versions(d, f), x)
               /\ \A g \in DOMAIN C \ {f} : Versions(e, g) = Versions(d, g)
<1> DEFINE e == Put(d, f, x)
           q == d.pending[f]
<1>1. /\ e.flash = d.flash
      /\ e.pending[f] = Append(q, x)
      /\ \A g \in DOMAIN C \ {f} : e.pending[g] = d.pending[g]
      /\ q \in Seq(C[f]) /\ <<d.flash[f]>> \in Seq(C[f])
  BY DEF IsDisk, Put
<1> HIDE DEF e, q
<1>2. <<d.flash[f]>> \o Append(q, x) = Append(<<d.flash[f]>> \o q, x)
  BY <1>1
<1> QED BY <1>1, <1>2 DEF Versions, e, q

LEMMA PutAllVersions ==
    ASSUME NEW C, NEW d, IsDisk(d, C), NEW v, DOMAIN v \subseteq DOMAIN C,
           \A f \in DOMAIN v : v[f] \in C[f]
    PROVE  LET e == PutAll(d, v)
           IN  /\ \A f \in DOMAIN v : Versions(e, f) = Append(Versions(d, f), v[f])
               /\ \A f \in DOMAIN C \ DOMAIN v : Versions(e, f) = Versions(d, f)
<1> DEFINE e == PutAll(d, v)
<1>1. /\ e.flash = d.flash
      /\ \A f \in DOMAIN v : e.pending[f] = Append(d.pending[f], v[f])
      /\ \A f \in DOMAIN C \ DOMAIN v : e.pending[f] = d.pending[f]
      /\ \A f \in DOMAIN C : d.pending[f] \in Seq(C[f]) /\ <<d.flash[f]>> \in Seq(C[f])
  BY DEF IsDisk, PutAll
<1> HIDE DEF e
<1>2. ASSUME NEW f \in DOMAIN v
      PROVE  <<d.flash[f]>> \o Append(d.pending[f], v[f])
               = Append(<<d.flash[f]>> \o d.pending[f], v[f])
  BY <1>1
<1> QED BY <1>1, <1>2 DEF Versions, e

LEMMA DrainedVersions ==
    ASSUME NEW C, NEW d, IsDisk(d, C), NEW f \in DOMAIN C, CanDrain(d, f)
    PROVE  LET e == Drained(d, f)
           IN  /\ Versions(e, f) = Tail(Versions(d, f))
               /\ Len(Versions(d, f)) >= 2
               /\ \A g \in DOMAIN C \ {f} : Versions(e, g) = Versions(d, g)
<1> DEFINE e == Drained(d, f)
           q == d.pending[f]
<1>1. /\ e.flash[f] = Head(q)
      /\ e.pending[f] = Tail(q)
      /\ \A g \in DOMAIN C \ {f} : e.pending[g] = d.pending[g] /\ e.flash[g] = d.flash[g]
      /\ q \in Seq(C[f]) /\ <<d.flash[f]>> \in Seq(C[f])
      /\ q # <<>>
  BY DEF IsDisk, Drained, CanDrain
<1> HIDE DEF e, q
<1>2. <<Head(q)>> \o Tail(q) = q /\ Tail(<<d.flash[f]>> \o q) = q
  BY <1>1
<1>3. Len(<<d.flash[f]>> \o q) >= 2
  BY <1>1, EmptySeq
<1> QED BY <1>1, <1>2, <1>3 DEF Versions, e, q

LEMMA SettledVersions ==
    ASSUME NEW C, NEW c, c = [f \in DOMAIN C |-> c[f]], NEW f \in DOMAIN C
    PROVE  Versions(Settled(c), f) = <<c[f]>>
<1>1. <<c[f]>> \o <<>> = <<c[f]>>
  OBVIOUS
<1>2. Settled(c).flash = c /\ Settled(c).pending[f] = <<>>
  BY DEF Settled
<1> QED BY <1>1, <1>2 DEF Versions

-----------------------------------------------------------------------------
(* When different files are written in order too: the contents that the    *)
(* flash goes through, from those it has to those that are read.           *)

\* ms[i] is the flash after i writes; the k-th write of f is write at[f][k].
IsHistoryAt(d, C, ms, at) ==
    LET n == Len(d.order)
    IN  /\ ms = [i \in 0..n |-> ms[i]]
        /\ ms[0] = d.flash
        /\ ms[n] = [f \in DOMAIN C |-> Read(d, f)]
        /\ \A i \in 1..n : ms[i] = [ms[i - 1] EXCEPT ![d.order[i]] = ms[i][d.order[i]]]
        /\ \A f \in DOMAIN C : \A k \in 1..Len(d.pending[f]) :
              /\ at[f][k] \in 1..n
              /\ d.order[at[f][k]] = f
              /\ ms[at[f][k]][f] = d.pending[f][k]
              /\ \A l \in 1..(k - 1) : at[f][l] < at[f][k]
        /\ \A i \in 1..n : \E k \in 1..Len(d.pending[d.order[i]]) : at[d.order[i]][k] = i

IsHistory(d, C, ms) == \E at : IsHistoryAt(d, C, ms, at)

\* A disk with nothing to write stays as it is.
LEMMA SettledHistory ==
    ASSUME NEW C, NEW c, c = [f \in DOMAIN C |-> c[f]]
    PROVE  IsHistory(Settled(c), C, [i \in 0..0 |-> c])
<1> DEFINE e == Settled(c)
           ms == [i \in 0..0 |-> c]
<1>1. /\ e.flash = c /\ e.order = <<>> /\ Len(e.order) = 0
      /\ \A f \in DOMAIN C : e.pending[f] = <<>> /\ Len(e.pending[f]) = 0
  BY DEF Settled
<1>2. [f \in DOMAIN C |-> Read(e, f)] = c
  BY <1>1 DEF Read
<1>3. ms[0] = c /\ ms = [i \in 0..0 |-> ms[i]]
  OBVIOUS
<1> HIDE DEF e, ms
<1>4. IsHistoryAt(e, C, ms, c)
  BY <1>1, <1>2, <1>3 DEF IsHistoryAt
<1> QED BY <1>4 DEF IsHistory, e, ms

\* A write adds one moment at the end.
LEMMA PutHistory ==
    ASSUME InOrder, NEW C, NEW d, IsDisk(d, C), NEW f \in DOMAIN C, NEW v \in C[f],
           NEW ms, IsHistory(d, C, ms)
    PROVE  LET e == Put(d, f, v)
               n == Len(d.order)
           IN  /\ n \in Nat
               /\ Len(e.order) = n + 1
               /\ \A i \in 1..n : e.order[i] = d.order[i]
               /\ e.order[n + 1] = f
               /\ \E now : /\ IsHistory(e, C, now)
                           /\ \A i \in 0..n : now[i] = ms[i]
                           /\ now[n + 1] = [g \in DOMAIN C |-> Read(e, g)]
<1> DEFINE e == Put(d, f, v)
           n == Len(d.order)
           q == d.pending[f]
           ram == [g \in DOMAIN C |-> Read(e, g)]
           now == [i \in 0..(n + 1) |-> IF i = n + 1 THEN ram ELSE ms[i]]
<1>1. PICK at : IsHistoryAt(d, C, ms, at)
  BY DEF IsHistory
<1> DEFINE then == [g \in DOMAIN C |->
                      [k \in 1..(Len(e.pending[g])) |->
                         IF g = f /\ k = Len(q) + 1 THEN n + 1 ELSE at[g][k]]]
<1>2. /\ n \in Nat /\ Len(e.order) = n + 1
      /\ \A i \in 1..n : e.order[i] = d.order[i] /\ d.order[i] \in DOMAIN C
      /\ e.order[n + 1] = f
  BY DEF IsDisk, Put
<1>3. /\ e.flash = d.flash
      /\ \A g \in DOMAIN C : Len(d.pending[g]) \in Nat
      /\ e.pending[f] = Append(q, v)
      /\ Len(e.pending[f]) = Len(q) + 1 /\ e.pending[f][Len(q) + 1] = v
      /\ \A k \in 1..Len(q) : e.pending[f][k] = q[k]
      /\ \A g \in DOMAIN C \ {f} : e.pending[g] = d.pending[g]
  <2>1. \A g \in DOMAIN C : d.pending[g] \in Seq(C[g])
    BY DEF IsDisk
  <2>2. /\ e.flash = d.flash
        /\ e.pending[f] = Append(q, v)
        /\ \A g \in DOMAIN C \ {f} : e.pending[g] = d.pending[g]
    BY DEF IsDisk, Put
  <2> HIDE DEF e
  <2> QED BY <2>1, <2>2
<1>4. Read(e, f) = v /\ \A g \in DOMAIN C \ {f} : Read(e, g) = Read(d, g)
  BY PutDisk
<1>5. /\ ms = [i \in 0..n |-> ms[i]]
      /\ ms[0] = d.flash
      /\ ms[n] = [g \in DOMAIN C |-> Read(d, g)]
      /\ \A i \in 1..n : ms[i] = [ms[i - 1] EXCEPT ![d.order[i]] = ms[i][d.order[i]]]
      /\ \A g \in DOMAIN C : \A k \in 1..Len(d.pending[g]) :
            /\ at[g][k] \in 1..n
            /\ d.order[at[g][k]] = g
            /\ ms[at[g][k]][g] = d.pending[g][k]
            /\ \A l \in 1..(k - 1) : at[g][l] < at[g][k]
      /\ \A i \in 1..n : \E k \in 1..Len(d.pending[d.order[i]]) : at[d.order[i]][k] = i
  BY <1>1 DEF IsHistoryAt
<1> HIDE DEF e, n, q
<1>6. ram = [ms[n] EXCEPT ![f] = v] /\ ram[f] = v
  <2>1. \A g \in DOMAIN C : Read(e, g) = IF g = f THEN v ELSE Read(d, g)
    BY <1>4 DEF e
  <2>2. ms[n] = [g \in DOMAIN C |-> Read(d, g)]
    BY <1>5
  <2>3. [ms[n] EXCEPT ![f] = v] = [g \in DOMAIN C |-> IF g = f THEN v ELSE Read(d, g)]
    BY <2>2
  <2> QED BY <2>1, <2>3
<1> HIDE DEF ram
<1>7. /\ now = [i \in 0..(n + 1) |-> now[i]]
      /\ \A i \in 0..n : now[i] = ms[i]
      /\ now[n + 1] = ram
  BY <1>2
<1>8. \A i \in 1..(n + 1) : now[i] = [now[i - 1] EXCEPT ![e.order[i]] = now[i][e.order[i]]]
  <2> TAKE i \in 1..(n + 1)
  <2>1. CASE i = n + 1
    <3>1. now[i - 1] = ms[n] /\ now[i] = ram
      BY <1>2, <1>7, <2>1
    <3> HIDE DEF now
    <3> QED BY <1>2, <1>6, <2>1, <3>1
  <2>2. CASE i # n + 1
    <3>1. i \in 1..n /\ i \in 0..n /\ i - 1 \in 0..n
      BY <1>2, <2>2
    <3>2. now[i - 1] = ms[i - 1] /\ now[i] = ms[i] /\ e.order[i] = d.order[i]
      BY <1>2, <1>7, <3>1
    <3> HIDE DEF now
    <3> QED BY <1>5, <3>1, <3>2
  <2> QED BY <2>1, <2>2
<1> HIDE DEF now
<1>9. ASSUME NEW g \in DOMAIN C, NEW k \in 1..Len(e.pending[g])
      PROVE  /\ then[g][k] \in 1..(n + 1)
             /\ e.order[then[g][k]] = g
             /\ now[then[g][k]][g] = e.pending[g][k]
             /\ \A l \in 1..(k - 1) : then[g][l] < then[g][k]
  <2>1. /\ then[g][k] = IF g = f /\ k = Len(q) + 1 THEN n + 1 ELSE at[g][k]
        /\ \A l \in 1..(k - 1) : /\ l \in 1..Len(e.pending[g])
                                 /\ then[g][l] = IF g = f /\ l = Len(q) + 1
                                                 THEN n + 1 ELSE at[g][l]
    <3>1. \A l \in 1..(k - 1) : l \in 1..Len(e.pending[g])
      BY <1>3 DEF q
    <3> QED BY <3>1
  <2> HIDE DEF then
  <2>2. CASE g = f /\ k = Len(q) + 1
    <3>1. then[g][k] = n + 1
      BY <2>1, <2>2
    <3>2. \A l \in 1..(k - 1) : then[g][l] = at[g][l] /\ at[g][l] \in 1..n
      <4>1. \A l \in 1..(k - 1) : l \in 1..Len(d.pending[f]) /\ l # Len(q) + 1
        BY <1>3, <2>2 DEF q
      <4> QED BY <1>5, <2>1, <2>2, <4>1
    <3>3. \A l \in 1..(k - 1) : then[g][l] < n + 1
      <4>1. \A m \in 1..n : m < n + 1
        BY <1>2
      <4> QED BY <3>2, <4>1
    <3>4. n + 1 \in 1..(n + 1)
      BY <1>2
    <3>5. now[n + 1][g] = e.pending[g][k]
      BY <1>3, <1>6, <1>7, <2>2
    <3> QED BY <1>2, <2>2, <3>1, <3>3, <3>4, <3>5
  <2>3. CASE ~(g = f /\ k = Len(q) + 1)
    <3>1. k \in 1..Len(d.pending[g]) /\ e.pending[g][k] = d.pending[g][k]
      <4>1. CASE g = f
        <5>1. k \in 1..Len(q) /\ e.pending[f][k] = q[k]
          BY <1>3, <2>3, <4>1
        <5> QED BY <4>1, <5>1 DEF q
      <4>2. CASE g # f
        BY <1>3, <4>2
      <4> QED BY <4>1, <4>2
    <3>2. then[g][k] = at[g][k] /\ at[g][k] \in 1..n
      BY <1>5, <2>1, <2>3, <3>1
    <3>3. \A l \in 1..(k - 1) : then[g][l] = at[g][l] /\ at[g][l] < at[g][k]
      <4>1. \A l \in 1..(k - 1) : ~(g = f /\ l = Len(q) + 1)
        BY <1>3, <3>1 DEF q
      <4> QED BY <1>5, <2>1, <3>1, <4>1
    <3>4. at[g][k] \in 1..(n + 1) /\ at[g][k] \in 0..n
      BY <1>2, <3>2
    <3>5. e.order[at[g][k]] = g /\ now[at[g][k]][g] = e.pending[g][k]
      <4>1. d.order[at[g][k]] = g /\ ms[at[g][k]][g] = d.pending[g][k]
        BY <1>5, <3>1
      <4>2. e.order[at[g][k]] = d.order[at[g][k]] /\ now[at[g][k]] = ms[at[g][k]]
        BY <1>2, <1>7, <3>2, <3>4
      <4> QED BY <3>1, <4>1, <4>2
    <3> QED BY <3>2, <3>3, <3>4, <3>5
  <2> QED BY <2>2, <2>3
<1>10. ASSUME NEW i \in 1..(n + 1)
       PROVE  \E k \in 1..Len(e.pending[e.order[i]]) : then[e.order[i]][k] = i
  <2>1. CASE i = n + 1
    <3>1. Len(q) + 1 \in 1..Len(e.pending[f])
      BY <1>3 DEF q
    <3>2. then[f][Len(q) + 1] = n + 1
      BY <3>1
    <3> QED BY <1>2, <2>1, <3>1, <3>2
  <2>2. CASE i # n + 1
    <3>1. i \in 1..n
      BY <1>2, <2>2
    <3> DEFINE g == d.order[i]
    <3>2. e.order[i] = g /\ g \in DOMAIN C
      BY <1>2, <3>1
    <3>3. PICK k \in 1..Len(d.pending[g]) : at[g][k] = i
      BY <1>5, <3>1
    <3> HIDE DEF g
    <3>4. k \in 1..Len(e.pending[g]) /\ ~(g = f /\ k = Len(q) + 1)
      BY <1>3, <3>2, SMTT(90) DEF q
    <3>5. then[g][k] = at[g][k]
      BY <3>2, <3>4
    <3> QED BY <3>2, <3>3, <3>4, <3>5
  <2> QED BY <2>1, <2>2
<1> HIDE DEF then
<1>11. IsHistoryAt(e, C, now, then)
  <2>1. now[0] = e.flash
    <3>1. 0 \in 0..n
      BY <1>2
    <3>2. now[0] = ms[0] /\ ms[0] = d.flash
      BY <1>5, <1>7, <3>1
    <3> QED BY <1>3, <3>2
  <2>2. now[n + 1] = [g \in DOMAIN C |-> Read(e, g)]
    BY <1>7 DEF ram
  <2> QED BY <1>2, <1>7, <1>8, <1>9, <1>10, <2>1, <2>2, ZenonT(120) DEF IsHistoryAt
<1>12. IsHistory(e, C, now)
  BY <1>11 DEF IsHistory
<1> QED BY <1>2, <1>7, <1>12 DEF e, n, ram

\* Each moment of d differs from c in nothing but what v says.
OneByOne(d, C, ms, c, v) ==
    \A i \in 0..Len(d.order) : \A f \in DOMAIN C :
       ms[i][f] # c[f] => f \in DOMAIN v /\ ms[i][f] = v[f]

\* Several files are written at once on a disk with nothing to write: they
\* change one by one.
LEMMA PutAllHistory ==
    ASSUME InOrder, NEW C, NEW c, c = [f \in DOMAIN C |-> c[f]],
           NEW v, DOMAIN v \subseteq DOMAIN C, IsFiniteSet(DOMAIN v)
    PROVE  LET e == PutAll(Settled(c), v)
           IN  \E ms : IsHistory(e, C, ms) /\ OneByOne(e, C, ms, c, v)
<1> DEFINE S == DOMAIN v
           e == PutAll(Settled(c), v)
           o == SetToSeq(S)
           n == Cardinality(S)
           pos == [f \in S |-> CHOOSE i \in 1..n : o[i] = f]
           ms == [i \in 0..n |-> [f \in DOMAIN C |-> IF f \in S /\ pos[f] <= i THEN v[f] ELSE c[f]]]
           at == [f \in DOMAIN C |-> [k \in 1..1 |-> pos[f]]]
<1>1. n \in Nat /\ o \in [1..n -> S] /\ IsInjective(o)
  <2>1. n \in Nat /\ ExistsBijection(1..n, S)
    BY FS_CardinalityType
  <2>2. PICK g \in Bijection(1..n, S) : TRUE
    BY <2>1 DEF ExistsBijection
  <2>3. g \in [1..n -> S] /\ IsInjective(g)
    BY <2>2 DEF Bijection, Injection
  <2> QED BY <2>1, <2>3 DEF SetToSeq
<1>2. \A f \in S : \E i \in 1..n : o[i] = f
  <2>1. o \in Injection(1..n, S)
    BY <1>1 DEF Injection
  <2>2. Cardinality(1..n) = n
    BY <1>1, FS_Interval
  <2>3. o \in Surjection(1..n, S)
    BY <2>1, <2>2, FS_Injection
  <2> QED BY <2>3 DEF Surjection
<1>3. /\ \A f \in S : pos[f] \in 1..n /\ o[pos[f]] = f
      /\ \A i \in 1..n : o[i] \in S /\ pos[o[i]] = i
  <2>1. \A f \in S : pos[f] \in 1..n /\ o[pos[f]] = f
    BY <1>2
  <2> HIDE DEF pos, o
  <2> QED BY <1>1, <2>1 DEF IsInjective
<1> HIDE DEF pos, o
<1>4. /\ e.flash = c
      /\ e.order = o /\ Len(e.order) = n
      /\ \A f \in DOMAIN C : e.pending[f] = IF f \in S THEN <<v[f]>> ELSE <<>>
  <2>1. /\ Settled(c).flash = c /\ Settled(c).order = <<>>
        /\ DOMAIN Settled(c).pending = DOMAIN C
        /\ \A f \in DOMAIN C : Settled(c).pending[f] = <<>>
    BY DEF Settled
  <2>2. o \in Seq(S) /\ Len(o) = n /\ <<>> \o o = o
    BY <1>1
  <2>3. e.flash = c /\ e.order = <<>> \o o
    BY <2>1 DEF PutAll, o
  <2>4. \A f \in DOMAIN C : e.pending[f] = IF f \in S THEN Append(<<>>, v[f]) ELSE <<>>
    BY <2>1 DEF PutAll
  <2>5. \A f \in DOMAIN C : Append(<<>>, v[f]) = <<v[f]>>
    OBVIOUS
  <2> QED BY <2>2, <2>3, <2>4, <2>5
<1>5. /\ \A f \in S : Len(e.pending[f]) = 1 /\ e.pending[f][1] = v[f]
      /\ \A f \in DOMAIN C \ S : Len(e.pending[f]) = 0
  <2>1. \A x : Len(<<x>>) = 1 /\ <<x>>[1] = x /\ Len(<<>>) = 0
    OBVIOUS
  <2> HIDE DEF e, S
  <2>2. \A f \in S : f \in DOMAIN C
    BY DEF S
  <2> QED BY <1>4, <2>1, <2>2
<1>6. \A i \in 0..n : \A f \in DOMAIN C :
         /\ ms[i] = [g \in DOMAIN C |-> ms[i][g]]
         /\ ms[i][f] = IF f \in S /\ pos[f] <= i THEN v[f] ELSE c[f]
  OBVIOUS
<1>7. ms = [i \in 0..n |-> ms[i]]
  OBVIOUS
<1> HIDE DEF ms, e, n
<1>8. \A f \in DOMAIN C : Read(e, f) = IF f \in S THEN v[f] ELSE c[f]
  <2>1. \A f \in S : <<v[f]>> # <<>> /\ Last(<<v[f]>>) = v[f]
    BY DEF Last
  <2> QED BY <1>4, <2>1 DEF Read
<1>9. ms[0] = c
  <2>1. 0 \in 0..n /\ \A f \in S : ~(pos[f] <= 0)
    BY <1>1, <1>3
  <2>2. \A f \in DOMAIN C : ms[0][f] = c[f]
    BY <1>6, <2>1
  <2>3. ms[0] = [f \in DOMAIN C |-> ms[0][f]]
    BY <1>1, <2>1 DEF ms
  <2> QED BY <2>2, <2>3
<1>10. ms[n] = [f \in DOMAIN C |-> Read(e, f)]
  <2>1. n \in 0..n /\ \A f \in S : pos[f] <= n
    BY <1>1, <1>3
  <2>2. \A f \in DOMAIN C : ms[n][f] = Read(e, f)
    BY <1>6, <1>8, <2>1
  <2>3. ms[n] = [f \in DOMAIN C |-> ms[n][f]]
    BY <1>1, <2>1 DEF ms
  <2> QED BY <2>2, <2>3
<1>11. ASSUME NEW i \in 1..n PROVE ms[i] = [ms[i - 1] EXCEPT ![o[i]] = ms[i][o[i]]]
  <2>1. /\ i \in 0..n /\ i - 1 \in 0..n /\ o[i] \in S /\ o[i] \in DOMAIN C
        /\ i \in Nat
    BY <1>1, <1>3
  <2>2. ASSUME NEW f \in DOMAIN C, f # o[i] PROVE ms[i][f] = ms[i - 1][f]
    <3>1. f \in S => pos[f] # i /\ pos[f] \in Nat
      BY <1>3, <2>2
    <3>2. f \in S => (pos[f] <= i <=> pos[f] <= i - 1)
      BY <2>1, <3>1
    <3> QED BY <1>6, <2>1, <3>2
  <2>3. /\ ms[i] = [f \in DOMAIN C |-> ms[i][f]]
        /\ ms[i - 1] = [f \in DOMAIN C |-> ms[i - 1][f]]
    BY <2>1 DEF ms
  <2> DEFINE a == ms[i]
             b == ms[i - 1]
  <2> HIDE DEF a, b
  <2>4. a = [f \in DOMAIN C |-> a[f]] /\ b = [f \in DOMAIN C |-> b[f]]
    BY <2>3 DEF a, b
  <2>5. \A f \in DOMAIN C : f # o[i] => a[f] = b[f]
    BY <2>2 DEF a, b
  <2>6. a = [b EXCEPT ![o[i]] = a[o[i]]]
    BY <2>1, <2>4, <2>5
  <2> QED BY <2>6 DEF a, b
<1>12. ASSUME NEW f \in DOMAIN C, NEW k \in 1..Len(e.pending[f])
       PROVE  /\ at[f][k] \in 1..n
              /\ o[at[f][k]] = f
              /\ ms[at[f][k]][f] = e.pending[f][k]
              /\ \A l \in 1..(k - 1) : at[f][l] < at[f][k]
  <2>1. f \in S /\ k = 1
    <3>1. CASE f \notin S
      <4>1. Len(e.pending[f]) = 0
        <5>1. f \in DOMAIN C \ S
          BY <1>12, <3>1
        <5> QED BY <1>5, <5>1
      <4>2. k \in 1..0
        BY <1>12, <4>1
      <4> QED BY <4>2
    <3>2. CASE f \in S
      <4>1. Len(e.pending[f]) = 1
        BY <1>5, <3>2
      <4>2. k \in 1..1
        BY <1>12, <4>1
      <4> QED BY <3>2, <4>2
    <3> QED BY <3>1, <3>2
  <2>2. at[f][k] = pos[f] /\ pos[f] \in 1..n /\ o[pos[f]] = f
    BY <1>3, <2>1
  <2>3. pos[f] \in 0..n /\ pos[f] <= pos[f]
    BY <1>1, <2>2
  <2>4. ms[pos[f]][f] = v[f]
    BY <1>6, <2>1, <2>3
  <2>5. e.pending[f][k] = v[f] /\ 1..(k - 1) = {}
    BY <1>5, <2>1
  <2> QED BY <2>2, <2>4, <2>5
<1>13. ASSUME NEW i \in 1..n PROVE \E k \in 1..Len(e.pending[o[i]]) : at[o[i]][k] = i
  <2>1. o[i] \in S /\ o[i] \in DOMAIN C /\ pos[o[i]] = i
    BY <1>3
  <2>2. Len(e.pending[o[i]]) = 1 /\ 1 \in 1..1
    BY <1>5, <2>1
  <2>3. at[o[i]][1] = i
    BY <2>1
  <2> QED BY <2>2, <2>3
<1> HIDE DEF at
<1>14. /\ Len(e.order) = n
       /\ ms[0] = e.flash
       /\ \A i \in 1..n : ms[i] = [ms[i - 1] EXCEPT ![e.order[i]] = ms[i][e.order[i]]]
       /\ \A f \in DOMAIN C : \A k \in 1..Len(e.pending[f]) :
             /\ at[f][k] \in 1..n
             /\ e.order[at[f][k]] = f
             /\ ms[at[f][k]][f] = e.pending[f][k]
             /\ \A l \in 1..(k - 1) : at[f][l] < at[f][k]
       /\ \A i \in 1..n : \E k \in 1..Len(e.pending[e.order[i]]) : at[e.order[i]][k] = i
  <2>1. e.order = o /\ Len(e.order) = n /\ e.flash = c
    BY <1>4
  <2> HIDE DEF S
  <2> QED BY <1>9, <1>11, <1>12, <1>13, <2>1, SMTT(90)
<1>15. IsHistoryAt(e, C, ms, at)
  BY <1>7, <1>10, <1>14, ZenonT(120) DEF IsHistoryAt
<1>16. IsHistory(e, C, ms)
  BY <1>15 DEF IsHistory
<1>17. \A i \in 0..Len(e.order) : \A f \in DOMAIN C :
          ms[i][f] # c[f] => f \in S /\ ms[i][f] = v[f]
  <2> TAKE i \in 0..Len(e.order)
  <2> TAKE f \in DOMAIN C
  <2>1. i \in 0..n
    BY <1>4
  <2>2. ms[i][f] = IF f \in S /\ pos[f] <= i THEN v[f] ELSE c[f]
    BY <1>6, <2>1
  <2> QED BY <2>2
<1>18. OneByOne(e, C, ms, c, v)
  BY <1>17 DEF OneByOne
<1> HIDE DEF ms
<1> QED BY <1>16, <1>18 DEF e

\* A write that reaches the flash takes the first moment away.
LEMMA DrainedHistory ==
    ASSUME InOrder, NEW C, NEW d, IsDisk(d, C), NEW f \in DOMAIN C, CanDrain(d, f),
           NEW ms, IsHistory(d, C, ms)
    PROVE  LET e == Drained(d, f)
               n == Len(d.order)
           IN  /\ n \in Nat \ {0}
               /\ Len(e.order) = n - 1
               /\ \A i \in 1..(n - 1) : e.order[i] = d.order[i + 1]
               /\ \E now : /\ IsHistory(e, C, now)
                           /\ \A i \in 0..(n - 1) : now[i] = ms[i + 1]
<1> DEFINE e == Drained(d, f)
           n == Len(d.order)
           now == [i \in 0..(n - 1) |-> ms[i + 1]]
           q == d.pending[f]
<1>1. PICK at : IsHistoryAt(d, C, ms, at)
  BY DEF IsHistory
<1> DEFINE then == [g \in DOMAIN C |->
                      [k \in 1..Len(e.pending[g]) |->
                         (IF g = f THEN at[g][k + 1] ELSE at[g][k]) - 1]]
<1>2. /\ n \in Nat \ {0} /\ Len(e.order) = n - 1
      /\ \A i \in 1..(n - 1) : e.order[i] = d.order[i + 1]
      /\ \A i \in 1..n : d.order[i] \in DOMAIN C
      /\ d.order[1] = f
  <2>1. /\ d.order \in Seq(DOMAIN C) /\ d.order # <<>> /\ Head(d.order) = f
        /\ e.order = Tail(d.order)
    BY DEF IsDisk, CanDrain, Drained
  <2> HIDE DEF e
  <2> QED BY <2>1, HeadTailProperties, EmptySeq
<1>3. /\ q # <<>> /\ q \in Seq(C[f]) /\ Len(q) \in Nat \ {0}
      /\ e.flash = [d.flash EXCEPT ![f] = q[1]]
      /\ e.pending[f] = Tail(q)
      /\ Len(e.pending[f]) = Len(q) - 1
      /\ \A k \in 1..(Len(q) - 1) : e.pending[f][k] = q[k + 1]
      /\ \A g \in DOMAIN C \ {f} : e.pending[g] = d.pending[g]
      /\ \A g \in DOMAIN C : Len(d.pending[g]) \in Nat
  <2>1. /\ \A g \in DOMAIN C : d.pending[g] \in Seq(C[g])
        /\ q # <<>>
        /\ e.flash = [d.flash EXCEPT ![f] = Head(q)]
        /\ e.pending[f] = Tail(q)
        /\ \A g \in DOMAIN C \ {f} : e.pending[g] = d.pending[g]
    BY DEF IsDisk, CanDrain, Drained
  <2>2. /\ Head(q) = q[1] /\ Len(q) \in Nat \ {0} /\ Len(Tail(q)) = Len(q) - 1
        /\ \A k \in 1..(Len(q) - 1) : Tail(q)[k] = q[k + 1]
    BY <2>1, HeadTailProperties, EmptySeq
  <2> HIDE DEF e
  <2> QED BY <2>1, <2>2
<1>4. \A g \in DOMAIN C : Read(e, g) = Read(d, g)
  BY DrainedDisk
<1>5. /\ ms = [i \in 0..n |-> ms[i]]
      /\ ms[0] = d.flash
      /\ ms[n] = [g \in DOMAIN C |-> Read(d, g)]
      /\ \A i \in 1..n : ms[i] = [ms[i - 1] EXCEPT ![d.order[i]] = ms[i][d.order[i]]]
      /\ \A g \in DOMAIN C : \A k \in 1..Len(d.pending[g]) :
            /\ at[g][k] \in 1..n
            /\ d.order[at[g][k]] = g
            /\ ms[at[g][k]][g] = d.pending[g][k]
            /\ \A l \in 1..(k - 1) : at[g][l] < at[g][k]
      /\ \A i \in 1..n : \E k \in 1..Len(d.pending[d.order[i]]) : at[d.order[i]][k] = i
  BY <1>1 DEF IsHistoryAt
<1> HIDE DEF e, n, q
<1>6. at[f][1] = 1
  <2>1. PICK k \in 1..Len(q) : at[f][k] = 1
    <3>1. 1 \in 1..n /\ d.order[1] = f
      BY <1>2
    <3> QED BY <1>5, <3>1 DEF q
  <2>2. 1 \in 1..Len(q) /\ at[f][1] \in 1..n
    <3>1. 1 \in 1..Len(q)
      BY <1>3
    <3> QED BY <1>5, <3>1 DEF q
  <2>3. CASE k # 1
    <3>1. 1 \in 1..(k - 1)
      BY <1>3, <2>3
    <3>2. at[f][1] < at[f][k]
      BY <1>5, <3>1 DEF q
    <3> QED BY <1>2, <2>1, <2>2, <3>2
  <2> QED BY <2>1, <2>3
<1>7. ms[1] = e.flash
  <2>1. 1 \in 1..Len(q) /\ 1 \in 1..n
    BY <1>2, <1>3
  <2>2. ms[1][f] = q[1]
    <3>1. ms[at[f][1]][f] = d.pending[f][1]
      BY <1>5, <2>1 DEF q
    <3> QED BY <1>6, <3>1 DEF q
  <2>3. ms[1] = [ms[0] EXCEPT ![f] = ms[1][f]]
    <3>1. ms[1] = [ms[1 - 1] EXCEPT ![d.order[1]] = ms[1][d.order[1]]]
      BY <1>5, <2>1
    <3>2. 1 - 1 = 0
      OBVIOUS
    <3> QED BY <1>2, <3>1, <3>2
  <2> QED BY <1>3, <1>5, <2>2, <2>3
<1>8. /\ now = [i \in 0..(n - 1) |-> now[i]]
      /\ \A i \in 0..(n - 1) : now[i] = ms[i + 1]
      /\ now[0] = e.flash
      /\ now[n - 1] = [g \in DOMAIN C |-> Read(e, g)]
  <2>1. 0 \in 0..(n - 1) /\ n - 1 \in 0..(n - 1) /\ (n - 1) + 1 = n /\ 0 + 1 = 1
    BY <1>2
  <2>2. [g \in DOMAIN C |-> Read(e, g)] = [g \in DOMAIN C |-> Read(d, g)]
    BY <1>4
  <2> QED BY <1>5, <1>7, <2>1, <2>2
<1> HIDE DEF now
<1>9. \A i \in 1..(n - 1) : now[i] = [now[i - 1] EXCEPT ![e.order[i]] = now[i][e.order[i]]]
  <2> TAKE i \in 1..(n - 1)
  <2>1. i \in 0..(n - 1) /\ i - 1 \in 0..(n - 1) /\ (i - 1) + 1 = i
        /\ i + 1 \in 1..n /\ (i + 1) - 1 = i
    BY <1>2
  <2>2. now[i] = ms[i + 1] /\ now[i - 1] = ms[i] /\ e.order[i] = d.order[i + 1]
    BY <1>2, <1>8, <2>1
  <2>3. ms[i + 1] = [ms[(i + 1) - 1] EXCEPT ![d.order[i + 1]] = ms[i + 1][d.order[i + 1]]]
    BY <1>5, <2>1
  <2> QED BY <2>1, <2>2, <2>3
<1>10. ASSUME NEW g \in DOMAIN C, NEW k \in 1..Len(d.pending[g]), g = f => k # 1
       PROVE  at[g][k] - 1 \in 1..(n - 1)
  <2>1. at[g][k] \in 1..n /\ d.order[at[g][k]] = g
    BY <1>5
  <2>2. at[g][k] # 1
    <3>1. CASE g # f
      BY <1>2, <2>1, <3>1
    <3>2. CASE g = f
      <4>1. 1 \in 1..(k - 1)
        BY <1>3, <1>10, <3>2
      <4>2. at[f][1] < at[f][k]
        BY <1>5, <3>2, <4>1
      <4> QED BY <1>2, <1>6, <2>1, <3>2, <4>2
    <3> QED BY <3>1, <3>2
  <2> QED BY <1>2, <2>1, <2>2
<1>11. ASSUME NEW g \in DOMAIN C, NEW k \in 1..Len(e.pending[g])
       PROVE  /\ then[g][k] \in 1..(n - 1)
              /\ e.order[then[g][k]] = g
              /\ now[then[g][k]][g] = e.pending[g][k]
              /\ \A l \in 1..(k - 1) : then[g][l] < then[g][k]
  <2> DEFINE j(l) == IF g = f THEN l + 1 ELSE l
  <2>1. /\ \A l \in 1..k : l \in 1..Len(e.pending[g]) /\ j(l) \in 1..Len(d.pending[g])
        /\ \A l \in 1..(k - 1) : j(l) \in 1..(j(k) - 1)
        /\ e.pending[g][k] = d.pending[g][j(k)]
        /\ k \in 1..k
        /\ \A l \in 1..(k - 1) : l \in 1..k
        /\ \A l \in 1..k : g = f => j(l) # 1
    <3>1. CASE g = f
      <4>1. Len(e.pending[g]) = Len(d.pending[g]) - 1 /\ Len(d.pending[g]) \in Nat \ {0}
        BY <1>3, <3>1 DEF q
      <4>2. e.pending[g][k] = d.pending[g][k + 1]
        BY <1>3, <3>1 DEF q
      <4> QED BY <3>1, <4>1, <4>2, SMTT(60)
    <3>2. CASE g # f
      <4>1. e.pending[g] = d.pending[g] /\ Len(d.pending[g]) \in Nat
        BY <1>3, <3>2
      <4> QED BY <3>2, <4>1
    <3> QED BY <3>1, <3>2
  <2>2. \A l \in 1..k : then[g][l] = at[g][j(l)] - 1
    BY <2>1
  <2> HIDE DEF j, then
  <2>3. \A l \in 1..k : at[g][j(l)] - 1 \in 1..(n - 1) /\ at[g][j(l)] \in 1..n
    BY <1>5, <1>10, <2>1
  <2>4. /\ d.order[at[g][j(k)]] = g
        /\ ms[at[g][j(k)]][g] = d.pending[g][j(k)]
        /\ \A l \in 1..(j(k) - 1) : at[g][l] < at[g][j(k)]
    BY <1>5, <2>1
  <2>5. \A l \in 1..(k - 1) : at[g][j(l)] - 1 < at[g][j(k)] - 1
    <3> TAKE l \in 1..(k - 1)
    <3>1. at[g][j(l)] < at[g][j(k)] /\ at[g][j(l)] \in 1..n /\ at[g][j(k)] \in 1..n
      BY <2>1, <2>3, <2>4
    <3> QED BY <1>2, <3>1
  <2>6. (at[g][j(k)] - 1) + 1 = at[g][j(k)] /\ at[g][j(k)] - 1 \in 0..(n - 1)
    BY <1>2, <2>1, <2>3, SMTT(90)
  <2>7. e.order[at[g][j(k)] - 1] = g /\ now[at[g][j(k)] - 1][g] = e.pending[g][k]
    BY <1>2, <1>8, <2>1, <2>3, <2>4, <2>6, SMTT(90)
  <2> QED BY <2>1, <2>2, <2>3, <2>5, <2>7
<1>12. ASSUME NEW i \in 1..(n - 1)
       PROVE  \E k \in 1..Len(e.pending[e.order[i]]) : then[e.order[i]][k] = i
  <2> DEFINE g == e.order[i]
  <2>1. i + 1 \in 1..n /\ g = d.order[i + 1] /\ g \in DOMAIN C
    BY <1>2
  <2>2. PICK k \in 1..Len(d.pending[g]) : at[g][k] = i + 1
    BY <1>5, <2>1
  <2> HIDE DEF g
  <2>3. CASE g # f
    <3>1. k \in 1..Len(e.pending[g])
      BY <1>3, <2>1, <2>3
    <3>2. then[g][k] = at[g][k] - 1
      BY <2>1, <2>3, <3>1
    <3>3. then[g][k] = i
      BY <1>2, <2>2, <3>2
    <3> QED BY <3>1, <3>3 DEF g
  <2>4. CASE g = f
    <3>1. k # 1
      BY <1>2, <1>6, <2>2, <2>4
    <3>2. k - 1 \in 1..Len(e.pending[f]) /\ (k - 1) + 1 = k
      BY <1>3, <2>4, <3>1 DEF q
    <3>3. then[f][k - 1] = at[f][k] - 1
      BY <2>1, <2>4, <3>2
    <3>4. then[f][k - 1] = i
      BY <1>2, <2>2, <2>4, <3>3
    <3> QED BY <2>4, <3>2, <3>4 DEF g
  <2> QED BY <2>3, <2>4
<1> HIDE DEF then
<1>13. IsHistoryAt(e, C, now, then)
  BY <1>2, <1>8, <1>9, <1>11, <1>12, ZenonT(120) DEF IsHistoryAt
<1>14. IsHistory(e, C, now)
  BY <1>13 DEF IsHistory
<1> QED BY <1>2, <1>8, <1>14 DEF e, n

\* The flash is the first moment, what is read the last; a file that still has
\* a turn has something to write.
LEMMA HistoryEnds ==
    ASSUME NEW C, NEW d, IsDisk(d, C), NEW ms, IsHistory(d, C, ms)
    PROVE  LET n == Len(d.order)
           IN  /\ n \in Nat
               /\ ms[0] = d.flash
               /\ ms[n] = [f \in DOMAIN C |-> Read(d, f)]
               /\ \A i \in 1..n : d.order[i] \in DOMAIN C /\ d.pending[d.order[i]] # <<>>
               /\ IsSettled(d) => n = 0
<1> DEFINE n == Len(d.order)
<1>1. PICK at : IsHistoryAt(d, C, ms, at)
  BY DEF IsHistory
<1>2. n \in Nat /\ \A i \in 1..n : d.order[i] \in DOMAIN C
  BY DEF IsDisk
<1>3. \A i \in 1..n : d.pending[d.order[i]] # <<>>
  <2> TAKE i \in 1..n
  <2>1. \E k \in 1..Len(d.pending[d.order[i]]) : TRUE
    BY <1>1 DEF IsHistoryAt
  <2> QED BY <2>1
<1>4. IsSettled(d) => n = 0
  <2> SUFFICES ASSUME IsSettled(d), n # 0 PROVE FALSE
    OBVIOUS
  <2>1. 1 \in 1..n
    BY <1>2
  <2>2. DOMAIN d.pending = DOMAIN C
    BY DEF IsDisk
  <2> QED BY <1>2, <1>3, <2>1, <2>2 DEF IsSettled
<1> QED BY <1>1, <1>2, <1>3, <1>4 DEF IsHistoryAt

-----------------------------------------------------------------------------
\* Every set of slots or file numbers has a lowest one.
LEMMA HasLowest ==
    ASSUME NEW S \in SUBSET Nat, S # {}
    PROVE  \E m \in S : \A k \in S : m <= k
<1>1. PICK m \in S : \A k \in S : ~(<<k, m>> \in OpToRel(<, Nat))
  BY NatLessThanWellFounded, WFMin
<1>2. \A k \in S : ~(k < m)
  BY <1>1 DEF OpToRel
<1> QED BY <1>2
=============================================================================
