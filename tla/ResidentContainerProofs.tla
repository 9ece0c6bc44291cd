----------------------- MODULE ResidentContainerProofs -----------------------
(***************************************************************************)
(* The properties of ResidentContainer and its refinement of               *)
(* AtomicCredential, for any objects, values and generations.              *)
(*                                                                         *)
(* A power cut leaves the flash as it is after some of the queued writes.  *)
(* The invariant speaks of all these moments: Stays says that each of them *)
(* is sound and that the next one shows what was asked for or the same.    *)
(* Every handler appends a few moments to the end; the lemmas of the steps *)
(* show what each of them looks like.                                      *)
(***************************************************************************)
EXTENDS ResidentContainer, FlashQueueProofs

-----------------------------------------------------------------------------
(* The files.                                                              *)

\* No object has more versions than the container.
AgedManifest ==
    {m \in Manifest : \A t \in Types : m.objects[t].generation <= m.generation}

FileContents == [f \in Files |-> CASE f[1] = "marker"   -> {Absent, "PKF1"}
                                   [] f[1] = "manifest" -> {Absent} \cup AgedManifest
                                   [] f[1] = "record"   -> {Absent} \cup Record]

LEMMA FilesOf ==
    /\ marker \in Files
    /\ \A p \in Place : manifest(p) \in Files
    /\ \A p \in Place, t \in Types : record(p, t) \in Files
    /\ \A f \in Files : \/ f = marker
                        \/ \E p \in Place : f = manifest(p)
                        \/ \E p \in Place, t \in Types : f = record(p, t)
  BY DEF Files

LEMMA FilesDiffer ==
    /\ \A p : marker # manifest(p)
    /\ \A p, t : marker # record(p, t)
    /\ \A p, q, t : manifest(p) # record(q, t)
    /\ \A p, q : manifest(p) = manifest(q) => p = q
    /\ \A p, q, t, u : record(p, t) = record(q, u) => p = q /\ t = u
<1>1. /\ marker[1] = "marker"
      /\ \A p : manifest(p)[1] = "manifest" /\ manifest(p)[2] = p
      /\ \A p, t : record(p, t)[1] = "record" /\ record(p, t)[2] = p /\ record(p, t)[3] = t
  BY DEF marker, manifest, record
<1>2. \A p : marker # manifest(p)
  BY <1>1
<1>3. \A p, t : marker # record(p, t)
  BY <1>1
<1>4. \A p, q, t : manifest(p) # record(q, t)
  BY <1>1
<1>5. ASSUME NEW p, NEW q, manifest(p) = manifest(q) PROVE p = q
  BY <1>1, <1>5
<1>6. ASSUME NEW p, NEW q, NEW t, NEW u, record(p, t) = record(q, u) PROVE p = q /\ t = u
  BY <1>1, <1>6
<1> QED BY <1>2, <1>3, <1>4, <1>5, <1>6

LEMMA ContentsOfFiles ==
    /\ DOMAIN FileContents = Files /\ DOMAIN Contents = Files
    /\ FileContents[marker] = {Absent, "PKF1"}
    /\ \A p \in Place : FileContents[manifest(p)] = {Absent} \cup AgedManifest
    /\ \A p \in Place, t \in Types : FileContents[record(p, t)] = {Absent} \cup Record
    /\ \A f \in Files : FileContents[f] \subseteq Contents[f] /\ Absent \in FileContents[f]
<1>1. /\ marker[1] = "marker"
      /\ \A p : manifest(p)[1] = "manifest"
      /\ \A p, t : record(p, t)[1] = "record"
  BY DEF marker, manifest, record
<1>2. DOMAIN FileContents = Files /\ DOMAIN Contents = Files
  BY DEF FileContents, Contents
<1>3. FileContents[marker] = {Absent, "PKF1"} /\ Contents[marker] = {Absent, "PKF1"}
  BY <1>1, FilesOf DEF FileContents, Contents
<1>4. ASSUME NEW p \in Place
      PROVE  /\ FileContents[manifest(p)] = {Absent} \cup AgedManifest
             /\ Contents[manifest(p)] = {Absent} \cup Manifest
  <2>1. manifest(p) \in Files /\ manifest(p)[1] = "manifest"
    BY <1>1, FilesOf
  <2> QED BY <2>1 DEF FileContents, Contents
<1>5. ASSUME NEW p \in Place, NEW t \in Types
      PROVE  /\ FileContents[record(p, t)] = {Absent} \cup Record
             /\ Contents[record(p, t)] = {Absent} \cup Record
  <2>1. record(p, t) \in Files /\ record(p, t)[1] = "record"
    BY <1>1, FilesOf
  <2> QED BY <2>1 DEF FileContents, Contents
<1>6. AgedManifest \subseteq Manifest
  BY DEF AgedManifest
<1> QED BY <1>2, <1>3, <1>4, <1>5, <1>6, FilesOf

\* What the files of the slot may hold at one moment.
Moment == {v \in [Files -> UNION {FileContents[f] : f \in Files}] :
             \A f \in Files : v[f] \in FileContents[f]}

LEMMA MomentOf ==
    ASSUME NEW v \in Moment
    PROVE  /\ v = [f \in Files |-> v[f]]
           /\ v[marker] \in {Absent, "PKF1"}
           /\ \A p \in Place : v[manifest(p)] = Absent \/ v[manifest(p)] \in AgedManifest
           /\ \A p \in Place, t \in Types : v[record(p, t)] = Absent \/ v[record(p, t)] \in Record
<1>1. v = [f \in Files |-> v[f]] /\ \A f \in Files : v[f] \in FileContents[f]
  BY DEF Moment
<1> QED BY <1>1, FilesOf, ContentsOfFiles

LEMMA IsMoment ==
    ASSUME NEW w, w = [f \in Files |-> w[f]], \A f \in Files : w[f] \in FileContents[f]
    PROVE  w \in Moment
<1>1. \A f \in Files : w[f] \in UNION {FileContents[g] : g \in Files}
  OBVIOUS
<1>2. w \in [Files -> UNION {FileContents[g] : g \in Files}]
  BY <1>1
<1> QED BY <1>2 DEF Moment

\* The moment v with contents x of the file f.
With(v, f, x) == [g \in Files |-> IF g = f THEN x ELSE v[g]]

LEMMA MomentWith ==
    ASSUME NEW v \in Moment, NEW f \in Files, NEW x \in FileContents[f]
    PROVE  With(v, f, x) \in Moment
<1>1. \A g \in Files : With(v, f, x)[g] = IF g = f THEN x ELSE v[g]
  BY DEF With
<1>2. \A g \in Files : With(v, f, x)[g] \in FileContents[g]
  BY <1>1 DEF Moment
<1>3. With(v, f, x) = [g \in Files |-> With(v, f, x)[g]]
  BY DEF With
<1> QED BY <1>2, <1>3, IsMoment

\* Two moments are the same if their files are.
LEMMA SameMoment ==
    ASSUME NEW v \in Moment, NEW w \in Moment, \A f \in Files : v[f] = w[f]
    PROVE  v = w
  BY DEF Moment

-----------------------------------------------------------------------------
(* Disks on which every moment of the flash, from now on until core0 has   *)
(* nothing to write, is in S, and every change of one file between two of  *)
(* them in R.  Nothing is said of the moments if files may be written in   *)
(* another order than the calls.                                           *)

RamOf(d) == [f \in Files |-> Read(d, f)]

Stays(d, S, R) ==
    /\ IsDisk(d, FileContents)
    /\ InOrder => \E ms : /\ IsHistory(d, FileContents, ms)
                          /\ \A i \in 0..Len(d.order) : ms[i] \in S
                          /\ \A i \in 1..Len(d.order) : <<ms[i - 1], ms[i]>> \in R

LEMMA HistoryBegins ==
    ASSUME NEW d, NEW ms, IsHistory(d, FileContents, ms)
    PROVE  ms[0] = d.flash
  BY DEF IsHistory, IsHistoryAt

\* From the moment u the flash may go to w.
May(S, R, u, w) == InOrder => w \in S /\ <<u, w>> \in R

LEMMA RamIsMoment ==
    ASSUME NEW d, IsDisk(d, FileContents)
    PROVE  RamOf(d) \in Moment
<1>1. \A f \in Files : Read(d, f) \in FileContents[f]
  BY ReadIsCopy, ContentsOfFiles
<1>2. RamOf(d) = [f \in Files |-> RamOf(d)[f]] /\ \A f \in Files : RamOf(d)[f] = Read(d, f)
  BY DEF RamOf
<1> QED BY <1>1, <1>2, IsMoment

LEMMA FlashIsMoment ==
    ASSUME NEW d, IsDisk(d, FileContents)
    PROVE  d.flash \in Moment
<1>1. d.flash = [f \in Files |-> d.flash[f]] /\ \A f \in Files : d.flash[f] \in FileContents[f]
  BY ContentsOfFiles DEF IsDisk
<1> QED BY <1>1, IsMoment

\* The first moment is the flash, the last what is read.
LEMMA StaysEnds ==
    ASSUME NEW d, NEW S, NEW R, Stays(d, S, R)
    PROVE  /\ InOrder => d.flash \in S /\ RamOf(d) \in S
           /\ IsSettled(d) => d.flash = RamOf(d)
<1>1. IsDisk(d, FileContents) /\ DOMAIN FileContents = Files
  BY ContentsOfFiles DEF Stays
<1>2. ASSUME InOrder PROVE d.flash \in S /\ RamOf(d) \in S
  <2>1. PICK ms : /\ IsHistory(d, FileContents, ms)
                  /\ \A i \in 0..Len(d.order) : ms[i] \in S
    BY <1>2 DEF Stays
  <2>2. /\ Len(d.order) \in Nat /\ ms[0] = d.flash
        /\ ms[Len(d.order)] = [f \in Files |-> Read(d, f)]
    BY <1>1, <2>1, HistoryEnds
  <2> QED BY <2>1, <2>2 DEF RamOf
<1>3. ASSUME IsSettled(d) PROVE d.flash = RamOf(d)
  <2>1. d.flash = [f \in Files |-> d.flash[f]] /\ DOMAIN d.pending = Files
    BY <1>1 DEF IsDisk
  <2>2. \A f \in Files : Read(d, f) = d.flash[f]
    BY <1>3, <2>1 DEF Read, IsSettled
  <2> QED BY <2>1, <2>2 DEF RamOf
<1> QED BY <1>2, <1>3

LEMMA StaysWeaker ==
    ASSUME NEW d, NEW S, NEW R, Stays(d, S, R), NEW S2, NEW R2,
           InOrder => S \subseteq S2 /\ R \subseteq R2
    PROVE  Stays(d, S2, R2)
  BY DEF Stays

LEMMA StaysSettled ==
    ASSUME NEW c \in Moment, NEW S, NEW R, InOrder => c \in S
    PROVE  Stays(Settled(c), S, R) /\ RamOf(Settled(c)) = c
<1>1. /\ DOMAIN FileContents = Files /\ c = [f \in Files |-> c[f]]
      /\ \A f \in Files : c[f] \in FileContents[f]
  BY ContentsOfFiles DEF Moment
<1>2. IsDisk(Settled(c), FileContents) /\ \A f \in Files : Read(Settled(c), f) = c[f]
  BY <1>1, SettledDisk
<1>3. IsHistory(Settled(c), FileContents, [i \in 0..0 |-> c])
  BY <1>1, SettledHistory
<1>4. Settled(c).order = <<>> /\ Len(Settled(c).order) = 0
  BY DEF Settled
<1>5. RamOf(Settled(c)) = c
  BY <1>1, <1>2 DEF RamOf
<1> QED BY <1>2, <1>3, <1>4, <1>5 DEF Stays

LEMMA StaysPut ==
    ASSUME NEW d, NEW S, NEW R, Stays(d, S, R), NEW f \in Files, NEW x \in FileContents[f],
           May(S, R, RamOf(d), With(RamOf(d), f, x))
    PROVE  LET e == Put(d, f, x)
           IN  /\ Stays(e, S, R)
               /\ RamOf(e) = With(RamOf(d), f, x)
               /\ e.flash = d.flash
<1> DEFINE e == Put(d, f, x)
           n == Len(d.order)
<1>1. IsDisk(d, FileContents) /\ DOMAIN FileContents = Files
  BY ContentsOfFiles DEF Stays
<1>2. /\ IsDisk(e, FileContents)
      /\ Read(e, f) = x
      /\ \A g \in Files \ {f} : Read(e, g) = Read(d, g)
      /\ e.flash = d.flash
  BY <1>1, PutDisk
<1> HIDE DEF e
<1>3. RamOf(e) = With(RamOf(d), f, x)
  BY <1>2 DEF RamOf, With
<1>4. ASSUME InOrder
      PROVE  \E now : /\ IsHistory(e, FileContents, now)
                      /\ \A i \in 0..Len(e.order) : now[i] \in S
                      /\ \A i \in 1..Len(e.order) : <<now[i - 1], now[i]>> \in R
  <2>1. PICK ms : /\ IsHistory(d, FileContents, ms)
                  /\ \A i \in 0..n : ms[i] \in S
                  /\ \A i \in 1..n : <<ms[i - 1], ms[i]>> \in R
    BY <1>4 DEF Stays
  <2>2. /\ n \in Nat /\ Len(e.order) = n + 1
        /\ \E now : /\ IsHistory(e, FileContents, now)
                    /\ \A i \in 0..n : now[i] = ms[i]
                    /\ now[n + 1] = [g \in Files |-> Read(e, g)]
    BY <1>1, <1>4, <2>1, PutHistory DEF e
  <2>3. PICK now : /\ IsHistory(e, FileContents, now)
                   /\ \A i \in 0..n : now[i] = ms[i]
                   /\ now[n + 1] = RamOf(e)
    BY <2>2 DEF RamOf
  <2>4. ms[n] = RamOf(d)
    BY <1>1, <2>1, HistoryEnds DEF RamOf
  <2> HIDE DEF n
  <2>5. \A i \in 0..(n + 1) : now[i] \in S
    <3> TAKE i \in 0..(n + 1)
    <3>1. i \in 0..n \/ i = n + 1
      BY <2>2
    <3> QED BY <1>3, <1>4, <2>1, <2>3, <3>1 DEF May
  <2>6. \A i \in 1..(n + 1) : <<now[i - 1], now[i]>> \in R
    <3> TAKE i \in 1..(n + 1)
    <3>1. CASE i \in 1..n
      <4>1. i \in 0..n /\ i - 1 \in 0..n
        BY <2>2, <3>1
      <4> QED BY <2>1, <2>3, <3>1, <4>1
    <3>2. CASE i = n + 1
      <4>1. i - 1 = n /\ n \in 0..n
        BY <2>2, <3>2
      <4> QED BY <1>3, <1>4, <2>3, <2>4, <3>2, <4>1 DEF May
    <3> QED BY <2>2, <3>1, <3>2
  <2> QED BY <2>2, <2>3, <2>5, <2>6
<1> QED BY <1>2, <1>3, <1>4 DEF Stays, e

\* core0 writes: the first moment is over.
LEMMA StaysDrained ==
    ASSUME NEW d, NEW S, NEW R, Stays(d, S, R), NEW f \in Files, CanDrain(d, f)
    PROVE  LET e == Drained(d, f)
           IN  /\ Stays(e, S, R)
               /\ RamOf(e) = RamOf(d)
               /\ InOrder => <<d.flash, e.flash>> \in R
<1> DEFINE e == Drained(d, f)
           n == Len(d.order)
<1>1. IsDisk(d, FileContents) /\ DOMAIN FileContents = Files
  BY ContentsOfFiles DEF Stays
<1>2. IsDisk(e, FileContents) /\ \A g \in Files : Read(e, g) = Read(d, g)
  BY <1>1, DrainedDisk
<1> HIDE DEF e
<1>3. RamOf(e) = RamOf(d)
  BY <1>2 DEF RamOf
<1>4. ASSUME InOrder
      PROVE  /\ \E now : /\ IsHistory(e, FileContents, now)
                         /\ \A i \in 0..Len(e.order) : now[i] \in S
                         /\ \A i \in 1..Len(e.order) : <<now[i - 1], now[i]>> \in R
             /\ <<d.flash, e.flash>> \in R
  <2>1. PICK ms : /\ IsHistory(d, FileContents, ms)
                  /\ \A i \in 0..n : ms[i] \in S
                  /\ \A i \in 1..n : <<ms[i - 1], ms[i]>> \in R
    BY <1>4 DEF Stays
  <2>2. /\ n \in Nat \ {0} /\ Len(e.order) = n - 1
        /\ \E now : /\ IsHistory(e, FileContents, now)
                    /\ \A i \in 0..(n - 1) : now[i] = ms[i + 1]
    BY <1>1, <1>4, <2>1, DrainedHistory DEF e
  <2>3. PICK now : /\ IsHistory(e, FileContents, now)
                   /\ \A i \in 0..(n - 1) : now[i] = ms[i + 1]
    BY <2>2
  <2>4. ms[0] = d.flash /\ now[0] = e.flash
    BY <2>1, <2>3, HistoryBegins
  <2> HIDE DEF n
  <2>5. \A i \in 0..(n - 1) : now[i] \in S
    BY <2>1, <2>2, <2>3
  <2>6. \A i \in 1..(n - 1) : <<now[i - 1], now[i]>> \in R
    <3> TAKE i \in 1..(n - 1)
    <3>1. i \in 0..(n - 1) /\ i - 1 \in 0..(n - 1) /\ i + 1 \in 1..n /\ (i + 1) - 1 = i /\ (i - 1) + 1 = i
      BY <2>2
    <3>2. now[i - 1] = ms[i] /\ now[i] = ms[i + 1] /\ <<ms[(i + 1) - 1], ms[i + 1]>> \in R
      BY <2>1, <2>3, <3>1
    <3> QED BY <3>1, <3>2
  <2>7. <<d.flash, e.flash>> \in R
    <3>1. 0 \in 0..(n - 1) /\ 1 \in 1..n
      BY <2>2
    <3>2. now[0] = ms[0 + 1] /\ <<ms[1 - 1], ms[1]>> \in R
      BY <2>1, <2>3, <3>1
    <3>3. now[0] = ms[1] /\ <<ms[0], ms[1]>> \in R
      BY <3>2
    <3> QED BY <2>4, <3>3
  <2> QED BY <2>2, <2>3, <2>5, <2>6, <2>7
<1> QED BY <1>2, <1>3, <1>4 DEF Stays, e

\* A power cut leaves the first moment.
LEMMA StaysCrashed ==
    ASSUME NEW d, NEW S, NEW R, Stays(d, S, R)
    PROVE  LET e == Crashed(d)
           IN  Stays(e, S, R) /\ RamOf(e) = d.flash /\ e.flash = d.flash
<1>1. d.flash \in Moment /\ (InOrder => d.flash \in S)
  BY FlashIsMoment, StaysEnds DEF Stays
<1> QED BY <1>1, StaysSettled DEF Crashed, Settled

-----------------------------------------------------------------------------
(* Deleting and replacing files.                                           *)

LEMMA StaysDeleteFile ==
    ASSUME NEW d, NEW S, NEW R, Stays(d, S, R), NEW f \in Files,
           May(S, R, RamOf(d), With(RamOf(d), f, Absent))
    PROVE  LET e == DeleteFile(d, f)
           IN  /\ Stays(e, S, R)
               /\ RamOf(e) = With(RamOf(d), f, Absent)
               /\ e.flash = d.flash
<1>1. CASE Read(d, f) = Absent
  <2>1. With(RamOf(d), f, Absent) = RamOf(d)
    BY <1>1 DEF RamOf, With
  <2> QED BY <1>1, <2>1 DEF DeleteFile
<1>2. CASE Read(d, f) # Absent
  <2>1. Absent \in FileContents[f]
    BY ContentsOfFiles
  <2> QED BY <1>2, <2>1, StaysPut DEF DeleteFile
<1> QED BY <1>1, <1>2

LEMMA StaysReplace ==
    ASSUME NEW d, NEW S, NEW R, Stays(d, S, R), NEW f \in Files, NEW x \in FileContents[f],
           May(S, R, RamOf(d), With(RamOf(d), f, Absent)),
           May(S, R, With(RamOf(d), f, Absent), With(RamOf(d), f, x))
    PROVE  LET e == resident_replace_file(d, f, x)
           IN  /\ Stays(e, S, R)
               /\ RamOf(e) = With(RamOf(d), f, x)
               /\ e.flash = d.flash
<1> DEFINE c == DeleteFile(d, f)
           e == Put(c, f, x)
<1>1. Stays(c, S, R) /\ RamOf(c) = With(RamOf(d), f, Absent) /\ c.flash = d.flash
  BY StaysDeleteFile
<1> HIDE DEF c
<1>2. With(RamOf(c), f, x) = With(RamOf(d), f, x)
  BY <1>1 DEF With
<1>3. May(S, R, RamOf(c), With(RamOf(c), f, x))
  BY <1>1, <1>2
<1>4. Stays(e, S, R) /\ RamOf(e) = With(RamOf(c), f, x) /\ e.flash = c.flash
  BY <1>1, <1>3, StaysPut
<1> HIDE DEF e
<1>5. Stays(e, S, R) /\ RamOf(e) = With(RamOf(d), f, x) /\ e.flash = d.flash
  BY <1>1, <1>2, <1>4
<1> QED BY <1>5 DEF resident_replace_file, c, e

\* h are the disks between the deletions of DeleteFiles.
Deletions(h, d, fs, kept) ==
    /\ h[0] = d
    /\ \A n \in 1..Len(fs) : h[n] = IF fs[n] \in kept THEN h[n - 1]
                                    ELSE DeleteFile(h[n - 1], fs[n])

LEMMA DeletionsOf ==
    ASSUME NEW d, NEW fs, Len(fs) \in Nat, NEW kept
    PROVE  \E h : Deletions(h, d, fs, kept) /\ DeleteFiles(d, fs, kept) = h[Len(fs)]
<1> DEFINE Next1(x, n) == IF fs[n] \in kept THEN x ELSE DeleteFile(x, fs[n])
           IsRun(g, m) == g = [n \in 0..m |-> IF n = 0 THEN d
                                              ELSE IF fs[n] \in kept THEN g[n - 1]
                                              ELSE DeleteFile(g[n - 1], fs[n])]
           Bad == {m \in 0..Len(fs) : ~ \E g : IsRun(g, m)}
<1>1. Bad = {}
  <2> SUFFICES ASSUME Bad # {} PROVE FALSE
    OBVIOUS
  <2>1. Bad \in SUBSET Nat
    OBVIOUS
  <2>2. PICK m \in Bad : \A k \in Bad : m <= k
    <3> HIDE DEF Bad
    <3> QED BY <2>1, HasLowest
  <2>3. CASE m = 0
    <3>1. IsRun([n \in 0..0 |-> d], 0)
      OBVIOUS
    <3> QED BY <2>2, <2>3, <3>1
  <2>4. CASE m # 0
    <3>1. m - 1 \in 0..Len(fs) /\ m - 1 \notin Bad /\ m \in Nat
      <4>1. m \in 0..Len(fs)
        BY <2>2
      <4> HIDE DEF Bad
      <4> QED BY <2>2, <2>4, <4>1
    <3>2. PICK g : IsRun(g, m - 1)
      BY <3>1
    <3> DEFINE f == [n \in 0..m |-> IF n = m THEN Next1(g[m - 1], m) ELSE g[n]]
    <3>3. \A n \in 0..m : f[n] = IF n = 0 THEN d ELSE Next1(f[n - 1], n)
      <4> TAKE n \in 0..m
      <4>1. \A k \in 0..(m - 1) : g[k] = IF k = 0 THEN d ELSE Next1(g[k - 1], k)
        BY <3>2
      <4> HIDE DEF Next1
      <4>2. CASE n = m
        BY <2>4, <3>1, <4>2
      <4>3. CASE n # m
        BY <2>4, <3>1, <4>1, <4>3
      <4> QED BY <4>2, <4>3
    <3>4. f = [n \in 0..m |-> f[n]]
      OBVIOUS
    <3> HIDE DEF f
    <3>5. f = [n \in 0..m |-> IF n = 0 THEN d ELSE Next1(f[n - 1], n)]
      BY <3>3, <3>4
    <3>6. IsRun(f, m)
      BY <3>5
    <3> QED BY <2>2, <3>6
  <2> QED BY <2>3, <2>4
<1>2. \E g : IsRun(g, Len(fs))
  BY <1>1
<1> DEFINE h == CHOOSE g : IsRun(g, Len(fs))
<1>3. IsRun(h, Len(fs))
  <2> HIDE DEF IsRun
  <2> QED BY <1>2
<1>4. DeleteFiles(d, fs, kept) = h[Len(fs)]
  BY DEF DeleteFiles
<1> HIDE DEF h
<1>5. \A n \in 0..Len(fs) : h[n] = IF n = 0 THEN d
                                   ELSE IF fs[n] \in kept THEN h[n - 1]
                                   ELSE DeleteFile(h[n - 1], fs[n])
  BY <1>3
<1>6. h[0] = d /\ \A n \in 1..Len(fs) : h[n] = IF fs[n] \in kept THEN h[n - 1]
                                               ELSE DeleteFile(h[n - 1], fs[n])
  BY <1>5
<1> QED BY <1>4, <1>6 DEF Deletions

\* The moment v without the first n files of fs but those in kept.
Without(v, fs, kept, n) ==
    [f \in Files |-> IF f \notin kept /\ \E i \in 1..n : fs[i] = f THEN Absent ELSE v[f]]

LEMMA StaysDeleted ==
    ASSUME NEW d, NEW S, NEW R, Stays(d, S, R), NEW fs \in Seq(Files), NEW kept,
           \A n \in 1..Len(fs) : May(S, R, Without(RamOf(d), fs, kept, n - 1),
                                           Without(RamOf(d), fs, kept, n))
    PROVE  LET e == DeleteFiles(d, fs, kept)
           IN  /\ Stays(e, S, R)
               /\ RamOf(e) = Without(RamOf(d), fs, kept, Len(fs))
               /\ e.flash = d.flash
<1> DEFINE W(n) == Without(RamOf(d), fs, kept, n)
<1>1. Len(fs) \in Nat /\ \A n \in 1..Len(fs) : fs[n] \in Files
  OBVIOUS
<1>2. PICK h : Deletions(h, d, fs, kept) /\ DeleteFiles(d, fs, kept) = h[Len(fs)]
  BY <1>1, DeletionsOf
<1>3. /\ h[0] = d
      /\ \A n \in 1..Len(fs) : h[n] = IF fs[n] \in kept THEN h[n - 1]
                                      ELSE DeleteFile(h[n - 1], fs[n])
  BY <1>2 DEF Deletions
<1> DEFINE Good(n) == Stays(h[n], S, R) /\ RamOf(h[n]) = W(n) /\ h[n].flash = d.flash
           Bad == {n \in 0..Len(fs) : ~Good(n)}
<1>4. Good(0)
  <2>1. W(0) = RamOf(d)
    BY DEF Without, RamOf
  <2> QED BY <1>3, <2>1
<1>5. ASSUME NEW n \in 1..Len(fs), Good(n - 1) PROVE Good(n)
  <2> DEFINE a == W(n - 1)
             b == W(n)
             c == h[n - 1]
  <2>1. /\ b = [f \in Files |-> b[f]] /\ a = [f \in Files |-> a[f]]
        /\ \A f \in Files :
             /\ b[f] = IF f \notin kept /\ \E i \in 1..n : fs[i] = f THEN Absent ELSE RamOf(d)[f]
             /\ a[f] = IF f \notin kept /\ \E i \in 1..(n - 1) : fs[i] = f THEN Absent
                       ELSE RamOf(d)[f]
    BY DEF Without
  <2>2. Stays(c, S, R) /\ RamOf(c) = a /\ c.flash = d.flash
    BY <1>5
  <2>3. May(S, R, a, b)
    OBVIOUS
  <2>4. fs[n] \in Files /\ h[n] = IF fs[n] \in kept THEN c ELSE DeleteFile(c, fs[n])
    BY <1>1, <1>3
  <2>5. Good(n) <=> Stays(h[n], S, R) /\ RamOf(h[n]) = b /\ h[n].flash = d.flash
    OBVIOUS
  <2> HIDE DEF a, b, c, Good
  <2>6. \A i \in Int : i \in 1..n <=> i \in 1..(n - 1) \/ i = n
    BY <1>1
  <2>7. CASE fs[n] \in kept
    <3>1. \A f \in Files : b[f] = a[f]
      BY <2>1, <2>6, <2>7
    <3>2. b = a
      BY <2>1, <3>1
    <3> QED BY <2>2, <2>4, <2>5, <2>7, <3>2
  <2>8. CASE fs[n] \notin kept
    <3>1. \A f \in Files : b[f] = IF f = fs[n] THEN Absent ELSE a[f]
      BY <2>1, <2>6, <2>8
    <3>2. b = With(a, fs[n], Absent)
      BY <2>1, <3>1 DEF With
    <3> DEFINE e == DeleteFile(c, fs[n])
    <3>3. Stays(e, S, R) /\ RamOf(e) = With(RamOf(c), fs[n], Absent) /\ e.flash = c.flash
      BY <2>2, <2>3, <2>4, <3>2, StaysDeleteFile
    <3>4. h[n] = e
      BY <2>4, <2>8
    <3> HIDE DEF e
    <3> QED BY <2>2, <2>5, <3>2, <3>3, <3>4
  <2> QED BY <2>7, <2>8
<1> HIDE DEF Good
<1>6. Bad = {}
  <2> SUFFICES ASSUME Bad # {} PROVE FALSE
    OBVIOUS
  <2>1. Bad \in SUBSET Nat
    BY <1>1
  <2>2. PICK m \in Bad : \A k \in Bad : m <= k
    <3> HIDE DEF Bad
    <3> QED BY <2>1, HasLowest
  <2>3. m # 0 /\ m \in 0..Len(fs) /\ ~Good(m)
    BY <1>4, <2>2
  <2>4. m \in 1..Len(fs) /\ m - 1 \in 0..Len(fs) /\ m - 1 \notin Bad
    <3>1. m \in 1..Len(fs) /\ m - 1 \in 0..Len(fs) /\ ~(m <= m - 1)
      BY <1>1, <2>3
    <3> HIDE DEF Bad
    <3> QED BY <2>2, <3>1
  <2>5. Good(m - 1)
    BY <2>4
  <2> QED BY <1>5, <2>3, <2>4, <2>5
<1>7. Good(Len(fs))
  BY <1>1, <1>6
<1> QED BY <1>2, <1>7 DEF Good

\* h are the disks between the records of RecordsWritten.
Writes(h, m, ts, v) ==
    /\ h[0] = disk
    /\ \A n \in 1..Len(ts) :
         h[n] = resident_replace_file(h[n - 1], record(Target, ts[n]),
                  [generation |-> m.objects[ts[n]].generation, value |-> v])

LEMMA WritesOf ==
    ASSUME NEW m, NEW ts, Len(ts) \in Nat, NEW v
    PROVE  \E h : Writes(h, m, ts, v) /\ RecordsWritten(m, ts, v) = h[Len(ts)]
<1> DEFINE Next1(x, n) == resident_replace_file(x, record(Target, ts[n]),
                            [generation |-> m.objects[ts[n]].generation, value |-> v])
           IsRun(g, k) == g = [n \in 0..k |-> IF n = 0 THEN disk
                                 ELSE resident_replace_file(g[n - 1], record(Target, ts[n]),
                                  [generation |-> m.objects[ts[n]].generation, value |-> v])]
           Bad == {k \in 0..Len(ts) : ~ \E g : IsRun(g, k)}
<1>1. Bad = {}
  <2> SUFFICES ASSUME Bad # {} PROVE FALSE
    OBVIOUS
  <2>1. Bad \in SUBSET Nat
    OBVIOUS
  <2>2. PICK k \in Bad : \A j \in Bad : k <= j
    <3> HIDE DEF Bad
    <3> QED BY <2>1, HasLowest
  <2>3. CASE k = 0
    <3>1. IsRun([n \in 0..0 |-> disk], 0)
      OBVIOUS
    <3> QED BY <2>2, <2>3, <3>1
  <2>4. CASE k # 0
    <3>1. k - 1 \in 0..Len(ts) /\ k - 1 \notin Bad /\ k \in Nat
      <4>1. k \in 0..Len(ts)
        BY <2>2
      <4> HIDE DEF Bad
      <4> QED BY <2>2, <2>4, <4>1
    <3>2. PICK g : IsRun(g, k - 1)
      BY <3>1
    <3> DEFINE f == [n \in 0..k |-> IF n = k THEN Next1(g[k - 1], k) ELSE g[n]]
    <3>3. \A n \in 0..k : f[n] = IF n = 0 THEN disk ELSE Next1(f[n - 1], n)
      <4> TAKE n \in 0..k
      <4>1. \A j \in 0..(k - 1) : g[j] = IF j = 0 THEN disk ELSE Next1(g[j - 1], j)
        BY <3>2
      <4> HIDE DEF Next1
      <4>2. CASE n = k
        BY <2>4, <3>1, <4>2
      <4>3. CASE n # k
        BY <2>4, <3>1, <4>1, <4>3
      <4> QED BY <4>2, <4>3
    <3>4. f = [n \in 0..k |-> f[n]]
      OBVIOUS
    <3> HIDE DEF f
    <3>5. f = [n \in 0..k |-> IF n = 0 THEN disk ELSE Next1(f[n - 1], n)]
      BY <3>3, <3>4
    <3>6. IsRun(f, k)
      BY <3>5
    <3> QED BY <2>2, <3>6
  <2> QED BY <2>3, <2>4
<1>2. \E g : IsRun(g, Len(ts))
  BY <1>1, SMTT(90)
<1> DEFINE h == CHOOSE g : IsRun(g, Len(ts))
<1>3. IsRun(h, Len(ts))
  <2> HIDE DEF IsRun
  <2> QED BY <1>2
<1>4. RecordsWritten(m, ts, v) = h[Len(ts)]
  BY DEF RecordsWritten
<1> HIDE DEF h
<1>5. \A n \in 0..Len(ts) : h[n] = IF n = 0 THEN disk ELSE Next1(h[n - 1], n)
  BY <1>3
<1>6. h[0] = disk /\ \A n \in 1..Len(ts) : h[n] = Next1(h[n - 1], n)
  <2> HIDE DEF Next1
  <2> QED BY <1>5
<1> QED BY <1>4, <1>6 DEF Writes

-----------------------------------------------------------------------------
(* What is valid, and what is seen, at one moment.                         *)

LEMMA Places ==
    ASSUME NEW p \in Place
    PROVE  /\ 1 - p \in Place /\ 1 - p # p /\ 1 - (1 - p) = p
           /\ \A q \in Place : q = p \/ q = 1 - p
  BY DEF Place

LEMMA ManifestParts ==
    ASSUME NEW m \in AgedManifest
    PROVE  /\ m # Absent
           /\ m.generation \in 1..MaxGeneration /\ m.generation \in Nat
           /\ \A t \in Types : /\ m.objects[t] \in Descriptor
                               /\ m.objects[t].place \in Place
                               /\ m.objects[t].generation \in 1..MaxGeneration
                               /\ m.objects[t].generation \in Nat
                               /\ m.objects[t].generation <= m.generation
<1>1. m \in Manifest /\ \A t \in Types : m.objects[t].generation <= m.generation
  BY DEF AgedManifest
<1>2. m # Absent
  BY <1>1, AbsentAssumption
<1>3. MaxGeneration \in Nat
  BY ContainerAssumption
<1>4. m.generation \in 1..MaxGeneration /\ \A t \in Types : m.objects[t] \in Descriptor
  BY <1>1 DEF Manifest, Generation
<1>5. \A t \in Types : m.objects[t].place \in Place /\ m.objects[t].generation \in 1..MaxGeneration
  BY <1>4 DEF Descriptor, Generation
<1>6. \A g \in 1..MaxGeneration : g \in Nat
  BY <1>3
<1> QED BY <1>1, <1>2, <1>4, <1>5, <1>6

LEMMA RecordParts ==
    ASSUME NEW r \in Record
    PROVE  /\ r # Absent /\ r.generation \in 1..MaxGeneration /\ r.value \in Value
           /\ r = [generation |-> r.generation, value |-> r.value]
  BY AbsentAssumption DEF Record, Generation

\* The record the manifest m refers to for the object t, and all of them.
FileOf(m, t) == record(m.objects[t].place, t)

Content(v, p) == [t \in Types |-> v[FileOf(v[manifest(p)], t)].value]

LEMMA FileOfIs ==
    ASSUME NEW m \in AgedManifest, NEW t \in Types
    PROVE  FileOf(m, t) \in Files
  BY ManifestParts, FilesOf DEF FileOf

LEMMA ValidIs ==
    ASSUME NEW v \in Moment, NEW p \in Place
    PROVE  /\ v[manifest(p)] # Absent => v[manifest(p)] \in AgedManifest
           /\ Valid(v, p) <=>
                /\ v[manifest(p)] # Absent
                /\ \A t \in Types :
                     /\ v[FileOf(v[manifest(p)], t)] # Absent
                     /\ v[FileOf(v[manifest(p)], t)].generation
                          = v[manifest(p)].objects[t].generation
           /\ Valid(v, p) => \A t \in Types : v[FileOf(v[manifest(p)], t)] \in Record
<1>1. v[manifest(p)] # Absent => v[manifest(p)] \in AgedManifest
  BY MomentOf
<1>2. Valid(v, p) <=>
        /\ v[manifest(p)] # Absent
        /\ \A t \in Types :
             /\ v[FileOf(v[manifest(p)], t)] # Absent
             /\ v[FileOf(v[manifest(p)], t)].generation = v[manifest(p)].objects[t].generation
  BY DEF Valid, FileOf
<1>3. ASSUME Valid(v, p), NEW t \in Types
      PROVE  v[FileOf(v[manifest(p)], t)] \in Record
  <2>1. v[manifest(p)].objects[t].place \in Place
    BY <1>1, <1>2, <1>3, ManifestParts
  <2>2. v[FileOf(v[manifest(p)], t)] # Absent
    BY <1>2, <1>3
  <2> QED BY <2>1, <2>2, MomentOf DEF FileOf
<1> QED BY <1>1, <1>2, <1>3

LEMMA ContentIs ==
    ASSUME NEW v \in Moment, NEW p \in Place, Valid(v, p)
    PROVE  /\ Content(v, p) \in [Types -> Value]
           /\ \A t \in Types : v[FileOf(v[manifest(p)], t)]
                                 = [generation |-> v[manifest(p)].objects[t].generation,
                                    value |-> Content(v, p)[t]]
<1>1. \A t \in Types : Content(v, p)[t] = v[FileOf(v[manifest(p)], t)].value
  BY DEF Content
<1>2. \A t \in Types : v[FileOf(v[manifest(p)], t)] \in Record
  BY ValidIs
<1>3. \A t \in Types : v[FileOf(v[manifest(p)], t)].generation = v[manifest(p)].objects[t].generation
  BY ValidIs
<1>4. Content(v, p) \in [Types -> Value]
  <2>1. \A t \in Types : Content(v, p)[t] \in Value
    BY <1>1, <1>2, RecordParts
  <2>2. Content(v, p) = [t \in Types |-> Content(v, p)[t]]
    BY DEF Content
  <2> QED BY <2>1, <2>2
<1>5. ASSUME NEW t \in Types
      PROVE  v[FileOf(v[manifest(p)], t)] = [generation |-> v[manifest(p)].objects[t].generation,
                                             value |-> Content(v, p)[t]]
  <2> DEFINE r == v[FileOf(v[manifest(p)], t)]
  <2>1. r \in Record /\ r.generation = v[manifest(p)].objects[t].generation
    BY <1>2, <1>3
  <2>2. Content(v, p)[t] = r.value
    BY <1>1
  <2> HIDE DEF r
  <2>3. r = [generation |-> v[manifest(p)].objects[t].generation, value |-> Content(v, p)[t]]
    BY <2>1, <2>2, RecordParts
  <2> QED BY <2>3 DEF r
<1> QED BY <1>4, <1>5

\* A version does not change with the files it does not refer to.
LEMMA SameVersion ==
    ASSUME NEW u \in Moment, NEW w \in Moment, NEW p \in Place, Valid(u, p),
           w[manifest(p)] = u[manifest(p)],
           \A t \in Types : w[FileOf(u[manifest(p)], t)] = u[FileOf(u[manifest(p)], t)]
    PROVE  Valid(w, p) /\ Content(w, p) = Content(u, p)
<1>1. Valid(w, p)
  BY ValidIs
<1>2. Content(w, p) = Content(u, p)
  BY DEF Content
<1> QED BY <1>1, <1>2

\* The manifest alone is current if the other one is missing or older.
LEMMA CurrentIs ==
    ASSUME NEW v \in Moment, NEW p \in Place, Valid(v, p),
           \/ ~Valid(v, 1 - p)
           \/ v[manifest(1 - p)].generation < v[manifest(p)].generation
    PROVE  IsCurrent(v, p)
  BY DEF IsCurrent

LEMMA OneCurrent ==
    ASSUME NEW v \in Moment, NEW p \in Place, NEW q \in Place, IsCurrent(v, p), IsCurrent(v, q)
    PROVE  p = q
<1> SUFFICES ASSUME q = 1 - p PROVE FALSE
  BY Places
<1>1. Valid(v, p) /\ Valid(v, 1 - p) /\ 1 - (1 - p) = p
  BY Places DEF IsCurrent
<1>2. /\ v[manifest(1 - p)].generation < v[manifest(p)].generation
      /\ v[manifest(p)].generation < v[manifest(1 - p)].generation
  BY <1>1 DEF IsCurrent
<1>3. v[manifest(p)].generation \in Nat /\ v[manifest(1 - p)].generation \in Nat
  BY <1>1, Places, ValidIs, ManifestParts
<1> QED BY <1>2, <1>3

LEMMA LoadsCurrent ==
    ASSUME NEW v \in Moment
    PROVE  /\ Loads(v) => Current(v) \in Place /\ IsCurrent(v, Current(v))
           /\ \A p \in Place : IsCurrent(v, p) => Loads(v) /\ Current(v) = p
<1>1. Loads(v) => Current(v) \in Place /\ IsCurrent(v, Current(v))
  BY DEF Loads, Current
<1> QED BY <1>1, OneCurrent DEF Loads

LEMMA VisibleIs ==
    ASSUME NEW v \in Moment
    PROVE  /\ \A p \in Place : v[marker] # Absent /\ IsCurrent(v, p) => Visible(v) = Content(v, p)
           /\ v[marker] = Absent => Visible(v) = Absent
           /\ (\A p \in Place : ~Valid(v, p)) => Visible(v) = Absent
           /\ \/ Visible(v) = Absent
              \/ \E p \in Place : /\ v[marker] # Absent /\ IsCurrent(v, p)
                                  /\ Valid(v, p) /\ Visible(v) = Content(v, p)
<1>1. ASSUME v[marker] # Absent, Loads(v) PROVE Visible(v) = Content(v, Current(v))
  BY <1>1 DEF Visible, Content, FileOf
<1>2. ASSUME ~(v[marker] # Absent /\ Loads(v)) PROVE Visible(v) = Absent
  BY <1>2 DEF Visible
<1>3. \A p \in Place : IsCurrent(v, p) => Valid(v, p)
  BY DEF IsCurrent
<1>4. (\A p \in Place : ~Valid(v, p)) => ~Loads(v)
  BY <1>3 DEF Loads
<1> QED BY <1>1, <1>2, <1>3, <1>4, LoadsCurrent

LEMMA VisibleType ==
    ASSUME NEW v \in Moment
    PROVE  Visible(v) \in [Types -> Value] \cup {Absent}
  BY VisibleIs, ContentIs

\* Some of the files of u are missing in w.
Fewer(w, u) == \A f \in Files : w[f] = u[f] \/ w[f] = Absent

LEMMA FewerValid ==
    ASSUME NEW u \in Moment, NEW w \in Moment, Fewer(w, u), NEW p \in Place, Valid(w, p)
    PROVE  Valid(u, p) /\ Content(u, p) = Content(w, p) /\ u[manifest(p)] = w[manifest(p)]
<1>1. w[manifest(p)] = u[manifest(p)] /\ w[manifest(p)] \in AgedManifest
  BY ValidIs, FilesOf DEF Fewer
<1>2. ASSUME NEW t \in Types
      PROVE  u[FileOf(w[manifest(p)], t)] = w[FileOf(w[manifest(p)], t)]
  <2>1. FileOf(w[manifest(p)], t) \in Files /\ w[FileOf(w[manifest(p)], t)] # Absent
    BY <1>1, ValidIs, FileOfIs
  <2> QED BY <2>1 DEF Fewer
<1> QED BY <1>1, <1>2, SameVersion

-----------------------------------------------------------------------------
(* Records are written into the free place.                                *)

\* The moments while records of the objects ts are written into place q.
Scratch(r, q, ts, m, x) ==
    {w \in Moment :
       /\ w[marker] = r[marker]
       /\ \A p \in Place : w[manifest(p)] = r[manifest(p)]
       /\ \A p \in Place, t \in Types :
            \/ w[record(p, t)] = r[record(p, t)]
            \/ /\ p = q /\ t \in ts
               /\ w[record(p, t)] \in {Absent, [generation |-> m.objects[t].generation, value |-> x]}}

LEMMA ScratchBegins ==
    ASSUME NEW r \in Moment, NEW q, NEW ts, NEW m, NEW x
    PROVE  r \in Scratch(r, q, ts, m, x)
  BY DEF Scratch

LEMMA ScratchGoesOn ==
    ASSUME NEW r \in Moment, NEW q \in Place, NEW ts \in SUBSET Types, NEW m, NEW x \in Value,
           \A t \in ts : m.objects[t].generation \in Generation,
           NEW w \in Scratch(r, q, ts, m, x), NEW t \in ts,
           NEW y \in {Absent, [generation |-> m.objects[t].generation, value |-> x]}
    PROVE  /\ With(w, record(q, t), y) \in Scratch(r, q, ts, m, x)
           /\ y \in FileContents[record(q, t)]
<1> DEFINE f == record(q, t)
           z == With(w, f, y)
<1>1. w \in Moment /\ f \in Files /\ y \in FileContents[f]
  BY FilesOf, ContentsOfFiles DEF Scratch, Record
<1>2. z \in Moment /\ \A g \in Files : z[g] = IF g = f THEN y ELSE w[g]
  BY <1>1, MomentWith DEF With
<1>3. z[marker] = w[marker] /\ \A p \in Place : z[manifest(p)] = w[manifest(p)]
  BY <1>2, FilesOf, FilesDiffer
<1>4. \A p \in Place, s \in Types :
         IF p = q /\ s = t THEN z[record(p, s)] = y ELSE z[record(p, s)] = w[record(p, s)]
  BY <1>2, FilesOf, FilesDiffer
<1> HIDE DEF z
<1>5. z \in Scratch(r, q, ts, m, x)
  BY <1>2, <1>3, <1>4 DEF Scratch
<1> QED BY <1>1, <1>5 DEF z

AllMay(S, R, Sc) == \A u, w \in Sc : May(S, R, u, w)

LEMMA StaysWritten ==
    ASSUME NEW S, NEW R, Stays(disk, S, R), Target \in Place, NEW os \in SUBSET Types,
           NEW ts \in Seq(os), NEW m, NEW x \in Value,
           \A t \in os : m.objects[t].generation \in Generation,
           AllMay(S, R, Scratch(RamOf(disk), Target, os, m, x))
    PROVE  LET e == RecordsWritten(m, ts, x)
           IN  /\ Stays(e, S, R)
               /\ RamOf(e) \in Scratch(RamOf(disk), Target, os, m, x)
               /\ \A i \in 1..Len(ts) :
                    RamOf(e)[record(Target, ts[i])]
                      = [generation |-> m.objects[ts[i]].generation, value |-> x]
               /\ e.flash = disk.flash
<1> DEFINE q == Target
           Sc == Scratch(RamOf(disk), q, os, m, x)
           new(t) == [generation |-> m.objects[t].generation, value |-> x]
<1>1. Len(ts) \in Nat /\ \A n \in 1..Len(ts) : ts[n] \in os
  OBVIOUS
<1>2. PICK h : Writes(h, m, ts, x) /\ RecordsWritten(m, ts, x) = h[Len(ts)]
  BY <1>1, WritesOf
<1>3. /\ h[0] = disk
      /\ \A n \in 1..Len(ts) : h[n] = resident_replace_file(h[n - 1], record(q, ts[n]), new(ts[n]))
  BY <1>2 DEF Writes
<1>4. RamOf(disk) \in Moment
  BY RamIsMoment DEF Stays
<1> DEFINE Good(n) == /\ Stays(h[n], S, R) /\ RamOf(h[n]) \in Sc /\ h[n].flash = disk.flash
                      /\ \A i \in 1..n : RamOf(h[n])[record(q, ts[i])] = new(ts[i])
           Bad == {n \in 0..Len(ts) : ~Good(n)}
<1>5. Good(0)
  BY <1>3, <1>4, ScratchBegins
<1>6. ASSUME NEW n \in 1..Len(ts), Good(n - 1) PROVE Good(n)
  <2> DEFINE t == ts[n]
             c == h[n - 1]
             f == record(q, t)
             y == new(t)
             e == resident_replace_file(c, f, y)
  <2>1. t \in os /\ t \in Types /\ f \in Files
    BY <1>1, FilesOf
  <2>2. /\ Stays(c, S, R) /\ RamOf(c) \in Sc /\ c.flash = disk.flash
        /\ \A i \in 1..(n - 1) : RamOf(c)[record(q, ts[i])] = new(ts[i])
    BY <1>6
  <2>3. h[n] = e
    BY <1>3
  <2>4. /\ With(RamOf(c), f, Absent) \in Sc /\ With(RamOf(c), f, y) \in Sc
        /\ y \in FileContents[f]
    BY <1>4, <2>1, <2>2, ScratchGoesOn
  <2> HIDE DEF c, Sc, f, y
  <2>5. /\ May(S, R, RamOf(c), With(RamOf(c), f, Absent))
        /\ May(S, R, With(RamOf(c), f, Absent), With(RamOf(c), f, y))
    BY <2>2, <2>4 DEF Sc, AllMay
  <2>6. Stays(e, S, R) /\ RamOf(e) = With(RamOf(c), f, y) /\ e.flash = c.flash
    BY <2>1, <2>2, <2>4, <2>5, StaysReplace
  <2> HIDE DEF e
  <2>7. ASSUME NEW i \in 1..n PROVE RamOf(e)[record(q, ts[i])] = new(ts[i])
    <3>1. record(q, ts[i]) \in Files /\ (i \in 1..(n - 1) \/ i = n)
      BY <1>1, FilesOf
    <3>2. RamOf(e)[record(q, ts[i])] = IF record(q, ts[i]) = f THEN y ELSE RamOf(c)[record(q, ts[i])]
      BY <2>6, <3>1 DEF With
    <3>3. CASE ts[i] = t
      BY <3>2, <3>3 DEF f, y
    <3>4. CASE ts[i] # t
      <4>1. record(q, ts[i]) # f /\ i # n
        BY <3>4, FilesDiffer DEF f
      <4> QED BY <2>2, <3>1, <3>2, <4>1
    <3> QED BY <3>3, <3>4
  <2>8. Good(n) <=> /\ Stays(h[n], S, R) /\ RamOf(h[n]) \in Sc /\ h[n].flash = disk.flash
                    /\ \A i \in 1..n : RamOf(h[n])[record(q, ts[i])] = new(ts[i])
    BY DEF Sc
  <2> HIDE DEF Good, new
  <2> QED BY <2>2, <2>3, <2>4, <2>6, <2>7, <2>8
<1> HIDE DEF Good
<1>7. Bad = {}
  <2> SUFFICES ASSUME Bad # {} PROVE FALSE
    OBVIOUS
  <2>1. Bad \in SUBSET Nat
    BY <1>1
  <2>2. PICK k \in Bad : \A j \in Bad : k <= j
    <3> HIDE DEF Bad
    <3> QED BY <2>1, HasLowest
  <2>3. k # 0 /\ k \in 0..Len(ts) /\ ~Good(k)
    BY <1>5, <2>2
  <2>4. k \in 1..Len(ts) /\ k - 1 \in 0..Len(ts) /\ k - 1 \notin Bad
    <3>1. k \in 1..Len(ts) /\ k - 1 \in 0..Len(ts) /\ ~(k <= k - 1)
      BY <1>1, <2>3
    <3> HIDE DEF Bad
    <3> QED BY <2>2, <3>1
  <2>5. Good(k - 1)
    BY <2>4
  <2> QED BY <1>6, <2>3, <2>4, <2>5
<1>8. Good(Len(ts))
  BY <1>1, <1>7
<1> QED BY <1>2, <1>8 DEF Good

-----------------------------------------------------------------------------
(* The inductive invariant.                                                *)

\* The manifest N of place q was written after X, that of the other place,
\* and what it shares with X are the records that lie there.
Follows(N, X, q) ==
    /\ X.generation < N.generation
    /\ \A t \in Types : /\ X.objects[t].generation <= N.objects[t].generation
                        /\ N.objects[t].place = 1 - q => X.objects[t] = N.objects[t]

BothPresent(v) == \A p \in Place : v[manifest(p)] # Absent

FollowsIn(v, p) == Follows(v[manifest(p)], v[manifest(1 - p)], p)

Paired(v) == BothPresent(v) => \E p \in Place : FollowsIn(v, p)

\* The object every update writes lies where its manifest lies.
OwnMutable(v) ==
    \A p \in Place : v[manifest(p)] # Absent => v[manifest(p)].objects[Mutable].place = p

\* Without a marker there is no container, or one from a creation cut short.
FreeIsUsable(v) ==
    v[marker] = Absent =>
       /\ \A p \in Place : v[manifest(p)] # Absent =>
             \A t \in Types : v[manifest(p)].objects[t].place = p
       /\ HasManifest(v) => \E p \in Place : Valid(v, p)

Sound(v) == Paired(v) /\ OwnMutable(v) /\ FreeIsUsable(v)

\* What is valid was asked for, and the newer manifest is valid.
Whole(v, vs) ==
    /\ \A p \in Place : Valid(v, p) => Content(v, p) \in vs
    /\ \A p \in Place : BothPresent(v) /\ FollowsIn(v, p) /\ Valid(v, 1 - p) => Valid(v, p)

Moments(un, vs) == {v \in Moment : Sound(v) /\ (un \/ Whole(v, vs))}

Changes(any, gs) == {c \in Moment \X Moment : any \/ Visible(c[2]) \in gs \cup {Visible(c[1])}}

\* Everything the new manifest refers to has been written.
Referred(r, N, goal) ==
    \A t \in Types : r[FileOf(N, t)] = [generation |-> N.objects[t].generation, value |-> goal[t]]

\* How far the operation o that waits for the flash has come.
OpIsAt(o, r, gs, vs, un, ag) ==
    LET N == o.manifest
        q == o.target
        X == r[manifest(1 - q)]
    IN  /\ o # Idle => o.goal \in gs
        /\ o.step = "delete" => \A f \in Files : r[f] = Absent
        /\ o.step \in {"records", "manifest", "marker"} =>
             /\ N \in AgedManifest /\ q \in Place /\ o.goal \in vs
             /\ Referred(r, N, o.goal)
             /\ N.objects[Mutable].place = q
             /\ X # Absent => Follows(N, X, q)
             /\ o.step = "records" /\ InOrder =>
                  /\ r[marker] = Absent => /\ \A t \in Types : N.objects[t].place = q
                                           /\ X # Absent => Valid(r, 1 - q)
                  /\ ~un /\ ~ag =>
                       IF X = Absent THEN r[manifest(q)] = Absent
                       ELSE /\ Valid(r, 1 - q)
                            /\ r[manifest(q)] # Absent =>
                                 r[manifest(q)].generation < X.generation
             /\ o.step # "records" => r[manifest(q)] = N
             /\ o.step = "marker" => r[marker] = "PKF1"

OpType ==
    op \in {Idle, [step |-> "delete", goal |-> Absent]} \cup
           [step : {"records", "manifest", "marker"}, manifest : Manifest,
            target : Place, goal : [Types -> Value]]

ContainerInv ==
    /\ OpType
    /\ goals \subseteq versions \cup {Absent}
    /\ versions \subseteq [Types -> Value]
    /\ unsure \in BOOLEAN /\ again \in BOOLEAN
    /\ OpIsAt(op, RamOf(disk), goals, versions, unsure, again)
    /\ Stays(disk, Moments(unsure, versions), Changes(unsure \/ again, goals))

LEMMA MayBe ==
    ASSUME NEW u \in Moment, NEW w \in Moment, NEW un, NEW vs, NEW any, NEW gs,
           InOrder => Sound(w) /\ (un \/ Whole(w, vs)),
           InOrder /\ ~any => Visible(w) \in gs \cup {Visible(u)}
    PROVE  May(Moments(un, vs), Changes(any, gs), u, w)
  BY DEF May, Moments, Changes

LEMMA StaysForMore ==
    ASSUME NEW d, NEW un, NEW vs, NEW any, NEW gs, NEW un2, NEW vs2, NEW any2, NEW gs2,
           Stays(d, Moments(un, vs), Changes(any, gs)),
           un => un2, vs \subseteq vs2, any => any2, gs \subseteq gs2
    PROVE  Stays(d, Moments(un2, vs2), Changes(any2, gs2))
<1>1. Moments(un, vs) \subseteq Moments(un2, vs2)
  BY DEF Moments, Whole
<1>2. Changes(any, gs) \subseteq Changes(any2, gs2)
  BY DEF Changes
<1> QED BY <1>1, <1>2, StaysWeaker

\* Nothing is left to come of a settled disk.
LEMMA StaysAnew ==
    ASSUME NEW d, NEW S, NEW R, Stays(d, S, R), IsSettled(d), NEW S2, NEW R2,
           InOrder => RamOf(d) \in S2
    PROVE  Stays(d, S2, R2)
<1>1. IsDisk(d, FileContents) /\ DOMAIN FileContents = Files
  BY ContentsOfFiles DEF Stays
<1>2. ASSUME InOrder
      PROVE  \E ms : /\ IsHistory(d, FileContents, ms)
                     /\ \A i \in 0..Len(d.order) : ms[i] \in S2
                     /\ \A i \in 1..Len(d.order) : <<ms[i - 1], ms[i]>> \in R2
  <2>1. PICK ms : IsHistory(d, FileContents, ms)
    BY <1>2 DEF Stays
  <2>2. d.order \in Seq(Files) /\ Len(d.order) \in Nat
    <3>1. d.order \in Seq(Files)
      BY <1>1 DEF IsDisk
    <3> QED BY <3>1
  <2>3. \A f \in Files : Len(d.pending[f]) = 0
    <3>1. DOMAIN d.pending = Files
      BY <1>1 DEF IsDisk
    <3> QED BY <3>1 DEF IsSettled
  <2>4. Len(d.order) = 0
    <3>1. PICK at : IsHistoryAt(d, FileContents, ms, at)
      BY <2>1 DEF IsHistory
    <3>2. \A i \in 1..Len(d.order) : 1..Len(d.pending[d.order[i]]) # {}
      BY <3>1 DEF IsHistoryAt
    <3>3. \A i \in 1..Len(d.order) : d.order[i] \in Files
      BY <2>2
    <3>4. 1 \notin 1..Len(d.order)
      BY <2>3, <3>2, <3>3
    <3> QED BY <2>2, <3>4
  <2>5. ms[0] = d.flash /\ d.flash = RamOf(d)
    BY <2>1, HistoryBegins, StaysEnds
  <2> QED BY <1>2, <2>1, <2>4, <2>5
<1> QED BY <1>1, <1>2 DEF Stays

LEMMA PairedIs ==
    ASSUME NEW v \in Moment, Paired(v), BothPresent(v)
    PROVE  \A p \in Place :
              /\ v[manifest(p)].generation \in Nat
              /\ \/ /\ FollowsIn(v, p) /\ ~FollowsIn(v, 1 - p)
                    /\ v[manifest(1 - p)].generation < v[manifest(p)].generation
                 \/ /\ FollowsIn(v, 1 - p) /\ ~FollowsIn(v, p)
                    /\ v[manifest(p)].generation < v[manifest(1 - p)].generation
<1> TAKE p \in Place
<1>1. /\ 1 - p \in Place /\ 1 - (1 - p) = p
      /\ v[manifest(p)].generation \in Nat /\ v[manifest(1 - p)].generation \in Nat
  BY Places, ValidIs, ManifestParts DEF BothPresent
<1>2. FollowsIn(v, p) => v[manifest(1 - p)].generation < v[manifest(p)].generation
  BY DEF FollowsIn, Follows
<1>3. FollowsIn(v, 1 - p) => v[manifest(p)].generation < v[manifest(1 - p)].generation
  BY <1>1 DEF FollowsIn, Follows
<1>4. FollowsIn(v, p) \/ FollowsIn(v, 1 - p)
  BY Places DEF Paired
<1> QED BY <1>1, <1>2, <1>3, <1>4

LEMMA LoadsIfValid ==
    ASSUME NEW v \in Moment, Paired(v), NEW p \in Place, Valid(v, p)
    PROVE  Loads(v)
<1>1. CASE ~Valid(v, 1 - p)
  BY <1>1, CurrentIs DEF Loads
<1>2. CASE Valid(v, 1 - p)
  <2>1. BothPresent(v)
    BY <1>2, Places DEF BothPresent, Valid
  <2>2. \/ v[manifest(1 - p)].generation < v[manifest(p)].generation
        \/ v[manifest(p)].generation < v[manifest(1 - p)].generation
    BY <2>1, PairedIs
  <2>3. IsCurrent(v, p) \/ IsCurrent(v, 1 - p)
    BY <1>2, <2>2, Places, CurrentIs
  <2> QED BY <2>3, Places DEF Loads
<1> QED BY <1>1, <1>2

LEMMA SameManifests ==
    ASSUME NEW u \in Moment, NEW w \in Moment,
           \A p \in Place : w[manifest(p)] = u[manifest(p)]
    PROVE  /\ Paired(u) => Paired(w)
           /\ OwnMutable(u) => OwnMutable(w)
           /\ BothPresent(w) <=> BothPresent(u)
           /\ \A p \in Place : FollowsIn(w, p) <=> FollowsIn(u, p)
<1>1. BothPresent(w) <=> BothPresent(u)
  BY DEF BothPresent
<1>2. \A p \in Place : FollowsIn(w, p) <=> FollowsIn(u, p)
  BY Places DEF FollowsIn
<1> QED BY <1>1, <1>2 DEF Paired, OwnMutable

LEMMA FewerSound ==
    ASSUME NEW u \in Moment, NEW w \in Moment, Fewer(w, u)
    PROVE  /\ Paired(u) => Paired(w)
           /\ OwnMutable(u) => OwnMutable(w)
           /\ BothPresent(w) => BothPresent(u) /\ \A p \in Place : FollowsIn(w, p) <=> FollowsIn(u, p)
           /\ \A p \in Place : w[manifest(p)] # Absent => w[manifest(p)] = u[manifest(p)]
<1>1. \A p \in Place : w[manifest(p)] # Absent => w[manifest(p)] = u[manifest(p)]
  BY FilesOf DEF Fewer
<1>2. BothPresent(w) => BothPresent(u) /\ \A p \in Place : FollowsIn(w, p) <=> FollowsIn(u, p)
  BY <1>1, Places DEF FollowsIn, BothPresent
<1> QED BY <1>1, <1>2 DEF Paired, OwnMutable

-----------------------------------------------------------------------------
(* An update.                                                              *)

LEMMA RamIs == ram = RamOf(disk)
  BY DEF ram, RamOf

\* The manifest an update writes, and the place it goes to.
LEMMA NewManifest ==
    ASSUME NEW ts \in SUBSET Types, ram \in Moment, Loads(ram) \/ ts = Types,
           Fits(NextManifest(ts))
    PROVE  LET r == ram
               q == Target
               N == NextManifest(ts)
               C == r[manifest(1 - q)]
           IN  /\ q \in Place /\ N \in AgedManifest
               /\ \A t \in ts : N.objects[t].place = q
               /\ Loads(r) => /\ 1 - q = Current(r) /\ IsCurrent(r, 1 - q) /\ C \in AgedManifest
                              /\ Follows(N, C, q)
                              /\ \A t \in ts : N.objects[t].generation = C.objects[t].generation + 1
                              /\ \A t \in Types \ ts : N.objects[t] = C.objects[t]
<1> DEFINE r == ram
           q == Target
           N == NextManifest(ts)
           C == r[manifest(1 - q)]
<1>1. CASE ~Loads(ram)
  <2>1. q = 0 /\ ts = Types /\ 0 \in Place /\ 1 \in Generation
    BY <1>1, ContainerAssumption DEF Target, Place, Generation
  <2>2. N = [generation |-> 1,
             objects |-> [t \in Types |-> [generation |-> 1, place |-> q]]]
    BY <1>1 DEF NextManifest
  <2> DEFINE d == [generation |-> 1, place |-> q]
  <2>3. d \in Descriptor /\ d.place = q /\ d.generation = 1
    BY <2>1 DEF Descriptor
  <2> HIDE DEF d
  <2>4. N.generation = 1 /\ N.objects = [t \in Types |-> d] /\ N = [generation |-> 1, objects |-> N.objects]
    BY <2>2 DEF d
  <2> HIDE DEF N, q
  <2>5. N \in Manifest /\ \A t \in Types : N.objects[t] = d
    BY <2>1, <2>3, <2>4 DEF Manifest
  <2>6. N \in AgedManifest
    BY <2>3, <2>4, <2>5 DEF AgedManifest
  <2> QED BY <1>1, <2>1, <2>3, <2>5, <2>6 DEF N, q
<1>2. CASE Loads(ram)
  <2> DEFINE c == Current(r)
  <2>1. c \in Place /\ IsCurrent(r, c) /\ q = 1 - c /\ q \in Place /\ 1 - q = c
    BY <1>2, LoadsCurrent, Places DEF Target
  <2>2. C \in AgedManifest /\ C = r[manifest(c)]
    BY <2>1, ValidIs DEF IsCurrent
  <2> DEFINE d(t) == IF t \in ts THEN [generation |-> C.objects[t].generation + 1, place |-> q]
                     ELSE C.objects[t]
  <2>3. N = [generation |-> C.generation + 1, objects |-> [t \in Types |-> d(t)]]
    BY <1>2, <2>1 DEF NextManifest
  <2>4. N.generation = C.generation + 1 /\ N.objects = [t \in Types |-> d(t)]
    BY <2>3
  <2>5. N.generation \in Generation /\ N.generation \in Nat /\ C.generation \in Nat
    <3>1. C.generation + 1 <= MaxGeneration /\ C.generation \in Nat /\ MaxGeneration \in Nat
      BY <2>2, <2>4, ManifestParts, ContainerAssumption DEF Fits
    <3> QED BY <2>4, <3>1 DEF Generation
  <2> HIDE DEF N, C
  <2>6. ASSUME NEW t \in Types
        PROVE  /\ N.objects[t] = d(t) /\ d(t) \in Descriptor
               /\ d(t).generation \in Nat /\ d(t).generation <= N.generation
               /\ C.objects[t].generation \in Nat
               /\ t \in ts => d(t).place = q /\ d(t).generation = C.objects[t].generation + 1
               /\ t \notin ts => d(t) = C.objects[t]
    <3>1. /\ C.objects[t].generation \in Nat /\ C.objects[t].generation <= C.generation
          /\ C.objects[t] \in Descriptor
      BY <2>2, ManifestParts
    <3>2. CASE t \notin ts
      BY <2>4, <2>5, <3>1, <3>2
    <3>3. CASE t \in ts
      <4> DEFINE g == C.objects[t].generation + 1
                 e == [generation |-> g, place |-> q]
      <4>1. g \in Generation /\ g \in Nat /\ g <= N.generation
        BY <2>4, <2>5, <3>1, ContainerAssumption DEF Generation
      <4> HIDE DEF g
      <4>2. e \in Descriptor /\ e.place = q /\ e.generation = g
        BY <2>1, <4>1 DEF Descriptor
      <4>3. d(t) = e /\ N.objects[t] = d(t)
        BY <2>4, <3>3 DEF g
      <4> HIDE DEF e, d
      <4> QED BY <3>1, <3>3, <4>1, <4>2, <4>3 DEF g
    <3> QED BY <3>2, <3>3
  <2> HIDE DEF d
  <2>7. N \in AgedManifest
    <3>1. N.objects \in [Types -> Descriptor] /\ N = [generation |-> N.generation, objects |-> N.objects]
      BY <2>3, <2>4, <2>6
    <3>2. N \in Manifest
      BY <2>5, <3>1 DEF Manifest
    <3> QED BY <2>6, <3>2 DEF AgedManifest
  <2>8. Follows(N, C, q)
    <3>1. \A t \in Types : C.objects[t].generation <= N.objects[t].generation
      BY <2>6
    <3>2. \A t \in Types : N.objects[t].place = 1 - q => C.objects[t] = N.objects[t]
      BY <2>1, <2>6, Places
    <3> QED BY <2>4, <2>5, <3>1, <3>2 DEF Follows
  <2> QED BY <2>1, <2>2, <2>6, <2>7, <2>8 DEF N, C
<1> QED BY <1>1, <1>2

\* While an update writes, nothing becomes valid that was not.
LEMMA ScratchIsOld ==
    ASSUME NEW r \in Moment, NEW q \in Place, IsCurrent(r, 1 - q), Paired(r),
           NEW vs, Whole(r, vs), NEW ts \in SUBSET Types, NEW m, NEW x,
           \A t \in ts : m.objects[t].generation
                           = r[manifest(1 - q)].objects[t].generation + 1,
           NEW w \in Scratch(r, q, ts, m, x), NEW p \in Place, Valid(w, p)
    PROVE  Valid(r, p) /\ Content(w, p) = Content(r, p)
<1> DEFINE C == r[manifest(1 - q)]
           O == r[manifest(p)]
<1>1. 1 - q \in Place /\ 1 - (1 - q) = q /\ Valid(r, 1 - q) /\ C \in AgedManifest
  BY Places, ValidIs DEF IsCurrent
<1>2. w \in Moment /\ w[manifest(p)] = O /\ O \in AgedManifest
  BY ValidIs DEF Scratch
<1>3. \A t \in Types : O.objects[t].generation <= C.objects[t].generation
  <2>1. CASE p = 1 - q
    BY <1>1, <2>1, ManifestParts
  <2>2. CASE p = q
    <3>1. BothPresent(r)
      BY <1>1, <1>2, <2>2, Places, ManifestParts DEF BothPresent
    <3>2. CASE FollowsIn(r, 1 - q)
      BY <1>1, <2>2, <3>2 DEF FollowsIn, Follows
    <3>3. CASE ~FollowsIn(r, 1 - q)
      <4>1. FollowsIn(r, q) /\ r[manifest(1 - q)].generation < r[manifest(q)].generation
        BY <3>1, <3>3, PairedIs
      <4>2. Valid(r, q)
        BY <1>1, <3>1, <4>1 DEF Whole
      <4>3. r[manifest(q)].generation < r[manifest(1 - q)].generation
        BY <1>1, <4>2 DEF IsCurrent
      <4>4. r[manifest(q)].generation \in Nat /\ r[manifest(1 - q)].generation \in Nat
        BY <1>1, <1>2, <2>2, ManifestParts
      <4> QED BY <4>1, <4>3, <4>4
    <3> QED BY <3>2, <3>3
  <2> QED BY <2>1, <2>2, Places
<1> HIDE DEF O, C
<1>4. ASSUME NEW t \in Types PROVE r[FileOf(O, t)] = w[FileOf(O, t)]
  <2>1. O.objects[t].place \in Place /\ O.objects[t].generation \in Nat
    BY <1>2, ManifestParts
  <2>2. /\ w[FileOf(O, t)] # Absent
        /\ w[FileOf(O, t)].generation = O.objects[t].generation
    BY <1>2, ValidIs
  <2>3. CASE t \in ts /\ w[FileOf(O, t)] = [generation |-> m.objects[t].generation, value |-> x]
    <3>1. m.objects[t].generation = C.objects[t].generation + 1
      BY <2>3 DEF C
    <3>2. w[FileOf(O, t)].generation = C.objects[t].generation + 1
      BY <2>3, <3>1
    <3>3. C.objects[t].generation \in Nat
      BY <1>1, ManifestParts
    <3>4. O.objects[t].generation <= C.objects[t].generation
      BY <1>3
    <3>5. O.objects[t].generation = C.objects[t].generation + 1
      BY <2>2, <3>2
    <3> QED BY <3>3, <3>4, <3>5
  <2>4. CASE ~(t \in ts /\ w[FileOf(O, t)] = [generation |-> m.objects[t].generation, value |-> x])
    BY <2>1, <2>2, <2>4 DEF Scratch, FileOf
  <2> QED BY <2>3, <2>4
<1> QED BY <1>2, <1>4, SameVersion DEF O

\* The current version stays if nothing of it lies in the free place.
LEMMA ScratchKeeps ==
    ASSUME NEW r \in Moment, NEW q \in Place, Valid(r, 1 - q),
           NEW ts \in SUBSET Types, NEW m, NEW x,
           \A t \in ts : r[manifest(1 - q)].objects[t].place = 1 - q,
           NEW w \in Scratch(r, q, ts, m, x)
    PROVE  Valid(w, 1 - q) /\ Content(w, 1 - q) = Content(r, 1 - q)
<1> DEFINE C == r[manifest(1 - q)]
<1>1. 1 - q \in Place /\ 1 - q # q /\ w \in Moment /\ w[manifest(1 - q)] = C /\ C \in AgedManifest
  BY Places, ValidIs DEF Scratch
<1>2. \A t \in Types : C.objects[t].place \in Place
  BY <1>1, ManifestParts
<1>3. \A t \in Types : w[FileOf(C, t)] = r[FileOf(C, t)]
  BY <1>1, <1>2 DEF Scratch, FileOf
<1> QED BY <1>1, <1>3, SameVersion

LEMMA ScratchIsSafe ==
    ASSUME NEW r \in Moment, NEW q \in Place, IsCurrent(r, 1 - q),
           NEW un, NEW vs, Sound(r), un \/ Whole(r, vs),
           NEW ts \in SUBSET Types, NEW m, NEW x,
           \A t \in ts : m.objects[t].generation
                           = r[manifest(1 - q)].objects[t].generation + 1,
           NEW w \in Scratch(r, q, ts, m, x)
    PROVE  Sound(w) /\ (un \/ Whole(w, vs))
<1> DEFINE C == r[manifest(1 - q)]
           O == r[manifest(q)]
<1>1. /\ w \in Moment /\ w[marker] = r[marker]
      /\ \A p \in Place : w[manifest(p)] = r[manifest(p)]
  BY DEF Scratch
<1>2. 1 - q \in Place /\ 1 - (1 - q) = q /\ 1 - q # q /\ Valid(r, 1 - q)
  BY Places DEF IsCurrent
<1>3. Paired(w) /\ OwnMutable(w)
  BY <1>1, SameManifests DEF Sound
<1>4. FreeIsUsable(w)
  <2> SUFFICES ASSUME r[marker] = Absent
               PROVE  /\ \A p \in Place : w[manifest(p)] # Absent =>
                            \A t \in Types : w[manifest(p)].objects[t].place = p
                      /\ \E p \in Place : Valid(w, p)
    BY <1>1 DEF FreeIsUsable
  <2>1. \A p \in Place : r[manifest(p)] # Absent =>
           \A t \in Types : r[manifest(p)].objects[t].place = p
    BY DEF Sound, FreeIsUsable
  <2>2. \A t \in Types : C.objects[t].place = 1 - q
    BY <1>2, <2>1, ValidIs
  <2>3. Valid(w, 1 - q)
    BY <1>2, <2>2, ScratchKeeps
  <2> QED BY <1>1, <1>2, <2>1, <2>3
<1>5. ASSUME ~un PROVE Whole(w, vs)
  <2>1. Whole(r, vs) /\ Paired(r)
    BY <1>5 DEF Sound
  <2>2. \A p \in Place : Valid(w, p) => Valid(r, p) /\ Content(w, p) = Content(r, p)
    BY <2>1, ScratchIsOld
  <2>3. \A p \in Place : Valid(w, p) => Content(w, p) \in vs
    BY <2>1, <2>2 DEF Whole
  <2>4. ASSUME NEW p \in Place, BothPresent(w), FollowsIn(w, p), Valid(w, 1 - p)
        PROVE  Valid(w, p)
    <3>1. BothPresent(r) /\ FollowsIn(r, p) /\ Valid(r, 1 - p) /\ 1 - p \in Place
      BY <1>1, <2>2, <2>4, SameManifests, Places
    <3>2. Valid(r, p)
      BY <2>1, <3>1 DEF Whole
    <3>3. p = 1 - q
      <4> SUFFICES ASSUME p = q PROVE FALSE
        BY Places
      <4>1. r[manifest(q)].generation < r[manifest(1 - q)].generation
        BY <1>2, <3>2 DEF IsCurrent
      <4>2. r[manifest(1 - q)].generation < r[manifest(q)].generation
        BY <2>1, <3>1, PairedIs
      <4>3. r[manifest(1 - q)].generation \in Nat /\ r[manifest(q)].generation \in Nat
        BY <1>2, <2>1, <3>1, PairedIs
      <4> QED BY <4>1, <4>2, <4>3
    <3>4. /\ Valid(w, q) /\ w[manifest(q)] = O /\ w[manifest(1 - q)] = C
          /\ C \in AgedManifest
      BY <1>1, <1>2, <2>4, <3>3, ValidIs
    <3>5. \A t \in Types : C.objects[t].place = q => O.objects[t] = C.objects[t]
      BY <1>2, <3>1, <3>3 DEF FollowsIn, Follows
    <3> HIDE DEF C, O
    <3>6. ASSUME NEW t \in Types
          PROVE  w[FileOf(C, t)] # Absent /\ w[FileOf(C, t)].generation = C.objects[t].generation
      <4>1. CASE C.objects[t].place = q
        <5>1. FileOf(C, t) = FileOf(O, t) /\ O.objects[t] = C.objects[t]
          BY <3>5, <4>1 DEF FileOf
        <5> QED BY <3>4, <5>1, <1>1, ValidIs
      <4>2. CASE C.objects[t].place # q
        <5>1. C.objects[t].place \in Place
          BY <3>4, ManifestParts
        <5>2. w[FileOf(C, t)] = r[FileOf(C, t)]
          BY <4>2, <5>1 DEF Scratch, FileOf
        <5> QED BY <1>2, <5>2, ValidIs DEF C
      <4> QED BY <4>1, <4>2
    <3>7. C # Absent
      BY <3>4, ManifestParts
    <3> QED BY <1>1, <1>2, <3>3, <3>4, <3>6, <3>7, ValidIs
  <2> QED BY <2>3, <2>4 DEF Whole
<1> QED BY <1>3, <1>4, <1>5 DEF Sound

LEMMA NoManifest ==
    ASSUME NEW v \in Moment, ~HasManifest(v), NEW vs
    PROVE  /\ Sound(v) /\ Whole(v, vs) /\ Visible(v) = Absent
           /\ \A p \in Place : v[manifest(p)] = Absent /\ ~Valid(v, p)
<1>1. \A p \in Place : v[manifest(p)] = Absent /\ ~Valid(v, p)
  BY DEF HasManifest, Valid
<1>2. 0 \in Place
  BY DEF Place
<1>3. ~BothPresent(v)
  BY <1>1, <1>2 DEF BothPresent
<1> QED BY <1>1, <1>3, VisibleIs DEF Sound, Paired, OwnMutable, FreeIsUsable, Whole

LEMMA WholeForMore ==
    ASSUME NEW v, NEW vs, NEW vs2, Whole(v, vs), vs \subseteq vs2
    PROVE  Whole(v, vs2)
  BY DEF Whole

\* What is seen does not change while the records of a version are written.
LEMMA ScratchIsSame ==
    ASSUME NEW r \in Moment, NEW q \in Place, IsCurrent(r, 1 - q), Paired(r),
           NEW vs, Whole(r, vs), NEW ts \in SUBSET Types, NEW m, NEW x,
           \A t \in ts : m.objects[t].generation
                           = r[manifest(1 - q)].objects[t].generation + 1,
           r[marker] = Absent \/ \A t \in ts : r[manifest(1 - q)].objects[t].place = 1 - q,
           NEW w \in Scratch(r, q, ts, m, x)
    PROVE  Visible(w) = Visible(r)
<1>1. w \in Moment /\ w[marker] = r[marker] /\ \A p \in Place : w[manifest(p)] = r[manifest(p)]
  BY DEF Scratch
<1>2. 1 - q \in Place /\ 1 - (1 - q) = q /\ Valid(r, 1 - q)
  BY Places DEF IsCurrent
<1>3. CASE r[marker] = Absent
  BY <1>1, <1>3, VisibleIs
<1>4. CASE r[marker] # Absent
  <2>1. Valid(w, 1 - q) /\ Content(w, 1 - q) = Content(r, 1 - q)
    BY <1>2, <1>4, ScratchKeeps
  <2>2. Valid(w, q) => w[manifest(q)].generation < w[manifest(1 - q)].generation
    <3>1. Valid(w, q) => Valid(r, q)
      BY ScratchIsOld
    <3>2. Valid(r, q) => r[manifest(q)].generation < r[manifest(1 - q)].generation
      BY <1>2 DEF IsCurrent
    <3> QED BY <1>1, <1>2, <3>1, <3>2
  <2>3. IsCurrent(w, 1 - q)
    BY <1>1, <1>2, <2>1, <2>2, CurrentIs
  <2>4. Visible(w) = Content(w, 1 - q) /\ Visible(r) = Content(r, 1 - q)
    BY <1>1, <1>2, <1>4, <2>3, VisibleIs
  <2> QED BY <2>1, <2>4
<1> QED BY <1>3, <1>4

LEMMA IdleIsAt ==
    ASSUME NEW r, NEW gs, NEW vs, NEW un, NEW ag
    PROVE  OpIsAt(Idle, r, gs, vs, un, ag)
<1>1. Idle.step = "idle"
  BY DEF Idle
<1> QED BY <1>1 DEF OpIsAt

\* At the moment r, N with new records x of ts at place q is the version goal.
IsNewVersion(r, q, ts, N, x, goal) ==
    /\ \A t \in ts : goal[t] = x /\ N.objects[t].place = q
    /\ \/ ~HasManifest(r) /\ ts = Types
       \/ /\ IsCurrent(r, 1 - q) /\ Follows(N, r[manifest(1 - q)], q)
          /\ \A t \in ts : N.objects[t].generation
                             = r[manifest(1 - q)].objects[t].generation + 1
          /\ \A t \in Types \ ts : /\ N.objects[t] = r[manifest(1 - q)].objects[t]
                                   /\ goal[t] = Content(r, 1 - q)[t]

HasRecords(w, q, ts, N, x) ==
    \A t \in ts : w[record(q, t)] = [generation |-> N.objects[t].generation, value |-> x]

\* The records of an update are written.
LEMMA RecordsAreAt ==
    ASSUME NEW r \in Moment, NEW q \in Place, NEW ts \in SUBSET Types, Mutable \in ts,
           NEW N \in AgedManifest, NEW x \in Value, NEW goal, NEW gs, NEW vs, NEW un, NEW ag,
           goal \in gs, goal \in vs,
           IsNewVersion(r, q, ts, N, x, goal),
           r[marker] = Absent => ts = Types,
           ag \/ r[marker] = Absent \/ ts = {Mutable},
           InOrder => Sound(r) /\ (un \/ Whole(r, vs)),
           NEW w \in Scratch(r, q, ts, N, x), HasRecords(w, q, ts, N, x),
           NEW o, o = [step |-> "records", manifest |-> N, target |-> q, goal |-> goal]
    PROVE  OpIsAt(o, w, gs, vs, un, ag)
<1> DEFINE C == r[manifest(1 - q)]
           X == w[manifest(1 - q)]
<1>1. o.step = "records" /\ o.manifest = N /\ o.target = q /\ o.goal = goal
  OBVIOUS
<1> USE DEF IsNewVersion
<1>2. /\ w \in Moment /\ w[marker] = r[marker]
      /\ \A p \in Place : w[manifest(p)] = r[manifest(p)]
      /\ 1 - q \in Place /\ 1 - q # q /\ 1 - (1 - q) = q /\ X = C
  BY Places DEF Scratch
<1>3. Referred(w, N, goal)
  <2> SUFFICES ASSUME NEW t \in Types
               PROVE  w[FileOf(N, t)] = [generation |-> N.objects[t].generation, value |-> goal[t]]
    BY DEF Referred
  <2>1. CASE t \in ts
    BY <2>1 DEF FileOf, HasRecords
  <2>2. CASE t \notin ts
    <3>1. IsCurrent(r, 1 - q) /\ N.objects[t] = C.objects[t] /\ goal[t] = Content(r, 1 - q)[t]
      BY <2>2
    <3>2. r[FileOf(C, t)] = [generation |-> N.objects[t].generation, value |-> goal[t]]
      BY <1>2, <3>1, ContentIs DEF IsCurrent
    <3>3. FileOf(N, t) = FileOf(C, t) /\ N.objects[t].place \in Place
      BY <3>1, ManifestParts DEF FileOf
    <3>4. w[FileOf(N, t)] = r[FileOf(N, t)]
      BY <2>2, <3>3 DEF Scratch, FileOf
    <3> QED BY <3>2, <3>3, <3>4
  <2> QED BY <2>1, <2>2
<1>4. X # Absent => Follows(N, X, q)
  <2>1. ~HasManifest(r) => C = Absent
    BY <1>2 DEF HasManifest
  <2> QED BY <1>2, <2>1
<1>5. ASSUME InOrder, w[marker] = Absent
      PROVE  /\ \A t \in Types : N.objects[t].place = q
             /\ X # Absent => Valid(w, 1 - q)
  <2>1. \A t \in Types : N.objects[t].place = q
    BY <1>2, <1>5
  <2>2. ASSUME X # Absent PROVE Valid(w, 1 - q)
    <3>1. HasManifest(r) /\ IsCurrent(r, 1 - q)
      BY <1>2, <2>2 DEF HasManifest
    <3>2. \A t \in Types : C.objects[t].place = 1 - q
      BY <1>2, <1>5, <2>2 DEF Sound, FreeIsUsable
    <3> QED BY <3>1, <3>2, ScratchKeeps DEF IsCurrent
  <2> QED BY <2>1, <2>2
<1>6. ASSUME InOrder, ~un, ~ag
      PROVE  IF X = Absent THEN w[manifest(q)] = Absent
             ELSE /\ Valid(w, 1 - q)
                  /\ w[manifest(q)] # Absent => w[manifest(q)].generation < X.generation
  <2>1. CASE ~HasManifest(r)
    BY <1>2, <2>1 DEF HasManifest
  <2>2. CASE HasManifest(r)
    <3>1. IsCurrent(r, 1 - q) /\ Valid(r, 1 - q) /\ Whole(r, vs) /\ Sound(r)
      BY <1>6, <2>2 DEF IsCurrent
    <3>2. X # Absent
      BY <1>2, <3>1, ValidIs
    <3>3. \A t \in ts : C.objects[t].place = 1 - q
      <4>1. CASE r[marker] = Absent
        BY <1>2, <3>1, <3>2, <4>1 DEF Sound, FreeIsUsable
      <4>2. CASE ts = {Mutable}
        BY <1>2, <3>1, <3>2, <4>2 DEF Sound, OwnMutable
      <4> QED BY <1>6, <4>1, <4>2
    <3>4. Valid(w, 1 - q)
      BY <3>1, <3>3, ScratchKeeps
    <3>5. ASSUME w[manifest(q)] # Absent PROVE w[manifest(q)].generation < X.generation
      <4>1. BothPresent(r) /\ Paired(r)
        BY <1>2, <3>1, <3>2, <3>5, Places DEF BothPresent, Sound
      <4>2. CASE FollowsIn(r, 1 - q)
        BY <1>2, <4>2 DEF FollowsIn, Follows
      <4>3. CASE ~FollowsIn(r, 1 - q)
        <5>1. FollowsIn(r, q)
          BY <4>1, <4>3, PairedIs
        <5>2. Valid(r, q)
          BY <3>1, <4>1, <5>1 DEF Whole
        <5> QED BY <1>2, <3>1, <5>2 DEF IsCurrent
      <4> QED BY <4>2, <4>3
    <3> QED BY <3>2, <3>4, <3>5
  <2> QED BY <2>1, <2>2
<1>7. N.objects[Mutable].place = q
  OBVIOUS
<1> HIDE DEF X
<1>8. X = w[manifest(1 - o.target)]
  BY <1>1 DEF X
<1> QED BY <1>1, <1>3, <1>4, <1>5, <1>6, <1>7, <1>8 DEF OpIsAt

LEMMA ContainerInvParts ==
    ASSUME ContainerInv
    PROVE  /\ IsDisk(disk, FileContents) /\ RamOf(disk) \in Moment /\ disk.flash \in Moment
           /\ InOrder => /\ Sound(RamOf(disk)) /\ Sound(disk.flash)
                         /\ unsure \/ (Whole(RamOf(disk), versions) /\ Whole(disk.flash, versions))
<1>1. Stays(disk, Moments(unsure, versions), Changes(unsure \/ again, goals))
  BY DEF ContainerInv
<1>2. IsDisk(disk, FileContents)
  BY <1>1 DEF Stays
<1>3. InOrder => RamOf(disk) \in Moments(unsure, versions) /\ disk.flash \in Moments(unsure, versions)
  BY <1>1, StaysEnds
<1> QED BY <1>2, <1>3, RamIsMoment, FlashIsMoment DEF Moments

LEMMA RangeIs ==
    ASSUME NEW ts \in Seq(Types)
    PROVE  Range(ts) = {ts[i] : i \in 1..Len(ts)}
  BY DEF Range

IsRange(T, ts) == T = {ts[i] : i \in 1..Len(ts)}

LEMMA MembersOf ==
    ASSUME NEW ts, NEW T, ts \in Seq(Types), IsRange(T, ts)
    PROVE  /\ T \in SUBSET Types /\ Len(ts) \in Nat
           /\ \A t \in T : \E i \in 1..Len(ts) : ts[i] = t
           /\ \A i \in 1..Len(ts) : ts[i] \in T
           /\ ts \in Seq(T)
<1>1. Len(ts) \in Nat /\ \A i \in 1..Len(ts) : ts[i] \in Types
  OBVIOUS
<1>2. /\ T \in SUBSET Types
      /\ \A t \in T : \E i \in 1..Len(ts) : ts[i] = t
      /\ \A i \in 1..Len(ts) : ts[i] \in T
  BY <1>1 DEF IsRange
<1>3. ts \in Seq(T)
  BY <1>2
<1> QED BY <1>1, <1>2, <1>3

LEMMA UpdateStep ==
    ASSUME ContainerInv, NEW ts \in Seq(Types), NEW x \in Value, NEW goal \in [Types -> Value],
           resident_container_update(ts, x, goal),
           Mutable \in Range(ts), Loads(ram) \/ Range(ts) = Types,
           ram[marker] = Absent => Range(ts) = Types,
           \A t \in Range(ts) : goal[t] = x,
           Loads(ram) => \A t \in Types \ Range(ts) : goal[t] = Content(ram, Current(ram))[t],
           again' \in BOOLEAN, again => again',
           again' \/ ram[marker] = Absent \/ Range(ts) = {Mutable}
    PROVE  /\ ContainerInv'
           /\ disk'.flash = disk.flash /\ unsure' = unsure /\ goals' = goals \cup {goal}
<1> DEFINE r == RamOf(disk)
           T == Range(ts)
           q == Target
           N == NextManifest(T)
           C == r[manifest(1 - q)]
           Sc == Scratch(r, q, T, N, x)
           S == Moments(unsure, versions')
           R == Changes(unsure \/ again', goals')
<1>1. /\ HasManifest(r) => Loads(r)
      /\ Fits(N)
      /\ goals' = goals \cup {goal} /\ versions' = versions \cup {goal} /\ unsure' = unsure
      /\ goals \subseteq versions \cup {Absent} /\ versions \subseteq [Types -> Value]
      /\ unsure \in BOOLEAN
      /\ ram = r
  BY RamIs DEF resident_container_update, ContainerInv
<1>2. /\ T \in SUBSET Types /\ Len(ts) \in Nat
      /\ \A t \in T : \E i \in 1..Len(ts) : ts[i] = t
      /\ \A i \in 1..Len(ts) : ts[i] \in T
      /\ ts \in Seq(T)
  <2>1. ts \in Seq(Types) /\ IsRange(T, ts)
    BY RangeIs DEF IsRange
  <2> HIDE DEF T
  <2> QED BY <2>1, MembersOf
<1>3. /\ r \in Moment
      /\ InOrder => Sound(r) /\ (unsure \/ Whole(r, versions))
  BY ContainerInvParts
<1>4. /\ q \in Place /\ N \in AgedManifest
      /\ \A t \in T : N.objects[t].place = q
      /\ Loads(r) => /\ 1 - q = Current(r) /\ IsCurrent(r, 1 - q)
                     /\ Follows(N, C, q)
                     /\ \A t \in T : N.objects[t].generation = C.objects[t].generation + 1
                     /\ \A t \in Types \ T : N.objects[t] = C.objects[t]
  BY <1>1, <1>2, <1>3, NewManifest
<1>5. \A t \in T : N.objects[t].generation \in Generation
  BY <1>2, <1>4, ManifestParts DEF Generation
<1>6. \A t \in T : goal[t] = x
  OBVIOUS
<1>7. again' \/ r[marker] = Absent \/ T = {Mutable}
  BY <1>1
<1>8. r[marker] = Absent => T = Types
  BY <1>1
<1>9. Loads(r) \/ T = Types
  BY <1>1
<1>10. Loads(r) => \A t \in Types \ T : goal[t] = Content(r, 1 - q)[t]
  BY <1>1, <1>4
<1>11. Stays(disk, Moments(unsure, versions), Changes(unsure \/ again, goals))
  BY DEF ContainerInv
<1>12. Mutable \in T /\ Mutable \in Types
  BY ContainerAssumption
<1> HIDE DEF T, N, q, r, C
<1>12a. \A n \in 0..Len(ts) : SubSeq(ts, 1, n) \in Seq(T)
  BY <1>2
<1>13. Stays(disk, S, R)
  BY <1>1, <1>11, StaysForMore
<1>14. ASSUME NEW w \in Sc, InOrder PROVE Sound(w) /\ (unsure \/ Whole(w, versions'))
  <2>1. w \in Moment /\ \A p \in Place : w[manifest(p)] = r[manifest(p)]
    BY DEF Scratch
  <2>2. CASE Loads(r)
    <3>1. Sound(w) /\ (unsure \/ Whole(w, versions))
      BY <1>2, <1>3, <1>4, <1>14, <2>2, ScratchIsSafe DEF C
    <3> QED BY <1>1, <3>1, WholeForMore
  <2>3. CASE ~Loads(r)
    <3>1. ~HasManifest(w)
      BY <1>1, <2>1, <2>3 DEF HasManifest
    <3> QED BY <2>1, <3>1, NoManifest
  <2> QED BY <2>2, <2>3
<1>15. ASSUME NEW w \in Sc, InOrder, ~unsure, ~again' PROVE Visible(w) = Visible(r)
  <2>1. w \in Moment /\ \A p \in Place : w[manifest(p)] = r[manifest(p)]
    BY DEF Scratch
  <2>2. CASE Loads(r)
    <3>1. Whole(r, versions) /\ Paired(r) /\ OwnMutable(r)
      BY <1>3, <1>15 DEF Sound
    <3>2. 1 - q \in Place /\ C # Absent
      BY <1>3, <1>4, <2>2, Places, ValidIs DEF IsCurrent, C
    <3>3. r[marker] = Absent \/ \A t \in T : C.objects[t].place = 1 - q
      BY <1>7, <1>15, <3>1, <3>2 DEF OwnMutable, C
    <3>4. /\ r \in Moment /\ q \in Place /\ IsCurrent(r, 1 - q)
          /\ Paired(r) /\ Whole(r, versions) /\ T \in SUBSET Types
          /\ \A t \in T : N.objects[t].generation = r[manifest(1 - q)].objects[t].generation + 1
          /\ r[marker] = Absent \/ \A t \in T : r[manifest(1 - q)].objects[t].place = 1 - q
          /\ w \in Scratch(r, q, T, N, x)
      BY <1>2, <1>3, <1>4, <2>2, <3>1, <3>3 DEF C
    <3> HIDE DEF S, R, Sc
    <3> QED BY <3>4, ScratchIsSame
  <2>3. CASE ~Loads(r)
    <3>1. ~HasManifest(w) /\ ~HasManifest(r)
      BY <1>1, <2>1, <2>3 DEF HasManifest
    <3> QED BY <1>3, <2>1, <3>1, NoManifest
  <2> QED BY <2>2, <2>3
<1>16. ASSUME NEW u \in Sc, NEW w \in Sc PROVE May(S, R, u, w)
  <2>1. u \in Moment /\ w \in Moment
    BY DEF Scratch
  <2>2. InOrder /\ ~(unsure \/ again') => Visible(w) \in goals' \cup {Visible(u)}
    BY <1>15
  <2> QED BY <1>14, <2>1, <2>2, MayBe
<1>17. ASSUME NEW us \in Seq(T)
       PROVE  LET e == RecordsWritten(N, us, x)
              IN  /\ Stays(e, S, R) /\ RamOf(e) \in Sc /\ e.flash = disk.flash
                  /\ \A i \in 1..Len(us) :
                       RamOf(e)[record(q, us[i])]
                         = [generation |-> N.objects[us[i]].generation, value |-> x]
  <2>1. AllMay(S, R, Scratch(RamOf(disk), Target, T, N, x))
    BY <1>16 DEF AllMay, r, q
  <2>2. Target \in Place
    BY <1>4 DEF q
  <2> DEFINE e == RecordsWritten(N, us, x)
  <2> HIDE DEF S, R
  <2>3. /\ Stays(e, S, R)
        /\ RamOf(e) \in Scratch(RamOf(disk), Target, T, N, x)
        /\ \A i \in 1..Len(us) :
             RamOf(e)[record(Target, us[i])]
               = [generation |-> N.objects[us[i]].generation, value |-> x]
        /\ e.flash = disk.flash
    <3>1. T \in SUBSET Types
      BY <1>2
    <3> QED BY <1>5, <1>13, <2>1, <2>2, <3>1, StaysWritten
  <2> HIDE DEF e
  <2> QED BY <2>3 DEF r, q, e
<1>18. /\ goals' \subseteq versions' \cup {Absent} /\ versions' \subseteq [Types -> Value]
       /\ unsure' \in BOOLEAN /\ again' \in BOOLEAN
  BY <1>1
<1>19. \/ /\ disk' = RecordsWritten(N, ts, x)
          /\ op' = [step |-> "records", manifest |-> N, target |-> q, goal |-> goal]
       \/ /\ \E n \in 0..(Len(ts) - 1) :
               disk' \in {RecordsWritten(N, SubSeq(ts, 1, n), x),
                          DeleteFile(RecordsWritten(N, SubSeq(ts, 1, n), x), record(q, ts[n + 1]))}
          /\ op' = Idle
  <2>1. SubSeq(ts, 1, Len(ts)) = ts
    BY <1>2
  <2> QED BY <2>1 DEF resident_container_update, N, q, T
<1>20. CASE /\ disk' = RecordsWritten(N, ts, x)
            /\ op' = [step |-> "records", manifest |-> N, target |-> q, goal |-> goal]
  <2> DEFINE w == RamOf(disk')
  <2>1. /\ Stays(disk', S, R) /\ w \in Sc /\ disk'.flash = disk.flash
        /\ \A i \in 1..Len(ts) :
             w[record(q, ts[i])] = [generation |-> N.objects[ts[i]].generation, value |-> x]
    BY <1>2, <1>17, <1>20
  <2>2. HasRecords(w, q, T, N, x)
    BY <1>2, <2>1, SMTT(90) DEF HasRecords
  <2> HIDE DEF w
  <2>3. OpIsAt(op', w, goals', versions', unsure, again')
    <3>1. goal \in goals' /\ goal \in versions'
      BY <1>1
    <3>2. IsNewVersion(r, q, T, N, x, goal)
      BY <1>1, <1>4, <1>6, <1>9, <1>10 DEF C, IsNewVersion
    <3>3. InOrder => Sound(r) /\ (unsure \/ Whole(r, versions'))
      BY <1>1, <1>3, WholeForMore
    <3>4. w \in Scratch(r, q, T, N, x)
      BY <2>1
    <3> HIDE DEF S, R, Sc
    <3>5. /\ r \in Moment /\ q \in Place /\ T \in SUBSET Types /\ Mutable \in T
          /\ N \in AgedManifest
      BY <1>2, <1>3, <1>4, <1>12
    <3>6. op' = [step |-> "records", manifest |-> N, target |-> q, goal |-> goal]
      BY <1>20
    <3> QED BY <1>7, <1>8, <2>2, <3>1, <3>2, <3>3, <3>4, <3>5, <3>6, RecordsAreAt
  <2>4. OpType'
    <3>1. N \in Manifest
      BY <1>4 DEF AgedManifest
    <3>2. op' \in [step : {"records", "manifest", "marker"}, manifest : Manifest,
                   target : Place, goal : [Types -> Value]]
      BY <1>4, <1>20, <3>1
    <3> QED BY <3>2 DEF OpType
  <2> QED BY <1>1, <1>18, <2>1, <2>3, <2>4 DEF ContainerInv, w
<1>21. CASE /\ \E n \in 0..(Len(ts) - 1) :
                 disk' \in {RecordsWritten(N, SubSeq(ts, 1, n), x),
                            DeleteFile(RecordsWritten(N, SubSeq(ts, 1, n), x), record(q, ts[n + 1]))}
            /\ op' = Idle
  <2>1. PICK n \in 0..(Len(ts) - 1) :
           disk' \in {RecordsWritten(N, SubSeq(ts, 1, n), x),
                      DeleteFile(RecordsWritten(N, SubSeq(ts, 1, n), x), record(q, ts[n + 1]))}
    BY <1>21
  <2> DEFINE e == RecordsWritten(N, SubSeq(ts, 1, n), x)
             f == record(q, ts[n + 1])
             z == With(RamOf(e), f, Absent)
  <2>2. n \in 0..Len(ts) /\ n + 1 \in 1..Len(ts) /\ ts[n + 1] \in T /\ f \in Files
    BY <1>2, <1>4, FilesOf, SMTT(90)
  <2>3. Stays(e, S, R) /\ RamOf(e) \in Sc /\ e.flash = disk.flash
    BY <1>2, <1>17, <1>12a, <2>2
  <2>4. z \in Sc
    BY <1>2, <1>3, <1>4, <1>5, <2>2, <2>3, ScratchGoesOn
  <2>5. May(S, R, RamOf(e), z)
    BY <1>16, <2>3, <2>4
  <2>6. disk' = e \/ disk' = DeleteFile(e, f)
    BY <2>1
  <2> HIDE DEF S, R, Sc, e, f
  <2>7. Stays(DeleteFile(e, f), S, R) /\ DeleteFile(e, f).flash = e.flash
    BY <2>2, <2>3, <2>5, StaysDeleteFile
  <2>8. Stays(disk', S, R) /\ disk'.flash = disk.flash
    BY <2>3, <2>6, <2>7
  <2>9. OpType' /\ OpIsAt(op', RamOf(disk'), goals', versions', unsure, again')
    BY <1>21, IdleIsAt DEF OpType
  <2> QED BY <1>1, <1>18, <2>8, <2>9 DEF ContainerInv, S, R
<1> QED BY <1>19, <1>20, <1>21

-----------------------------------------------------------------------------
(* The manifest and the marker are written.                                *)

\* A version that is referred to is valid, and current if the other one is
\* missing or older.
LEMMA ReferredIs ==
    ASSUME NEW v \in Moment, NEW p \in Place, v[manifest(p)] \in AgedManifest,
           NEW goal \in [Types -> Value], Referred(v, v[manifest(p)], goal)
    PROVE  /\ Valid(v, p) /\ Content(v, p) = goal
           /\ \/ v[manifest(1 - p)] = Absent
              \/ v[manifest(1 - p)].generation < v[manifest(p)].generation
              => /\ IsCurrent(v, p)
                 /\ v[marker] # Absent => Visible(v) = goal
<1> DEFINE N == v[manifest(p)]
<1>1. ASSUME NEW t \in Types
      PROVE  /\ v[FileOf(N, t)] # Absent
             /\ v[FileOf(N, t)].generation = N.objects[t].generation
             /\ v[FileOf(N, t)].value = goal[t]
  <2> DEFINE g == N.objects[t].generation
             e == [generation |-> g, value |-> goal[t]]
  <2>1. g \in Generation /\ goal[t] \in Value
    BY ManifestParts DEF Generation
  <2>2. v[FileOf(N, t)] = e
    BY DEF Referred
  <2> HIDE DEF g, N
  <2>3. e \in Record /\ e.generation = g /\ e.value = goal[t]
    BY <2>1 DEF Record
  <2> HIDE DEF e
  <2>4. e # Absent
    BY <2>3, RecordParts
  <2> QED BY <2>2, <2>3, <2>4 DEF g
<1>2. N # Absent
  BY ManifestParts
<1>3. Valid(v, p)
  BY <1>1, <1>2, ValidIs
<1>4. Content(v, p) = goal
  <2>1. Content(v, p) = [t \in Types |-> goal[t]]
    BY <1>1 DEF Content
  <2>2. goal = [t \in Types |-> goal[t]]
    OBVIOUS
  <2> QED BY <2>1, <2>2
<1>5. ASSUME \/ v[manifest(1 - p)] = Absent
             \/ v[manifest(1 - p)].generation < v[manifest(p)].generation
      PROVE  IsCurrent(v, p) /\ (v[marker] # Absent => Visible(v) = goal)
  <2>1. v[manifest(1 - p)] = Absent => ~Valid(v, 1 - p)
    BY Places, ValidIs
  <2>2. IsCurrent(v, p)
    BY <1>3, <1>5, <2>1, CurrentIs
  <2> QED BY <1>4, <2>2, VisibleIs
<1> QED BY <1>3, <1>4, <1>5

LEMMA FewerWhole ==
    ASSUME NEW u \in Moment, NEW w \in Moment, Fewer(w, u), NEW vs, Whole(u, vs),
           \A p \in Place : BothPresent(w) /\ FollowsIn(w, p) /\ Valid(w, 1 - p) => Valid(w, p)
    PROVE  Whole(w, vs)
<1>1. \A p \in Place : Valid(w, p) => Content(w, p) \in vs
  BY FewerValid DEF Whole
<1> QED BY <1>1 DEF Whole

\* Only the manifest of place q is another one.
LEMMA WithManifest ==
    ASSUME NEW r \in Moment, NEW q \in Place, NEW x \in {Absent} \cup AgedManifest
    PROVE  LET w == With(r, manifest(q), x)
           IN  /\ w \in Moment /\ x \in FileContents[manifest(q)]
               /\ w[marker] = r[marker] /\ w[manifest(q)] = x
               /\ w[manifest(1 - q)] = r[manifest(1 - q)]
               /\ \A p \in Place, t \in Types : w[record(p, t)] = r[record(p, t)]
               /\ \A m \in AgedManifest, t \in Types : w[FileOf(m, t)] = r[FileOf(m, t)]
               /\ x = Absent => Fewer(w, r)
               /\ Valid(r, 1 - q) => Valid(w, 1 - q)
               /\ Valid(w, 1 - q) => /\ Valid(r, 1 - q)
                                     /\ Content(w, 1 - q) = Content(r, 1 - q)
<1> DEFINE w == With(r, manifest(q), x)
<1>1. manifest(q) \in Files /\ x \in FileContents[manifest(q)] /\ 1 - q \in Place /\ 1 - q # q
  BY FilesOf, ContentsOfFiles, Places
<1>2. w \in Moment /\ \A g \in Files : w[g] = IF g = manifest(q) THEN x ELSE r[g]
  BY <1>1, MomentWith DEF With
<1> HIDE DEF w
<1>3. w[marker] = r[marker] /\ w[manifest(q)] = x /\ w[manifest(1 - q)] = r[manifest(1 - q)]
  BY <1>1, <1>2, FilesOf, FilesDiffer
<1>4. \A p \in Place, t \in Types : w[record(p, t)] = r[record(p, t)]
  BY <1>2, FilesOf, FilesDiffer
<1>5. \A m \in AgedManifest, t \in Types : w[FileOf(m, t)] = r[FileOf(m, t)]
  BY <1>4, ManifestParts DEF FileOf
<1>6. x = Absent => Fewer(w, r)
  BY <1>2 DEF Fewer
<1>7. ASSUME Valid(r, 1 - q) PROVE Valid(w, 1 - q) /\ Content(w, 1 - q) = Content(r, 1 - q)
  <2>1. r[manifest(1 - q)] \in AgedManifest
    BY <1>1, <1>7, ValidIs
  <2> QED BY <1>1, <1>2, <1>3, <1>5, <1>7, <2>1, SameVersion
<1>8. ASSUME Valid(w, 1 - q) PROVE Valid(r, 1 - q)
  <2>1. w[manifest(1 - q)] \in AgedManifest
    BY <1>1, <1>2, <1>8, ValidIs
  <2> QED BY <1>1, <1>2, <1>3, <1>5, <1>8, <2>1, SameVersion
<1> QED BY <1>1, <1>2, <1>3, <1>4, <1>5, <1>6, <1>7, <1>8 DEF w

\* What OpIsAt says while an update waits.
LEMMA Updating ==
    ASSUME ContainerInv, op.step \in {"records", "manifest", "marker"}
    PROVE  /\ op.manifest \in AgedManifest /\ op.target \in Place /\ 1 - op.target \in Place
           /\ op.goal \in versions /\ op.goal \in goals /\ op.goal \in [Types -> Value]
           /\ Referred(RamOf(disk), op.manifest, op.goal)
           /\ op.manifest.objects[Mutable].place = op.target
           /\ RamOf(disk)[manifest(1 - op.target)] # Absent =>
                Follows(op.manifest, RamOf(disk)[manifest(1 - op.target)], op.target)
           /\ op # Idle
           /\ op \in [step : {"records", "manifest", "marker"}, manifest : Manifest,
                      target : Place, goal : [Types -> Value]]
<1>1. OpIsAt(op, RamOf(disk), goals, versions, unsure, again)
  BY DEF ContainerInv
<1>2. op # Idle
  BY DEF Idle
<1>3. /\ op.manifest \in AgedManifest /\ op.target \in Place
      /\ op.goal \in versions /\ op.goal \in goals
      /\ Referred(RamOf(disk), op.manifest, op.goal)
      /\ op.manifest.objects[Mutable].place = op.target
      /\ RamOf(disk)[manifest(1 - op.target)] # Absent =>
           Follows(op.manifest, RamOf(disk)[manifest(1 - op.target)], op.target)
  BY <1>1, <1>2 DEF OpIsAt
<1>4. op.goal \in [Types -> Value]
  BY <1>3 DEF ContainerInv
<1>5. op \in [step : {"records", "manifest", "marker"}, manifest : Manifest,
              target : Place, goal : [Types -> Value]]
  <2>1. op # [step |-> "delete", goal |-> Absent]
    OBVIOUS
  <2> QED BY <1>2, <2>1 DEF ContainerInv, OpType
<1> QED BY <1>2, <1>3, <1>4, <1>5, Places

LEMMA NewManifestMoments ==
    ASSUME ContainerInv, op.step = "records"
    PROVE  LET r == RamOf(disk)
               q == op.target
               w1 == With(r, manifest(q), Absent)
               w2 == With(r, manifest(q), op.manifest)
               S == Moments(unsure, versions)
               R == Changes(unsure \/ again, goals)
           IN  May(S, R, r, w1) /\ May(S, R, w1, w2)
<1> DEFINE r == RamOf(disk)
           q == op.target
           N == op.manifest
           X == r[manifest(1 - q)]
           w1 == With(r, manifest(q), Absent)
           w2 == With(r, manifest(q), N)
           S == Moments(unsure, versions)
           R == Changes(unsure \/ again, goals)
<1>1. /\ N \in AgedManifest /\ q \in Place /\ 1 - q \in Place /\ 1 - q # q
      /\ op.goal \in versions /\ op.goal \in goals /\ op.goal \in [Types -> Value]
      /\ Referred(r, N, op.goal) /\ N.objects[Mutable].place = q
      /\ X # Absent => Follows(N, X, q)
  BY Updating, Places
<1>2. r \in Moment /\ (InOrder => Sound(r) /\ (unsure \/ Whole(r, versions)))
  BY ContainerInvParts
<1>3. ASSUME InOrder
      PROVE  /\ r[marker] = Absent => /\ \A t \in Types : N.objects[t].place = q
                                      /\ X # Absent => Valid(r, 1 - q)
             /\ ~unsure /\ ~again =>
                  IF X = Absent THEN r[manifest(q)] = Absent
                  ELSE /\ Valid(r, 1 - q)
                       /\ r[manifest(q)] # Absent => r[manifest(q)].generation < X.generation
  <2>1. OpIsAt(op, r, goals, versions, unsure, again)
    BY DEF ContainerInv
  <2> HIDE DEF r
  <2> QED BY <1>3, <2>1 DEF OpIsAt
<1> HIDE DEF r, N, q
<1>4. /\ w1 \in Moment
      /\ w1[marker] = r[marker] /\ w1[manifest(q)] = Absent /\ w1[manifest(1 - q)] = X
      /\ Fewer(w1, r)
      /\ Valid(r, 1 - q) => Valid(w1, 1 - q)
      /\ Valid(w1, 1 - q) => Valid(r, 1 - q) /\ Content(w1, 1 - q) = Content(r, 1 - q)
      /\ \A p \in Place, t \in Types : w1[record(p, t)] = r[record(p, t)]
  BY <1>1, <1>2, WithManifest
<1>5. /\ w2 \in Moment
      /\ w2[marker] = r[marker] /\ w2[manifest(q)] = N /\ w2[manifest(1 - q)] = X
      /\ Valid(r, 1 - q) => Valid(w2, 1 - q)
      /\ Valid(w2, 1 - q) => Valid(r, 1 - q) /\ Content(w2, 1 - q) = Content(r, 1 - q)
      /\ \A t \in Types : w2[FileOf(N, t)] = r[FileOf(N, t)]
  BY <1>1, <1>2, WithManifest
<1> HIDE DEF w1, w2
<1>6. N # Absent /\ \A p \in Place : p = q \/ p = 1 - q
  BY <1>1, ManifestParts, Places
<1>7. ~BothPresent(w1) /\ ~Valid(w1, q)
  BY <1>1, <1>4, ValidIs DEF BothPresent
<1>8. ASSUME InOrder PROVE Sound(w1) /\ (unsure \/ Whole(w1, versions))
  <2>1. Paired(w1) /\ OwnMutable(w1)
    BY <1>2, <1>4, <1>8, FewerSound DEF Sound
  <2>2. FreeIsUsable(w1)
    <3> SUFFICES ASSUME r[marker] = Absent
                 PROVE  /\ X # Absent => \A t \in Types : X.objects[t].place = 1 - q
                        /\ X # Absent => Valid(w1, 1 - q)
      BY <1>1, <1>4, <1>6 DEF FreeIsUsable, HasManifest
    <3>1. X # Absent => \A t \in Types : X.objects[t].place = 1 - q
      BY <1>1, <1>2, <1>8 DEF Sound, FreeIsUsable
    <3>2. X # Absent => Valid(w1, 1 - q)
      BY <1>3, <1>4, <1>8
    <3> QED BY <3>1, <3>2
  <2>3. unsure \/ Whole(w1, versions)
    BY <1>2, <1>4, <1>7, <1>8, FewerWhole
  <2> QED BY <2>1, <2>2, <2>3 DEF Sound
<1>9. ASSUME InOrder, ~unsure, ~again PROVE Visible(w1) = Visible(r)
  <2>1. CASE r[marker] = Absent
    BY <1>2, <1>4, <2>1, VisibleIs
  <2>2. CASE X = Absent
    <3>1. r[manifest(q)] = Absent
      BY <1>3, <1>9, <2>2
    <3>2. \A f \in Files : w1[f] = r[f]
      BY <3>1 DEF w1, With
    <3>3. w1 = r
      BY <1>2, <1>4, <3>2, SameMoment
    <3> QED BY <3>3
  <2>3. CASE r[marker] # Absent /\ X # Absent
    <3>1. Valid(r, 1 - q) /\ (r[manifest(q)] # Absent => r[manifest(q)].generation < X.generation)
      BY <1>3, <1>9, <2>3
    <3>2. Valid(r, q) => r[manifest(q)] # Absent
      BY <1>1, <1>2, ValidIs
    <3>3. 1 - (1 - q) = q
      BY <1>1, Places
    <3>4. IsCurrent(r, 1 - q)
      BY <1>1, <1>2, <3>1, <3>2, <3>3, CurrentIs
    <3>5. IsCurrent(w1, 1 - q)
      BY <1>1, <1>4, <1>7, <3>1, <3>3, CurrentIs
    <3> QED BY <1>1, <1>2, <1>4, <2>3, <3>1, <3>4, <3>5, VisibleIs
  <2> QED BY <2>1, <2>2, <2>3
<1>10. /\ Valid(w2, q) /\ Content(w2, q) = op.goal
       /\ w2[marker] # Absent => Visible(w2) = op.goal
  <2>1. Referred(w2, N, op.goal)
    BY <1>1, <1>5 DEF Referred
  <2>2. X # Absent => X.generation < N.generation
    BY <1>1 DEF Follows
  <2> QED BY <1>1, <1>5, <2>1, <2>2, ReferredIs
<1>11. ASSUME InOrder PROVE Sound(w2) /\ (unsure \/ Whole(w2, versions))
  <2>1. Paired(w2)
    <3>1. BothPresent(w2) => X # Absent
      BY <1>1, <1>5 DEF BothPresent
    <3>2. X # Absent => FollowsIn(w2, q)
      BY <1>1, <1>5 DEF FollowsIn
    <3> QED BY <1>1, <3>1, <3>2 DEF Paired
  <2>2. OwnMutable(w2)
    <3>1. X # Absent => X.objects[Mutable].place = 1 - q
      BY <1>1, <1>2, <1>11 DEF Sound, OwnMutable
    <3> QED BY <1>1, <1>5, <1>6, <3>1 DEF OwnMutable
  <2>3. FreeIsUsable(w2)
    <3> SUFFICES ASSUME r[marker] = Absent
                 PROVE  \A p \in Place : w2[manifest(p)] # Absent =>
                           \A t \in Types : w2[manifest(p)].objects[t].place = p
      BY <1>1, <1>5, <1>10 DEF FreeIsUsable
    <3>1. X # Absent => \A t \in Types : X.objects[t].place = 1 - q
      BY <1>1, <1>2, <1>11 DEF Sound, FreeIsUsable
    <3>2. \A t \in Types : N.objects[t].place = q
      BY <1>3, <1>11
    <3> QED BY <1>5, <1>6, <3>1, <3>2
  <2>4. ASSUME ~unsure PROVE Whole(w2, versions)
    <3>1. Whole(r, versions)
      BY <1>2, <1>11, <2>4
    <3>2. \A p \in Place : Valid(w2, p) => Content(w2, p) \in versions
      BY <1>1, <1>5, <1>6, <1>10, <3>1 DEF Whole
    <3>3. ASSUME BothPresent(w2) PROVE ~FollowsIn(w2, 1 - q)
      <4>1. FollowsIn(w2, q)
        BY <1>1, <1>5, <3>3 DEF FollowsIn, BothPresent
      <4> QED BY <1>1, <1>5, <2>1, <3>3, <4>1, PairedIs
    <3>4. \A p \in Place : BothPresent(w2) /\ FollowsIn(w2, p) /\ Valid(w2, 1 - p) => Valid(w2, p)
      BY <1>6, <1>10, <3>3
    <3> QED BY <3>2, <3>4 DEF Whole
  <2> QED BY <2>1, <2>2, <2>3, <2>4 DEF Sound
<1>12. InOrder /\ ~(unsure \/ again) => Visible(w1) \in goals \cup {Visible(r)}
  BY <1>9
<1>13. Visible(w2) \in goals \cup {Visible(w1)}
  BY <1>1, <1>4, <1>5, <1>10, VisibleIs
<1>14. May(S, R, r, w1) /\ May(S, R, w1, w2)
  BY <1>2, <1>4, <1>5, <1>8, <1>11, <1>12, <1>13, MayBe
<1> QED BY <1>14 DEF r, q, N, w1, w2

\* The operation goes on to its next step.
LEMMA NextStepIsAt ==
    ASSUME ContainerInv, op.step \in {"records", "manifest", "marker"},
           NEW s \in {"manifest", "marker"}, NEW w,
           w[manifest(op.target)] = op.manifest,
           w[manifest(1 - op.target)] = RamOf(disk)[manifest(1 - op.target)],
           \A t \in Types : w[FileOf(op.manifest, t)] = RamOf(disk)[FileOf(op.manifest, t)],
           s = "marker" => w[marker] = "PKF1",
           op' = [op EXCEPT !.step = s]
    PROVE  OpType' /\ OpIsAt(op', w, goals, versions, unsure, again)
<1>1. /\ op.manifest \in AgedManifest /\ op.target \in Place
      /\ op.goal \in versions /\ op.goal \in goals
      /\ Referred(RamOf(disk), op.manifest, op.goal)
      /\ op.manifest.objects[Mutable].place = op.target
      /\ RamOf(disk)[manifest(1 - op.target)] # Absent =>
           Follows(op.manifest, RamOf(disk)[manifest(1 - op.target)], op.target)
      /\ op \in [step : {"records", "manifest", "marker"}, manifest : Manifest,
                 target : Place, goal : [Types -> Value]]
  BY Updating
<1>2. /\ op'.step = s /\ op'.manifest = op.manifest /\ op'.target = op.target
      /\ op'.goal = op.goal
      /\ op' \in [step : {"records", "manifest", "marker"}, manifest : Manifest,
                  target : Place, goal : [Types -> Value]]
  BY <1>1
<1>3. Referred(w, op.manifest, op.goal)
  BY <1>1 DEF Referred
<1>4. OpType'
  BY <1>2 DEF OpType
<1>5. s # "records" /\ s # "delete"
  OBVIOUS
<1>6. OpIsAt(op', w, goals, versions, unsure, again)
  BY <1>1, <1>2, <1>3, <1>5 DEF OpIsAt
<1> QED BY <1>4, <1>6

LEMMA WriteManifestStep ==
    ASSUME ContainerInv, WriteManifest
    PROVE  ContainerInv' /\ disk'.flash = disk.flash
<1> DEFINE r == RamOf(disk)
           q == op.target
           N == op.manifest
           f == manifest(q)
           w1 == With(r, f, Absent)
           w2 == With(r, f, N)
           S == Moments(unsure, versions)
           R == Changes(unsure \/ again, goals)
<1>1. op.step = "records" /\ UNCHANGED <<goals, versions, unsure, again>>
  BY DEF WriteManifest, Synced
<1>2. /\ q \in Place /\ N \in AgedManifest /\ f \in Files /\ r \in Moment
      /\ Stays(disk, S, R)
  BY <1>1, Updating, FilesOf, ContainerInvParts DEF ContainerInv
<1>3. May(S, R, r, w1) /\ May(S, R, w1, w2)
  BY <1>1, NewManifestMoments
<1>4. /\ N \in FileContents[f]
      /\ w2[manifest(q)] = N /\ w2[manifest(1 - q)] = r[manifest(1 - q)]
      /\ \A t \in Types : w2[FileOf(N, t)] = r[FileOf(N, t)]
  BY <1>2, WithManifest
<1>5. /\ goals \subseteq versions \cup {Absent} /\ versions \subseteq [Types -> Value]
      /\ unsure \in BOOLEAN /\ again \in BOOLEAN
  BY DEF ContainerInv
<1>6. CASE /\ disk' = resident_replace_file(disk, f, N)
           /\ op' = [op EXCEPT !.step = "manifest"]
  <2> DEFINE e == resident_replace_file(disk, f, N)
  <2> HIDE DEF S, R
  <2>1. Stays(e, S, R) /\ RamOf(e) = w2 /\ e.flash = disk.flash
    BY <1>2, <1>3, <1>4, StaysReplace
  <2> HIDE DEF e, w2
  <2>2. OpType' /\ OpIsAt(op', w2, goals, versions, unsure, again)
    BY <1>1, <1>4, <1>6, NextStepIsAt
  <2>3. disk' = e
    BY <1>6 DEF e
  <2> QED BY <1>1, <1>5, <2>1, <2>2, <2>3 DEF ContainerInv, S, R
<1>7. CASE disk' = DeleteFile(disk, f) /\ op' = Idle
  <2> DEFINE e == DeleteFile(disk, f)
  <2> HIDE DEF S, R
  <2>1. Stays(e, S, R) /\ e.flash = disk.flash
    BY <1>2, <1>3, StaysDeleteFile
  <2> HIDE DEF e
  <2>2. OpType' /\ OpIsAt(op', RamOf(disk'), goals, versions, unsure, again)
    BY <1>7, IdleIsAt DEF OpType
  <2>3. disk' = e
    BY <1>7 DEF e
  <2> QED BY <1>1, <1>5, <2>1, <2>2, <2>3 DEF ContainerInv, S, R
<1> QED BY <1>6, <1>7 DEF WriteManifest

\* A handler fails and leaves what it has written.
LEMMA OpEnds ==
    ASSUME ContainerInv, op' = Idle, UNCHANGED <<disk, goals, versions, unsure, again>>
    PROVE  ContainerInv' /\ disk'.flash = disk.flash
<1>1. OpType' /\ OpIsAt(op', RamOf(disk'), goals', versions', unsure', again')
  BY IdleIsAt DEF OpType
<1> QED BY <1>1 DEF ContainerInv

LEMMA MarkerWritten ==
    ASSUME ContainerInv, WriteMarker,
           disk' = resident_replace_file(disk, marker, "PKF1"), op' = [op EXCEPT !.step = "marker"]
    PROVE  ContainerInv' /\ disk'.flash = disk.flash
<1> DEFINE r == RamOf(disk)
           q == op.target
           N == op.manifest
           w1 == With(r, marker, Absent)
           w2 == With(r, marker, "PKF1")
           S == Moments(unsure, versions)
           R == Changes(unsure \/ again, goals)
<1>1. /\ op.step = "manifest" /\ UNCHANGED <<goals, versions, unsure, again>>
      /\ r[marker] = Absent
      /\ disk' = resident_replace_file(disk, marker, "PKF1")
      /\ op' = [op EXCEPT !.step = "marker"]
  BY RamIs DEF WriteMarker, Synced
<1>2. /\ q \in Place /\ 1 - q \in Place /\ N \in AgedManifest /\ op.goal \in goals
      /\ op.goal \in [Types -> Value] /\ Referred(r, N, op.goal)
      /\ r[manifest(1 - q)] # Absent => Follows(N, r[manifest(1 - q)], q)
  BY <1>1, Updating
<1>3. r[manifest(q)] = N
  <2>1. OpIsAt(op, r, goals, versions, unsure, again) /\ op # Idle
    BY <1>1, Updating DEF ContainerInv
  <2> HIDE DEF r
  <2> QED BY <1>1, <2>1 DEF OpIsAt
<1>4. /\ r \in Moment /\ (InOrder => Sound(r) /\ (unsure \/ Whole(r, versions)))
      /\ Stays(disk, S, R)
  BY ContainerInvParts DEF ContainerInv
<1>5. marker \in Files /\ Absent \in FileContents[marker] /\ "PKF1" \in FileContents[marker]
  BY FilesOf, ContentsOfFiles
<1>6. w1 \in Moment /\ w2 \in Moment
  BY <1>4, <1>5, MomentWith
<1> HIDE DEF r, N, q
<1>7. w1 = r
  <2>1. \A f \in Files : w1[f] = r[f]
    BY <1>1 DEF With
  <2> HIDE DEF w1
  <2> QED BY <1>4, <1>6, <2>1, SameMoment
<1>8. /\ w2[marker] = "PKF1" /\ "PKF1" # Absent
      /\ \A p \in Place : w2[manifest(p)] = r[manifest(p)]
      /\ \A m \in AgedManifest, t \in Types : w2[FileOf(m, t)] = r[FileOf(m, t)]
  <2>1. \A f \in Files : w2[f] = IF f = marker THEN "PKF1" ELSE r[f]
    BY DEF With
  <2> HIDE DEF w2
  <2>2. \A m \in AgedManifest, t \in Types : FileOf(m, t) \in Files /\ FileOf(m, t) # marker
    BY FileOfIs, FilesDiffer DEF FileOf
  <2> QED BY <2>1, <2>2, FilesOf, FilesDiffer, AbsentAssumption
<1> HIDE DEF w1, w2
<1>9. \A p \in Place : /\ Valid(w2, p) <=> Valid(r, p)
                       /\ Valid(r, p) => Content(w2, p) = Content(r, p)
  <2> TAKE p \in Place
  <2>1. Valid(r, p) => Valid(w2, p) /\ Content(w2, p) = Content(r, p)
    BY <1>4, <1>6, <1>8, ValidIs, SameVersion
  <2>2. Valid(w2, p) => Valid(r, p)
    BY <1>4, <1>6, <1>8, ValidIs, SameVersion
  <2> QED BY <2>1, <2>2
<1>10. InOrder => Sound(w2) /\ (unsure \/ Whole(w2, versions))
  <2>1. Paired(r) /\ OwnMutable(r) => Sound(w2)
    BY <1>4, <1>6, <1>8, SameManifests DEF Sound, FreeIsUsable
  <2>2. Whole(r, versions) => Whole(w2, versions)
    <3>1. /\ BothPresent(w2) <=> BothPresent(r)
          /\ \A p \in Place : FollowsIn(w2, p) <=> FollowsIn(r, p)
      BY <1>4, <1>6, <1>8, SameManifests
    <3> QED BY <1>9, <3>1, Places DEF Whole
  <2> QED BY <1>4, <2>1, <2>2 DEF Sound
<1>11. Visible(w2) = op.goal
  <2>1. r[manifest(1 - q)] # Absent => r[manifest(1 - q)].generation < N.generation
    BY <1>2 DEF Follows
  <2>2. Referred(w2, N, op.goal)
    BY <1>2, <1>8 DEF Referred
  <2> QED BY <1>2, <1>3, <1>6, <1>8, <2>1, <2>2, ReferredIs
<1>12. May(S, R, r, w1) /\ May(S, R, w1, w2)
  <2>1. May(S, R, r, w1)
    BY <1>4, <1>7, MayBe
  <2>2. May(S, R, w1, w2)
    BY <1>2, <1>6, <1>10, <1>11, MayBe
  <2> QED BY <2>1, <2>2
<1> DEFINE e == resident_replace_file(disk, marker, "PKF1")
<1> HIDE DEF S, R
<1>13. Stays(e, S, R) /\ RamOf(e) = w2 /\ e.flash = disk.flash
  BY <1>4, <1>5, <1>12, StaysReplace DEF r, w1, w2
<1> HIDE DEF e
<1>14. OpType' /\ OpIsAt(op', w2, goals, versions, unsure, again)
  BY <1>1, <1>2, <1>3, <1>8, NextStepIsAt DEF r, q, N
<1>15. /\ goals \subseteq versions \cup {Absent} /\ versions \subseteq [Types -> Value]
       /\ unsure \in BOOLEAN /\ again \in BOOLEAN
  BY DEF ContainerInv
<1>16. disk' = e
  BY <1>1 DEF e
<1> QED BY <1>1, <1>13, <1>14, <1>15, <1>16 DEF ContainerInv, S, R

LEMMA WriteMarkerStep ==
    ASSUME ContainerInv, WriteMarker
    PROVE  ContainerInv' /\ disk'.flash = disk.flash
<1>1. UNCHANGED <<goals, versions, unsure, again>>
  BY DEF WriteMarker
<1> QED BY <1>1, MarkerWritten, OpEnds DEF WriteMarker

-----------------------------------------------------------------------------
(* Files are deleted.                                                      *)

Has(s, f) == \E i \in 1..Len(s) : s[i] = f

LEMMA HasConcat ==
    ASSUME NEW T, NEW a \in Seq(T), NEW b \in Seq(T), NEW f
    PROVE  Has(a \o b, f) <=> Has(a, f) \/ Has(b, f)
<1>1. /\ Len(a) \in Nat /\ Len(b) \in Nat /\ Len(a \o b) = Len(a) + Len(b)
      /\ \A i \in 1..(Len(a) + Len(b)) : (a \o b)[i] = IF i <= Len(a) THEN a[i] ELSE b[i - Len(a)]
  OBVIOUS
<1>2. ASSUME NEW i \in 1..Len(a), a[i] = f PROVE Has(a \o b, f)
  <2>1. i \in 1..Len(a \o b) /\ (a \o b)[i] = f
    BY <1>1, <1>2
  <2> QED BY <2>1 DEF Has
<1>3. ASSUME NEW i \in 1..Len(b), b[i] = f PROVE Has(a \o b, f)
  <2> DEFINE j == Len(a) + i
  <2>1. j \in 1..Len(a \o b) /\ ~(j <= Len(a)) /\ j - Len(a) = i
    BY <1>1
  <2> HIDE DEF j
  <2>2. (a \o b)[j] = f
    BY <1>1, <1>3, <2>1
  <2> QED BY <2>1, <2>2 DEF Has
<1>4. ASSUME NEW j \in 1..Len(a \o b), (a \o b)[j] = f PROVE Has(a, f) \/ Has(b, f)
  <2>1. CASE j <= Len(a)
    <3>1. j \in 1..Len(a) /\ a[j] = f
      BY <1>1, <1>4, <2>1
    <3> QED BY <3>1 DEF Has
  <2>2. CASE ~(j <= Len(a))
    <3>1. j - Len(a) \in 1..Len(b) /\ b[j - Len(a)] = f
      BY <1>1, <1>4, <2>2
    <3> QED BY <3>1 DEF Has
  <2> QED BY <2>1, <2>2
<1> QED BY <1>2, <1>3, <1>4 DEF Has

LEMMA RecordsAre ==
    ASSUME NEW p \in Place
    PROVE  /\ Records(p) \in Seq(Files \ {marker})
           /\ \A t \in Types : Has(Records(p), record(p, t))
<1>1. Objects \in Seq(Types) /\ DOMAIN Objects = 1..Len(Objects) /\ Len(Objects) \in Nat
  BY ContainerAssumption
<1>2. \A i \in 1..Len(Objects) : Objects[i] \in Types
  BY <1>1
<1>3. \A i \in 1..Len(Objects) : record(p, Objects[i]) \in Files \ {marker}
  BY <1>2, FilesOf, FilesDiffer
<1>4. Records(p) = [i \in 1..Len(Objects) |-> record(p, Objects[i])]
  BY <1>1 DEF Records
<1>5. Records(p) \in Seq(Files \ {marker})
  BY <1>1, <1>3, <1>4
<1>6. Len(Records(p)) = Len(Objects)
  BY <1>1, <1>4
<1>7. ASSUME NEW t \in Types PROVE Has(Records(p), record(p, t))
  <2>1. Types = {Objects[i] : i \in 1..Len(Objects)}
    BY <1>1, RangeIs DEF Types
  <2>2. PICK i \in 1..Len(Objects) : Objects[i] = t
    BY <2>1
  <2>3. Records(p)[i] = record(p, t)
    BY <1>4, <2>2
  <2> QED BY <1>6, <2>3 DEF Has
<1> QED BY <1>5, <1>7

LEMMA WithoutIs ==
    ASSUME NEW r \in Moment, NEW fs, NEW kept, NEW n \in Nat
    PROVE  LET w == Without(r, fs, kept, n)
           IN  /\ w \in Moment /\ Fewer(w, r)
               /\ \A f \in Files : w[f] = IF f \notin kept /\ \E i \in 1..n : fs[i] = f
                                          THEN Absent ELSE r[f]
               /\ Fewer(Without(r, fs, kept, n + 1), w)
<1> DEFINE w == Without(r, fs, kept, n)
           x == Without(r, fs, kept, n + 1)
<1>1. /\ w = [f \in Files |-> w[f]]
      /\ \A f \in Files : w[f] = IF f \notin kept /\ \E i \in 1..n : fs[i] = f
                                 THEN Absent ELSE r[f]
      /\ \A f \in Files : x[f] = IF f \notin kept /\ \E i \in 1..(n + 1) : fs[i] = f
                                 THEN Absent ELSE r[f]
  BY DEF Without
<1> HIDE DEF w, x
<1>2. \A f \in Files : w[f] \in FileContents[f]
  BY <1>1, ContentsOfFiles DEF Moment
<1>3. w \in Moment
  BY <1>1, <1>2, IsMoment
<1>4. Fewer(w, r)
  BY <1>1 DEF Fewer
<1>5. \A i \in 1..n : i \in 1..(n + 1)
  OBVIOUS
<1>6. Fewer(x, w)
  BY <1>1, <1>5 DEF Fewer
<1> QED BY <1>1, <1>3, <1>4, <1>6 DEF w, x

LEMMA FinishStep ==
    ASSUME ContainerInv, Finish
    PROVE  ContainerInv' /\ disk'.flash = disk.flash /\ op.goal \in goals /\ Visible(disk.flash) = op.goal
<1> DEFINE r == RamOf(disk)
           q == op.target
           N == op.manifest
           X == r[manifest(1 - q)]
           fs == <<manifest(0)>> \o Records(0) \o <<manifest(1)>> \o Records(1)
           W(n) == Without(r, fs, Kept, n)
           S == Moments(unsure, versions)
           R == Changes(unsure \/ again, {op.goal})
<1>1. /\ op.step \in {"manifest", "marker"} /\ IsSettled(disk)
      /\ op.step = "marker" \/ r[marker] # Absent
      /\ disk' = DeleteFiles(disk, fs, Kept) /\ op' = Idle /\ goals' = {op.goal}
      /\ UNCHANGED <<versions, unsure, again>>
  BY RamIs DEF Finish, Synced, CleanedUp
<1>2. /\ q \in Place /\ 1 - q \in Place /\ 1 - q # q /\ N \in AgedManifest
      /\ op.goal \in goals /\ op.goal \in versions
      /\ op.goal \in [Types -> Value] /\ Referred(r, N, op.goal)
      /\ X # Absent => Follows(N, X, q)
  BY <1>1, Updating, Places
<1>3. r[manifest(q)] = N /\ r[marker] # Absent
  <2>1. OpIsAt(op, r, goals, versions, unsure, again) /\ op # Idle
    BY <1>1, Updating DEF ContainerInv
  <2> HIDE DEF r
  <2>2. r[manifest(q)] = N /\ (op.step = "marker" => r[marker] = "PKF1")
    BY <1>1, <2>1 DEF OpIsAt
  <2> QED BY <1>1, <2>2, AbsentAssumption
<1>4. /\ r \in Moment /\ (InOrder => Sound(r) /\ (unsure \/ Whole(r, versions)))
      /\ Stays(disk, S, Changes(unsure \/ again, goals))
      /\ IsDisk(disk, FileContents)
  BY ContainerInvParts DEF ContainerInv
<1>5. disk.flash = r
  BY <1>1, <1>4, StaysEnds
<1>6. Stays(disk, S, R)
  <2>1. InOrder => r \in S
    BY <1>4, StaysEnds
  <2> QED BY <1>1, <1>4, <2>1, StaysAnew
<1>7. fs \in Seq(Files \ {marker}) /\ fs \in Seq(Files) /\ Len(fs) \in Nat
  <2> DEFINE T == Files \ {marker}
  <2>1. <<manifest(0)>> \in Seq(T) /\ <<manifest(1)>> \in Seq(T)
    BY FilesOf, FilesDiffer DEF Place
  <2>2. Records(0) \in Seq(T) /\ Records(1) \in Seq(T)
    BY RecordsAre DEF Place
  <2> HIDE DEF T
  <2>3. fs \in Seq(T)
    BY <2>1, <2>2
  <2> HIDE DEF fs
  <2>4. fs \in Seq(Files)
    BY <2>3 DEF T
  <2> QED BY <2>3, <2>4 DEF T
<1> HIDE DEF r, N, q, fs
<1>8. manifest(q) \in Kept /\ \A t \in Types : FileOf(N, t) \in Kept
  BY DEF Kept, FileOf, q, N
<1>9. ASSUME NEW n \in 0..Len(fs)
      PROVE  /\ W(n) \in Moment
             /\ InOrder => Sound(W(n)) /\ (unsure \/ Whole(W(n), versions))
             /\ Visible(W(n)) = op.goal
  <2> DEFINE w == W(n)
  <2>1. /\ w \in Moment /\ Fewer(w, r)
        /\ \A f \in Files : w[f] = IF f \notin Kept /\ \E i \in 1..n : fs[i] = f
                                   THEN Absent ELSE r[f]
    BY <1>4, <1>7, WithoutIs
  <2> HIDE DEF w
  <2>2. w[marker] # Absent
    <3>1. \A i \in 1..n : fs[i] # marker
      BY <1>7
    <3> QED BY <1>3, <2>1, <3>1, FilesOf
  <2>3. w[manifest(q)] = N /\ \A t \in Types : w[FileOf(N, t)] = r[FileOf(N, t)]
    BY <1>2, <1>3, <1>8, <2>1, FilesOf, FileOfIs
  <2>4. w[manifest(1 - q)] = Absent \/ w[manifest(1 - q)] = X
    BY <1>2, <2>1, FilesOf
  <2>5. /\ Valid(w, q) /\ Visible(w) = op.goal
    <3>1. Referred(w, N, op.goal)
      BY <1>2, <2>3 DEF Referred
    <3>2. X # Absent => X.generation < N.generation
      BY <1>2 DEF Follows
    <3> QED BY <1>2, <2>1, <2>2, <2>3, <2>4, <3>1, <3>2, ReferredIs
  <2>6. ASSUME InOrder PROVE Sound(w)
    BY <1>4, <2>1, <2>2, <2>6, FewerSound DEF Sound, FreeIsUsable
  <2>7. ASSUME InOrder, ~unsure PROVE Whole(w, versions)
    <3>1. ASSUME NEW p \in Place, BothPresent(w), FollowsIn(w, p) PROVE Valid(w, p)
      <4>1. FollowsIn(w, q)
        BY <1>2, <2>3, <2>4, <3>1 DEF FollowsIn, BothPresent
      <4>2. ~FollowsIn(w, 1 - q)
        BY <1>2, <2>1, <2>6, <2>7, <3>1, <4>1, PairedIs DEF Sound
      <4>3. p = q
        BY <1>2, <3>1, <4>2, Places
      <4> QED BY <2>5, <4>3
    <3> QED BY <1>4, <2>1, <2>7, <3>1, FewerWhole
  <2> QED BY <2>1, <2>5, <2>6, <2>7 DEF w
<1>10. ASSUME NEW n \in 1..Len(fs) PROVE May(S, R, W(n - 1), W(n))
  <2>1. n - 1 \in 0..Len(fs) /\ n \in 0..Len(fs)
    BY <1>7
  <2> QED BY <1>9, <2>1, MayBe
<1> DEFINE e == DeleteFiles(disk, fs, Kept)
<1>11. Stays(e, S, R) /\ e.flash = disk.flash
  <2> HIDE DEF S, R
  <2>1. \A n \in 1..Len(fs) : May(S, R, Without(RamOf(disk), fs, Kept, n - 1),
                                        Without(RamOf(disk), fs, Kept, n))
    BY <1>10 DEF r
  <2> QED BY <1>6, <1>7, <2>1, StaysDeleted
<1>12. disk' = e
  BY <1>1 DEF fs
<1> HIDE DEF e, S, R
<1>13. OpType' /\ OpIsAt(op', RamOf(disk'), goals', versions, unsure, again)
  BY <1>1, IdleIsAt DEF OpType
<1>14. /\ goals' \subseteq versions \cup {Absent} /\ versions \subseteq [Types -> Value]
       /\ unsure \in BOOLEAN /\ again \in BOOLEAN
  BY <1>1, <1>2 DEF ContainerInv
<1>15. ContainerInv'
  BY <1>1, <1>11, <1>12, <1>13, <1>14 DEF ContainerInv, S, R
<1>16. Visible(r) = op.goal
  <2>1. X # Absent => X.generation < N.generation
    BY <1>2 DEF Follows
  <2> QED BY <1>2, <1>3, <1>4, <2>1, ReferredIs
<1> QED BY <1>2, <1>5, <1>11, <1>12, <1>15, <1>16

LEMMA Joined ==
    ASSUME NEW T, NEW a, NEW b, a \in Seq(T), b \in Seq(T)
    PROVE  a \o b \in Seq(T) /\ \A f : Has(a, f) \/ Has(b, f) => Has(a \o b, f)
<1>1. a \o b \in Seq(T)
  OBVIOUS
<1>2. ASSUME NEW f PROVE Has(a \o b, f) <=> Has(a, f) \/ Has(b, f)
  BY HasConcat
<1> QED BY <1>1, <1>2

\* All files are deleted, the marker last.
LEMMA AllFilesAre ==
    /\ AllFiles \in Seq(Files) /\ Len(AllFiles) \in Nat
    /\ \A f \in Files : Has(AllFiles, f)
    /\ \A i \in 1..Len(AllFiles) : AllFiles[i] = marker => i = Len(AllFiles)
<1> DEFINE T == Files \ {marker}
           a == Records(0) \o <<manifest(0)>>
           b == a \o Records(1)
           c == b \o <<manifest(1)>>
<1>1. 0 \in Place /\ 1 \in Place /\ \A p \in Place : p = 0 \/ p = 1
  BY DEF Place
<1>2. <<manifest(0)>> \in Seq(T) /\ <<manifest(1)>> \in Seq(T)
  BY <1>1, FilesOf, FilesDiffer
<1>3. Records(0) \in Seq(T) /\ Records(1) \in Seq(T)
  BY <1>1, RecordsAre
<1>4. Has(<<manifest(0)>>, manifest(0)) /\ Has(<<manifest(1)>>, manifest(1))
  BY DEF Has
<1>5. \A t \in Types : Has(Records(0), record(0, t)) /\ Has(Records(1), record(1, t))
  BY <1>1, RecordsAre
<1> HIDE DEF T
<1>6. a \in Seq(T) /\ Has(a, manifest(0)) /\ \A t \in Types : Has(a, record(0, t))
  <2>1. a \in Seq(T) /\ \A f : Has(Records(0), f) \/ Has(<<manifest(0)>>, f) => Has(a, f)
    BY <1>2, <1>3, Joined
  <2> HIDE DEF a
  <2> QED BY <2>1, <1>4, <1>5
<1> HIDE DEF a
<1>7. b \in Seq(T) /\ Has(b, manifest(0)) /\ \A t \in Types : Has(b, record(0, t)) /\ Has(b, record(1, t))
  <2>1. b \in Seq(T) /\ \A f : Has(a, f) \/ Has(Records(1), f) => Has(b, f)
    BY <1>3, <1>6, Joined
  <2> HIDE DEF b
  <2> QED BY <2>1, <1>5, <1>6
<1> HIDE DEF b
<1>8. /\ c \in Seq(T) /\ Has(c, manifest(0)) /\ Has(c, manifest(1))
      /\ \A t \in Types : Has(c, record(0, t)) /\ Has(c, record(1, t))
  <2>1. c \in Seq(T) /\ \A f : Has(b, f) \/ Has(<<manifest(1)>>, f) => Has(c, f)
    BY <1>2, <1>7, Joined
  <2> HIDE DEF c
  <2> QED BY <2>1, <1>4, <1>7
<1> HIDE DEF c
<1>9. AllFiles = c \o <<marker>>
  BY DEF AllFiles, c, b, a
<1>10. \A f \in T : Has(c, f)
  <2> SUFFICES ASSUME NEW f \in T PROVE Has(c, f)
    OBVIOUS
  <2>1. f \in Files /\ f # marker
    BY DEF T
  <2>2. CASE \E p \in Place : f = manifest(p)
    BY <1>1, <1>8, <2>2
  <2>3. CASE \E p \in Place, t \in Types : f = record(p, t)
    BY <1>1, <1>8, <2>3
  <2> QED BY <2>1, <2>2, <2>3, FilesOf
<1>11. c \in Seq(Files) /\ <<marker>> \in Seq(Files) /\ Has(<<marker>>, marker)
  <2>1. T \subseteq Files
    BY DEF T
  <2>2. c \in Seq(Files)
    BY <1>8, <2>1
  <2>3. Has(<<marker>>, marker)
    BY DEF Has
  <2> QED BY <2>2, <2>3, FilesOf
<1>12. c \o <<marker>> \in Seq(Files) /\ \A f \in Files : Has(c \o <<marker>>, f)
  <2> DEFINE d == c \o <<marker>>
  <2>1. d \in Seq(Files) /\ \A f : Has(c, f) \/ Has(<<marker>>, f) => Has(d, f)
    BY <1>11, Joined
  <2> HIDE DEF d
  <2>2. \A f \in Files : f \in T \/ f = marker
    BY DEF T
  <2>3. \A f \in Files : Has(d, f)
    BY <1>10, <1>11, <2>1, <2>2
  <2> QED BY <2>1, <2>3 DEF d
<1>13. \A i \in 1..Len(c) : c[i] # marker
  BY <1>8 DEF T
<1>14. /\ Len(c) \in Nat /\ Len(c \o <<marker>>) = Len(c) + 1
       /\ \A i \in 1..Len(c) : (c \o <<marker>>)[i] = c[i]
  BY <1>11
<1>15. \A i \in 1..(Len(c) + 1) : i \in 1..Len(c) \/ i = Len(c) + 1
  BY <1>14
<1>16. \A i \in 1..(Len(c) + 1) : (c \o <<marker>>)[i] = marker => i = Len(c) + 1
  BY <1>13, <1>14, <1>15
<1> QED BY <1>9, <1>12, <1>14, <1>16

\* When one manifest is all there is, what is seen disappears at once.
LEMMA FewerVisible ==
    ASSUME NEW u \in Moment, NEW w \in Moment, Fewer(w, u), ~BothPresent(u)
    PROVE  Visible(w) \in {Absent, Visible(u)}
<1> SUFFICES ASSUME Visible(w) # Absent PROVE Visible(w) = Visible(u)
  OBVIOUS
<1>1. PICK p \in Place : w[marker] # Absent /\ Valid(w, p) /\ Visible(w) = Content(w, p)
  BY VisibleIs
<1>2. u[marker] # Absent
  BY <1>1, FilesOf DEF Fewer
<1>3. Valid(u, p) /\ Content(u, p) = Content(w, p)
  BY <1>1, FewerValid
<1>4. ~Valid(u, 1 - p)
  BY <1>3, Places, ValidIs DEF BothPresent
<1>5. IsCurrent(u, p)
  BY <1>3, <1>4, CurrentIs
<1> QED BY <1>1, <1>2, <1>3, <1>5, VisibleIs

LEMMA DeleteStep ==
    ASSUME ContainerInv, resident_container_delete
    PROVE  ContainerInv' /\ disk'.flash = disk.flash
<1> DEFINE r == RamOf(disk)
           fs == AllFiles
           W(n) == Without(r, fs, {}, n)
           S == Moments(unsure', versions)
           R == Changes(unsure' \/ again, goals')
<1>1. /\ r[marker] # Absent
      /\ disk' = DeleteFiles(disk, fs, {}) /\ op' = [step |-> "delete", goal |-> Absent]
      /\ goals' = goals \cup {Absent}
      /\ unsure' = (unsure \/ \A p \in Place : r[manifest(p)] # Absent)
      /\ UNCHANGED <<versions, again>>
  BY RamIs DEF resident_container_delete
<1>2. /\ r \in Moment /\ (InOrder => Sound(r) /\ (unsure \/ Whole(r, versions)))
      /\ Stays(disk, Moments(unsure, versions), Changes(unsure \/ again, goals))
      /\ goals \subseteq versions \cup {Absent} /\ versions \subseteq [Types -> Value]
      /\ unsure \in BOOLEAN /\ again \in BOOLEAN
  BY ContainerInvParts DEF ContainerInv
<1>3. unsure' \in BOOLEAN /\ (unsure => unsure') /\ (~unsure' => ~unsure /\ ~BothPresent(r))
  BY <1>1, <1>2 DEF BothPresent
<1>4. Stays(disk, S, R)
  BY <1>1, <1>2, <1>3, StaysForMore
<1>5. /\ fs \in Seq(Files) /\ Len(fs) \in Nat /\ \A f \in Files : Has(fs, f)
      /\ \A i \in 1..Len(fs) : fs[i] = marker => i = Len(fs)
  BY AllFilesAre
<1> HIDE DEF r, fs
<1>6. ASSUME NEW n \in 0..Len(fs)
      PROVE  /\ W(n) \in Moment /\ Fewer(W(n), r)
             /\ \A f \in Files : W(n)[f] = IF \E i \in 1..n : fs[i] = f THEN Absent ELSE r[f]
             /\ Fewer(W(n + 1), W(n))
  BY <1>2, <1>5, WithoutIs
<1>7. \A f \in Files : W(Len(fs))[f] = Absent
  <2> HIDE DEF W
  <2>1. Len(fs) \in 0..Len(fs)
    BY <1>5
  <2>2. \A f \in Files : W(Len(fs))[f] = IF \E i \in 1..Len(fs) : fs[i] = f THEN Absent ELSE r[f]
    BY <1>6, <2>1
  <2> QED BY <1>5, <2>2 DEF Has
<1>8. ASSUME NEW n \in 0..Len(fs), InOrder
      PROVE  Sound(W(n)) /\ (unsure' \/ Whole(W(n), versions))
  <2> DEFINE w == W(n)
  <2>1. w \in Moment /\ Fewer(w, r)
    BY <1>6
  <2>2. Paired(w) /\ OwnMutable(w) /\ (BothPresent(w) => BothPresent(r))
    BY <1>2, <1>8, <2>1, FewerSound DEF Sound
  <2>3. FreeIsUsable(w)
    <3> SUFFICES ASSUME w[marker] = Absent PROVE \A p \in Place : w[manifest(p)] = Absent
      BY DEF FreeIsUsable, HasManifest
    <3>1. \E i \in 1..n : fs[i] = marker
      BY <1>1, <1>6, FilesOf DEF r
    <3>2. n = Len(fs)
      BY <1>5, <3>1
    <3> QED BY <1>7, <3>2, FilesOf
  <2> HIDE DEF w
  <2>4. ASSUME ~unsure' PROVE Whole(w, versions)
    <3>1. ~BothPresent(w) /\ Whole(r, versions)
      BY <1>2, <1>3, <1>8, <2>2, <2>4
    <3> QED BY <1>2, <2>1, <3>1, FewerWhole
  <2>5. Sound(w)
    BY <2>2, <2>3 DEF Sound
  <2> QED BY <2>4, <2>5 DEF w
<1>9. ASSUME NEW n \in 1..Len(fs) PROVE May(S, R, W(n - 1), W(n))
  <2>1. n - 1 \in 0..Len(fs) /\ n \in 0..Len(fs) /\ (n - 1) + 1 = n
    BY <1>5
  <2>2. Fewer(W(n), W(n - 1)) /\ W(n) \in Moment /\ W(n - 1) \in Moment /\ Fewer(W(n - 1), r)
    BY <1>6, <2>1
  <2>3. ASSUME InOrder, ~(unsure' \/ again) PROVE Visible(W(n)) \in goals' \cup {Visible(W(n - 1))}
    <3>1. ~BothPresent(W(n - 1))
      BY <1>2, <1>3, <2>2, <2>3, FewerSound
    <3>2. Visible(W(n)) \in {Absent, Visible(W(n - 1))}
      BY <2>2, <3>1, FewerVisible
    <3> QED BY <1>1, <3>2
  <2> QED BY <1>8, <2>1, <2>2, <2>3, MayBe
<1> DEFINE e == DeleteFiles(disk, fs, {})
<1>10. Stays(e, S, R) /\ e.flash = disk.flash /\ RamOf(e) = W(Len(fs))
  <2> HIDE DEF S, R
  <2>1. \A n \in 1..Len(fs) : May(S, R, Without(RamOf(disk), fs, {}, n - 1),
                                        Without(RamOf(disk), fs, {}, n))
    BY <1>9 DEF r
  <2> QED BY <1>4, <1>5, <2>1, StaysDeleted DEF r
<1>11. disk' = e
  BY <1>1 DEF fs
<1> HIDE DEF e, S, R
<1>12. \A f \in Files : RamOf(disk')[f] = Absent
  BY <1>7, <1>10, <1>11
<1>13. OpType'
  BY <1>1 DEF OpType
<1>14. OpIsAt(op', RamOf(disk'), goals', versions', unsure', again')
  BY <1>1, <1>12 DEF OpIsAt
<1>15. goals' \subseteq versions \cup {Absent}
  BY <1>1, <1>2
<1> QED BY <1>1, <1>2, <1>3, <1>10, <1>11, <1>13, <1>14, <1>15 DEF ContainerInv, S, R

\* Nothing is there once a deletion is done.
LEMMA FinishDeleteStep ==
    ASSUME ContainerInv, FinishDelete
    PROVE  ContainerInv' /\ disk' = disk /\ op.goal = Absent /\ op.goal \in goals
           /\ Visible(disk.flash) = Absent
<1> DEFINE r == RamOf(disk)
<1>1. /\ op.step = "delete" /\ IsSettled(disk) /\ op' = Idle /\ goals' = {op.goal}
      /\ unsure' = FALSE /\ again' = FALSE /\ UNCHANGED <<disk, versions>>
  BY DEF FinishDelete, Synced
<1>2. /\ r \in Moment
      /\ Stays(disk, Moments(unsure, versions), Changes(unsure \/ again, goals))
      /\ versions \subseteq [Types -> Value]
      /\ OpIsAt(op, r, goals, versions, unsure, again) /\ OpType
  BY ContainerInvParts DEF ContainerInv
<1>3. op = [step |-> "delete", goal |-> Absent] /\ op # Idle
  BY <1>1, <1>2 DEF OpType, Idle
<1>4. op.goal = Absent
  BY <1>3
<1> HIDE DEF r
<1>5. /\ op.goal \in goals /\ \A f \in Files : r[f] = Absent
  BY <1>1, <1>2, <1>3 DEF OpIsAt
<1>6. ~HasManifest(r)
  BY <1>5, FilesOf DEF HasManifest
<1>7. Sound(r) /\ Whole(r, versions) /\ Visible(r) = Absent
  BY <1>2, <1>6, NoManifest
<1>8. disk.flash = r
  BY <1>1, <1>2, StaysEnds DEF r
<1>9. r \in Moments(FALSE, versions)
  BY <1>2, <1>7 DEF Moments
<1>10. Stays(disk, Moments(FALSE, versions), Changes(FALSE \/ FALSE, {op.goal}))
  BY <1>1, <1>2, <1>9, StaysAnew DEF r
<1>11. OpType' /\ OpIsAt(op', RamOf(disk'), goals', versions', unsure', again')
  BY <1>1, IdleIsAt DEF OpType
<1>12. ContainerInv'
  BY <1>1, <1>2, <1>4, <1>10, <1>11 DEF ContainerInv
<1> QED BY <1>1, <1>4, <1>5, <1>7, <1>8, <1>12

LEMMA CommitTimeoutStep ==
    ASSUME ContainerInv, CommitTimeout
    PROVE  ContainerInv'
BY OpEnds DEF CommitTimeout

LEMMA DrainStep ==
    ASSUME ContainerInv, Drain
    PROVE  /\ ContainerInv'
           /\ InOrder /\ ~(unsure \/ again) =>
                Visible(disk'.flash) \in goals \cup {Visible(disk.flash)}
<1> DEFINE S == Moments(unsure, versions)
           R == Changes(unsure \/ again, goals)
<1>1. PICK f \in Files : CanDrain(disk, f) /\ disk' = Drained(disk, f)
  BY DEF Drain
<1>2. UNCHANGED <<op, goals, versions, unsure, again>>
  BY DEF Drain
<1>3. Stays(disk, S, R)
  BY DEF ContainerInv
<1> DEFINE e == Drained(disk, f)
<1> HIDE DEF S, R
<1>4. Stays(e, S, R) /\ RamOf(e) = RamOf(disk) /\ (InOrder => <<disk.flash, e.flash>> \in R)
  BY <1>1, <1>3, StaysDrained
<1>5. disk' = e
  BY <1>1
<1> HIDE DEF e
<1>6. ContainerInv'
  BY <1>2, <1>4, <1>5 DEF ContainerInv, OpType, S, R
<1>7. InOrder /\ ~(unsure \/ again) => Visible(e.flash) \in goals \cup {Visible(disk.flash)}
  BY <1>4 DEF R, Changes
<1> QED BY <1>5, <1>6, <1>7

LEMMA PowerCycleStep ==
    ASSUME ContainerInv, PowerCycle
    PROVE  ContainerInv' /\ disk'.flash = disk.flash
<1> DEFINE S == Moments(unsure, versions)
           R == Changes(unsure \/ again, {})
           c == disk.flash
<1>1. /\ disk' = Crashed(disk) /\ op' = Idle /\ goals' = {}
      /\ UNCHANGED <<versions, unsure, again>>
  BY DEF PowerCycle
<1>2. Stays(disk, S, Changes(unsure \/ again, goals))
  BY DEF ContainerInv
<1>3. c \in Moment /\ (InOrder => c \in S)
  BY <1>2, ContainerInvParts, StaysEnds
<1> HIDE DEF S, R, c
<1>4. Stays(Settled(c), S, R)
  BY <1>3, StaysSettled
<1>5. disk' = Settled(c)
  BY <1>1 DEF Crashed, c
<1>6. disk'.flash = c
  BY <1>5 DEF Settled
<1>7. OpType' /\ OpIsAt(op', RamOf(disk'), goals', versions', unsure', again')
  BY <1>1, IdleIsAt DEF OpType
<1>8. versions \subseteq [Types -> Value] /\ unsure \in BOOLEAN /\ again \in BOOLEAN
  BY DEF ContainerInv
<1>9. ContainerInv'
  BY <1>1, <1>4, <1>5, <1>7, <1>8 DEF ContainerInv, S, R
<1> QED BY <1>6, <1>9 DEF c

LEMMA InitInv == Init => ContainerInv /\ Visible(disk.flash) = Absent
<1> SUFFICES ASSUME Init PROVE ContainerInv /\ Visible(disk.flash) = Absent
  OBVIOUS
<1> DEFINE c == [f \in Files |-> Absent]
           S == Moments(unsure, versions)
           R == Changes(unsure \/ again, goals)
<1>1. /\ disk = Settled(c) /\ op = Idle /\ goals = {} /\ versions = {}
      /\ unsure = FALSE /\ again = FALSE
  BY DEF Init
<1>2. c \in Moment
  BY ContentsOfFiles, IsMoment
<1>3. ~HasManifest(c)
  BY FilesOf DEF HasManifest
<1> HIDE DEF c
<1>4. Sound(c) /\ Whole(c, versions) /\ Visible(c) = Absent
  BY <1>2, <1>3, NoManifest
<1>5. c \in S
  BY <1>2, <1>4 DEF Moments
<1> HIDE DEF S, R
<1>6. Stays(disk, S, R)
  BY <1>1, <1>2, <1>5, StaysSettled
<1>7. disk.flash = c
  BY <1>1 DEF Settled
<1>8. OpType /\ OpIsAt(op, RamOf(disk), goals, versions, unsure, again)
  BY <1>1, IdleIsAt DEF OpType
<1> QED BY <1>1, <1>4, <1>6, <1>7, <1>8 DEF ContainerInv, S, R

\* What a handler that finds a credential knows.
LEMMA SeenIs ==
    ASSUME ram \in Moment, Visible(ram) # Absent
    PROVE  ram[marker] # Absent /\ Loads(ram) /\ Visible(ram) = Content(ram, Current(ram))
<1>1. PICK p \in Place : ram[marker] # Absent /\ IsCurrent(ram, p) /\ Visible(ram) = Content(ram, p)
  BY VisibleIs
<1> QED BY <1>1, LoadsCurrent

LEMMA MutableOnly == <<Mutable>> \in Seq(Types) /\ Range(<<Mutable>>) = {Mutable}
<1>1. <<Mutable>> \in Seq(Types)
  BY ContainerAssumption
<1>2. Range(<<Mutable>>) = {<<Mutable>>[i] : i \in 1..Len(<<Mutable>>)}
  BY <1>1, RangeIs
<1> QED BY <1>1, <1>2

LEMMA CreateInFreeSlotStep ==
    ASSUME ContainerInv, NEW v \in Value, CreateInFreeSlot(v)
    PROVE  /\ ContainerInv' /\ disk'.flash = disk.flash
           /\ unsure' = unsure /\ again' = again /\ goals' = goals \cup {NewCredential(v)}
           /\ NewCredential(v) \in [Types -> Value]
<1> DEFINE goal == NewCredential(v)
<1>1. /\ ram[marker] = Absent /\ again' = again
      /\ resident_container_update(Objects, v, goal)
  BY DEF CreateInFreeSlot
<1>2. goal \in [Types -> Value] /\ \A t \in Types : goal[t] = v
  BY DEF NewCredential
<1>3. Objects \in Seq(Types) /\ Range(Objects) = Types /\ Mutable \in Types
  BY ContainerAssumption DEF Types
<1>4. again \in BOOLEAN
  BY DEF ContainerInv
<1> HIDE DEF goal
<1>5. ContainerInv' /\ disk'.flash = disk.flash /\ unsure' = unsure /\ goals' = goals \cup {goal}
  BY <1>1, <1>2, <1>3, <1>4, UpdateStep
<1> QED BY <1>1, <1>2, <1>5 DEF goal

LEMMA CreateAgainStep ==
    ASSUME ContainerInv, NEW v \in Value, CreateAgain(v)
    PROVE  /\ ContainerInv' /\ disk'.flash = disk.flash
           /\ unsure' = unsure /\ again' = TRUE /\ goals' = goals \cup {NewCredential(v)}
           /\ NewCredential(v) \in [Types -> Value]
<1> DEFINE goal == NewCredential(v)
<1>1. /\ again' = TRUE /\ resident_container_update(Objects, v, goal)
  BY DEF CreateAgain
<1>2. goal \in [Types -> Value] /\ \A t \in Types : goal[t] = v
  BY DEF NewCredential
<1>3. Objects \in Seq(Types) /\ Range(Objects) = Types /\ Mutable \in Types
  BY ContainerAssumption DEF Types
<1>4. again' \in BOOLEAN /\ (again => again')
  BY <1>1
<1> HIDE DEF goal
<1>5. ContainerInv' /\ disk'.flash = disk.flash /\ unsure' = unsure /\ goals' = goals \cup {goal}
  BY <1>1, <1>2, <1>3, <1>4, UpdateStep
<1> QED BY <1>1, <1>2, <1>5 DEF goal

LEMMA UpdateCredentialStep ==
    ASSUME ContainerInv, NEW v \in Value, UpdateCredential(v)
    PROVE  \E goal \in [Types -> Value] :
             /\ ContainerInv' /\ disk'.flash = disk.flash
             /\ unsure' = unsure /\ again' = again /\ goals' = goals \cup {goal}
<1> DEFINE goal == [Visible(ram) EXCEPT ![Mutable] = v]
           old == Content(ram, Current(ram))
<1>1. /\ Visible(ram) # Absent /\ again' = again
      /\ resident_container_update(<<Mutable>>, v, goal)
  BY DEF UpdateCredential
<1>2. ram \in Moment
  BY ContainerInvParts, RamIs
<1>3. ram[marker] # Absent /\ Loads(ram) /\ Visible(ram) = old
  BY <1>1, <1>2, SeenIs
<1>4. Visible(ram) \in [Types -> Value]
  BY <1>1, <1>2, VisibleType
<1>5. Mutable \in Types
  BY ContainerAssumption
<1>6. /\ goal \in [Types -> Value] /\ goal[Mutable] = v
      /\ \A t \in Types \ {Mutable} : goal[t] = old[t]
  <2> HIDE DEF old
  <2> QED BY <1>3, <1>4, <1>5
<1>7. again \in BOOLEAN
  BY DEF ContainerInv
<1>8. <<Mutable>> \in Seq(Types) /\ Range(<<Mutable>>) = {Mutable}
  BY MutableOnly
<1> DEFINE ts == <<Mutable>>
<1>9. /\ ts \in Seq(Types) /\ Range(ts) = {Mutable}
      /\ resident_container_update(ts, v, goal)
      /\ \A t \in Types \ Range(ts) : goal[t] = Content(ram, Current(ram))[t]
  BY <1>1, <1>6, <1>8
<1> HIDE DEF goal, ts, old
<1>10. \A t \in Range(ts) : goal[t] = v
  BY <1>6, <1>9
<1>11. ContainerInv' /\ disk'.flash = disk.flash /\ unsure' = unsure /\ goals' = goals \cup {goal}
  BY <1>1, <1>3, <1>6, <1>7, <1>9, <1>10, UpdateStep
<1> QED BY <1>1, <1>6, <1>11

\* Whatever the program does next, with the steps of an AtomicCredential.
LEMMA NextInv ==
    ASSUME ContainerInv, [Next]_vars
    PROVE  /\ ContainerInv'
           /\ InOrder => Slot!Next \/ UNCHANGED <<Visible(flash), goals, unsure \/ again>>
<1> DEFINE Seen == Visible(flash)
           Stutters == UNCHANGED <<Visible(flash), goals, unsure \/ again>>
<1>1. /\ flash = disk.flash /\ flash' = disk'.flash
      /\ (disk'.flash = disk.flash => Seen' = Seen)
  <2>1. flash = disk.flash /\ flash' = disk'.flash
    BY DEF flash
  <2>2. ASSUME disk'.flash = disk.flash PROVE Seen' = Seen
    <3>1. flash' = flash
      BY <2>1, <2>2
    <3> QED BY <3>1 DEF Visible, Loads, Current, IsCurrent, Valid
  <2> QED BY <2>1, <2>2
<1>2. unsure \in BOOLEAN /\ again \in BOOLEAN
  BY DEF ContainerInv
<1>3. ASSUME NEW c \in [Types -> Value] \cup {Absent},
             Seen' = Seen, goals' = goals \cup {c}, (unsure \/ again)' \in {unsure \/ again, TRUE}
      PROVE  Slot!Next
  BY <1>3 DEF Slot!Next, Slot!Ask
<1>4. ASSUME NEW c \in goals, Seen' = Seen, goals' = {c},
             (unsure \/ again)' \in {unsure \/ again, (unsure \/ again) /\ Seen # Absent}
      PROVE  Slot!Next
  BY <1>4 DEF Slot!Next, Slot!Forget
<1>5. ASSUME NEW v \in Value, CreateInFreeSlot(v)
      PROVE  ContainerInv' /\ Slot!Next
  <2>1. /\ ContainerInv' /\ disk'.flash = disk.flash
        /\ unsure' = unsure /\ again' = again /\ goals' = goals \cup {NewCredential(v)}
        /\ NewCredential(v) \in [Types -> Value]
    BY <1>5, CreateInFreeSlotStep
  <2> QED BY <1>1, <1>3, <2>1
<1>6. ASSUME NEW v \in Value, CreateAgain(v)
      PROVE  ContainerInv' /\ Slot!Next
  BY <1>1, <1>3, <1>6, CreateAgainStep
<1>7. ASSUME NEW v \in Value, UpdateCredential(v)
      PROVE  ContainerInv' /\ Slot!Next
  <2>1. PICK goal \in [Types -> Value] :
             /\ ContainerInv' /\ disk'.flash = disk.flash
             /\ unsure' = unsure /\ again' = again /\ goals' = goals \cup {goal}
    BY <1>7, UpdateCredentialStep
  <2> QED BY <1>1, <1>3, <2>1
<1>8. CASE WriteManifest
  BY <1>1, <1>8, WriteManifestStep DEF WriteManifest
<1>9. CASE WriteMarker
  BY <1>1, <1>9, WriteMarkerStep DEF WriteMarker
<1>10. CASE Finish
  <2>1. goals' = {op.goal} /\ UNCHANGED <<unsure, again>>
    BY <1>10 DEF Finish
  <2> QED BY <1>1, <1>4, <1>10, <2>1, FinishStep
<1>11. CASE CommitTimeout
  BY <1>1, <1>11, CommitTimeoutStep DEF CommitTimeout
<1>12. CASE resident_container_delete
  <2>1. goals' = goals \cup {Absent} /\ unsure' \in {unsure, TRUE} /\ again' = again
    BY <1>2, <1>12 DEF resident_container_delete
  <2>2. (unsure \/ again)' \in {unsure \/ again, TRUE}
    BY <1>2, <2>1
  <2> QED BY <1>1, <1>3, <1>12, <2>1, <2>2, DeleteStep
<1>13. CASE FinishDelete
  <2>1. goals' = {op.goal} /\ unsure' = FALSE /\ again' = FALSE
    BY <1>13 DEF FinishDelete
  <2>2. ContainerInv' /\ Seen' = Seen /\ Seen = Absent /\ op.goal \in goals
    BY <1>1, <1>13, FinishDeleteStep
  <2> QED BY <1>4, <2>1, <2>2
<1>14. CASE Drain
  <2>1. UNCHANGED <<goals, unsure, again>> /\ ContainerInv'
    BY <1>14, DrainStep DEF Drain
  <2>2. Seen' \in [Types -> Value] \cup {Absent}
    <3>1. disk'.flash \in Moment
      BY <2>1, FlashIsMoment DEF ContainerInv, Stays
    <3>2. Visible(disk'.flash) \in [Types -> Value] \cup {Absent}
      BY <3>1, VisibleType
    <3> QED BY <3>2 DEF flash, Visible, Loads, Current, IsCurrent, Valid
  <2>3. CASE unsure \/ again
    BY <2>1, <2>2, <2>3 DEF Slot!Next, Slot!Disturb
  <2>4. ASSUME InOrder, ~(unsure \/ again) PROVE Seen' \in goals \cup {Seen}
    BY <1>14, <2>4, DrainStep DEF flash, Visible, Loads, Current, IsCurrent, Valid
  <2>5. CASE ~(unsure \/ again)
    BY <2>1, <2>4, <2>5 DEF Slot!Next, Slot!Land
  <2> QED BY <2>1, <2>3, <2>5
<1>15. CASE PowerCycle
  <2>1. goals' = {} /\ UNCHANGED <<unsure, again>>
    BY <1>15 DEF PowerCycle
  <2> QED BY <1>1, <1>15, <2>1, PowerCycleStep DEF Slot!Next, Slot!Forget
<1>16. CASE UNCHANGED vars
  <2>1. UNCHANGED <<disk, op, goals, versions, unsure, again>>
    BY <1>16 DEF vars
  <2> QED BY <1>1, <2>1 DEF ContainerInv, OpType
<1> QED BY <1>5, <1>6, <1>7, <1>8, <1>9, <1>10, <1>11, <1>12, <1>13, <1>14, <1>15, <1>16 DEF Next

-----------------------------------------------------------------------------
\* The inductive invariant, for every number of objects, every number of
\* generations and every length of the queue: core0 can stop, or the power
\* fail, at any write of any update or deletion.
THEOREM ContainerInvHolds == Spec => []ContainerInv
<1>1. Init => ContainerInv
  BY InitInv
<1>2. ContainerInv /\ [Next]_vars => ContainerInv'
  BY NextInv
<1> QED BY <1>1, <1>2, PTL DEF Spec

\* The files of the slot hold manifests, records and the marker, what is
\* asked for are versions or deletions, and an operation that waits for the
\* flash has a manifest and a place (resident_container_update).
THEOREM TypeOKHolds == Spec => []TypeOK
<1>1. ASSUME ContainerInv PROVE TypeOK
  <2>1. IsDisk(disk, FileContents)
    BY <1>1, ContainerInvParts
  <2>2. \A f \in Files : Seq(FileContents[f]) \subseteq Seq(Contents[f])
    <3>1. \A f \in Files : FileContents[f] \subseteq Contents[f]
      BY ContentsOfFiles
    <3>2. ASSUME NEW A, NEW B, A \subseteq B PROVE Seq(A) \subseteq Seq(B)
      BY <3>2
    <3> QED BY <3>1, <3>2
  <2>3. IsDisk(disk, Contents)
    BY <2>1, <2>2, ContentsOfFiles DEF IsDisk
  <2> QED BY <1>1, <2>3 DEF ContainerInv, OpType, TypeOK
<1> QED BY <1>1, ContainerInvHolds, PTL

\* When resident_container_update or resident_container_delete returns
\* PICOKEYS_OK, what it has done survives a power cut, whatever order the
\* flash is written in and whatever is cleaned up behind it.
THEOREM DoneIsDurableHolds == Spec => DoneIsDurable
<1> DEFINE Durable == Finish \/ FinishDelete => Visible(flash') = op.goal
<1>1. ASSUME ContainerInv, [Next]_vars PROVE [Durable]_vars
  <2>1. flash = disk.flash /\ flash' = disk'.flash
    BY DEF flash
  <2>2. CASE Finish
    <3>1. disk'.flash = disk.flash /\ Visible(disk.flash) = op.goal
      BY <1>1, <2>2, FinishStep
    <3>2. flash' = disk.flash
      BY <2>1, <3>1
    <3> QED BY <3>1, <3>2
  <2>3. CASE FinishDelete
    <3>1. disk' = disk /\ op.goal = Absent /\ Visible(disk.flash) = Absent
      BY <1>1, <2>3, FinishDeleteStep
    <3>2. flash' = disk.flash
      BY <2>1, <3>1
    <3> QED BY <3>1, <3>2
  <2> QED BY <2>2, <2>3
<1> QED BY <1>1, ContainerInvHolds, PTL DEF Spec, DoneIsDurable

\* resident_container_can_create is true for every slot a restart finds
\* without a marker: neither a creation nor a deletion that was cut short
\* leaves a slot that cannot be used again.
THEOREM FreeSlotIsUsableHolds == InOrder => (Spec => []FreeSlotIsUsable)
<1> SUFFICES ASSUME InOrder PROVE Spec => []FreeSlotIsUsable
  OBVIOUS
<1>1. ASSUME ContainerInv PROVE FreeSlotIsUsable
  <2>1. flash \in Moment /\ Sound(flash)
    BY <1>1, ContainerInvParts DEF flash
  <2>2. ASSUME flash[marker] = Absent, HasManifest(flash) PROVE Loads(flash)
    <3>1. PICK p \in Place : Valid(flash, p)
      BY <2>1, <2>2 DEF Sound, FreeIsUsable
    <3> QED BY <2>1, <3>1, LoadsIfValid DEF Sound
  <2> QED BY <2>2 DEF FreeSlotIsUsable
<1> QED BY <1>1, ContainerInvHolds, PTL

\* resident_container_read never gives a mixture of two versions, not even
\* after updates that failed or were cut short at any place.
THEOREM NothingInventedHolds == InOrder => (Spec => []NothingInvented)
<1> SUFFICES ASSUME InOrder PROVE Spec => []NothingInvented
  OBVIOUS
<1>1. ASSUME ContainerInv PROVE NothingInvented
  <2> SUFFICES ASSUME ~unsure PROVE {Visible(ram), Visible(flash)} \subseteq versions \cup {Absent}
    BY DEF NothingInvented
  <2>1. ram \in Moment /\ flash \in Moment /\ Whole(ram, versions) /\ Whole(flash, versions)
    BY <1>1, ContainerInvParts, RamIs DEF flash
  <2>2. ASSUME NEW v \in Moment, Whole(v, versions) PROVE Visible(v) \in versions \cup {Absent}
    BY <2>2, VisibleIs DEF Whole
  <2> QED BY <2>1, <2>2
<1> QED BY <1>1, ContainerInvHolds, PTL

\* Along a chain of moments each of which shows a goal or what the one before
\* it shows, the last shows a goal or what the first shows.
LEMMA ChainOfChanges ==
    ASSUME NEW n \in Nat, NEW ms, NEW gs,
           \A i \in 1..n : Visible(ms[i]) \in gs \cup {Visible(ms[i - 1])}
    PROVE  Visible(ms[n]) \in gs \cup {Visible(ms[0])}
<1> DEFINE x == Visible(ms[n])
           S == {i \in 0..n : Visible(ms[i]) = x}
<1>1. n \in S /\ S \in SUBSET Nat
  OBVIOUS
<1>2. PICK m \in S : \A k \in S : m <= k
  BY <1>1, HasLowest
<1>3. CASE m = 0
  BY <1>2, <1>3
<1>4. CASE m # 0
  <2>1. m \in 1..n /\ m - 1 \in 0..n /\ ~(m <= m - 1) /\ Visible(ms[m]) = x
    BY <1>2, <1>4
  <2>2. Visible(ms[m - 1]) # x
    BY <1>2, <2>1
  <2> QED BY <2>1, <2>2
<1> QED BY <1>3, <1>4

\* What resident_container_read gives was asked for and may still come true,
\* or it is what a restart would find: a request that failed half way never
\* brings back what a later one has replaced.
THEOREM ReadsOneVersionHolds == InOrder => (Spec => []ReadsOneVersion)
<1> SUFFICES ASSUME InOrder PROVE Spec => []ReadsOneVersion
  OBVIOUS
<1>1. ASSUME ContainerInv PROVE ReadsOneVersion
  <2> SUFFICES ASSUME ~(unsure \/ again) PROVE Visible(ram) \in goals \cup {Visible(flash)}
    BY DEF ReadsOneVersion
  <2> DEFINE n == Len(disk.order)
  <2>1. IsDisk(disk, FileContents)
    BY <1>1, ContainerInvParts
  <2>2. PICK ms : /\ IsHistory(disk, FileContents, ms)
                  /\ \A i \in 1..n : <<ms[i - 1], ms[i]>> \in Changes(unsure \/ again, goals)
    BY <1>1 DEF ContainerInv, Stays
  <2>3. n \in Nat /\ ms[0] = flash /\ ms[n] = ram
    <3>1. n \in Nat /\ ms[0] = disk.flash /\ ms[n] = [f \in DOMAIN FileContents |-> Read(disk, f)]
      BY <2>1, <2>2, HistoryEnds
    <3> QED BY <3>1, ContentsOfFiles DEF ram, flash
  <2>4. \A i \in 1..n : Visible(ms[i]) \in goals \cup {Visible(ms[i - 1])}
    BY <2>2 DEF Changes
  <2> HIDE DEF n
  <2>5. Visible(ms[n]) \in goals \cup {Visible(ms[0])}
    BY <2>3, <2>4, ChainOfChanges
  <2> QED BY <2>3, <2>5
<1> QED BY <1>1, ContainerInvHolds, PTL

\* The slot implements an AtomicCredential: the first creation, an update and
\* a deletion change what a restart finds from one whole version to the next
\* in a single step, the write of one file, at whatever write core0 stops.
THEOREM ChangesAtOnceHolds == InOrder => (Spec => ChangesAtOnce)
<1> SUFFICES ASSUME InOrder PROVE Spec => ChangesAtOnce
  OBVIOUS
<1>1. Init => Slot!Init
  <2> SUFFICES ASSUME Init PROVE Slot!Init
    OBVIOUS
  <2>1. goals = {} /\ unsure = FALSE /\ again = FALSE /\ Visible(disk.flash) = Absent
    BY InitInv DEF Init
  <2>2. Visible(flash) = Absent
    BY <2>1 DEF flash
  <2> QED BY <2>1, <2>2 DEF Slot!Init
<1>2. ContainerInv /\ [Next]_vars => [Slot!Next]_(Slot!vars)
  BY NextInv DEF Slot!vars
<1> QED BY <1>1, <1>2, ContainerInvHolds, PTL DEF Spec, ChangesAtOnce, Slot!Spec
=============================================================================
