---------------------------- MODULE DirOpsProofs ----------------------------
(***************************************************************************)
(* Proofs about DirOps, for any names, directories, tasks and numbers of   *)
(* commands and faults: its types, that the directories a backend knows    *)
(* exist, that no file is lost, and that a command which answers Ok has    *)
(* done what it was asked for.                                             *)
(***************************************************************************)
EXTENDS DirOps, SequenceTheorems, TLAPS

-----------------------------------------------------------------------------
(* The shape of the tree and of the tasks *)

IsTree(tr) == tr = [kind |-> tr.kind, dirs |-> tr.dirs, known |-> tr.known, refused |-> tr.refused,
                    unheard |-> tr.unheard, obj |-> tr.obj]

IsJob(j) == j = [pc |-> j.pc, cmd |-> j.cmd, all |-> j.all, items |-> j.items, item |-> j.item,
                 dest |-> j.dest, name |-> j.name, rel |-> j.rel, at |-> j.at, content |-> j.content,
                 to |-> j.to, got |-> j.got, taken |-> j.taken, began |-> j.began, tried |-> j.tried,
                 result |-> j.result]

LEMMA TreeDirs ==
    ASSUME NEW tr, IsTree(tr), NEW d
    PROVE  [tr EXCEPT !.dirs = d] = [kind |-> tr.kind, dirs |-> d, known |-> tr.known, refused |-> tr.refused,
                                     unheard |-> tr.unheard, obj |-> tr.obj]
BY DEF IsTree

LEMMA JobPc ==
    ASSUME NEW j, IsJob(j), NEW p, NEW r, r = [j EXCEPT !.pc = p]
    PROVE  /\ IsJob(r) /\ r.pc = p /\ r.cmd = j.cmd /\ r.all = j.all /\ r.items = j.items /\ r.item = j.item
           /\ r.dest = j.dest /\ r.name = j.name /\ r.rel = j.rel /\ r.at = j.at /\ r.content = j.content
           /\ r.to = j.to /\ r.got = j.got /\ r.taken = j.taken
BY DEF IsJob

\* The same command, at the same place.
SameBut(r, j) == /\ r.pc = j.pc /\ r.cmd = j.cmd /\ r.all = j.all /\ r.dest = j.dest /\ r.name = j.name
                 /\ r.rel = j.rel /\ r.content = j.content

LEMMA JobGot ==
    ASSUME NEW j, IsJob(j), NEW x, NEW r, r = [j EXCEPT !.got = x]
    PROVE  IsJob(r) /\ SameBut(r, j) /\ r.got = x /\ r.items = j.items /\ r.item = j.item /\ r.to = j.to /\ r.at = j.at
BY DEF IsJob, SameBut

LEMMA JobItems ==
    ASSUME NEW j, IsJob(j), NEW x, NEW r, r = [j EXCEPT !.items = x]
    PROVE  IsJob(r) /\ SameBut(r, j) /\ r.items = x /\ r.got = j.got /\ r.item = j.item /\ r.to = j.to /\ r.at = j.at
BY DEF IsJob, SameBut

LEMMA JobItem ==
    ASSUME NEW j, IsJob(j), NEW x, NEW r, r = [j EXCEPT !.item = x]
    PROVE  IsJob(r) /\ SameBut(r, j) /\ r.item = x /\ r.got = j.got /\ r.items = j.items /\ r.to = j.to /\ r.at = j.at
BY DEF IsJob, SameBut

LEMMA JobTaken ==
    ASSUME NEW j, IsJob(j), NEW x, NEW r, r = [j EXCEPT !.taken = x]
    PROVE  IsJob(r) /\ SameBut(r, j) /\ r.item = j.item /\ r.got = j.got /\ r.items = j.items /\ r.to = j.to /\ r.at = j.at
BY DEF IsJob, SameBut

LEMMA JobAt ==
    ASSUME NEW j, IsJob(j), NEW x, NEW r, r = [j EXCEPT !.at = x]
    PROVE  IsJob(r) /\ SameBut(r, j) /\ r.at = x /\ r.item = j.item /\ r.got = j.got /\ r.items = j.items /\ r.to = j.to
BY DEF IsJob, SameBut

-----------------------------------------------------------------------------
(* Keys as sequences *)

LEMMA ParentLeaf ==
    ASSUME NEW S, NEW s \in Seq(S), s # <<>>
    PROVE  /\ parent_prefix(s) \in Seq(S) /\ leaf_of(s) \in S /\ Len(s) \in Nat \ {0}
           /\ Len(parent_prefix(s)) = Len(s) - 1
           /\ \A i \in 1 .. Len(s) - 1 : parent_prefix(s)[i] = s[i]
<1>1. Len(s) \in Nat /\ Len(s) # 0 BY EmptySeq, LenProperties
<1>2. Len(s) - 1 \in 0 .. Len(s) BY <1>1
<1>3. parent_prefix(s) = [i \in 1 .. Len(s) - 1 |-> s[i]] BY <1>1 DEF parent_prefix
<1>4. \A i \in 1 .. Len(s) : s[i] \in S BY ElementOfSeq
<1> QED BY <1>1, <1>2, <1>3, <1>4 DEF leaf_of

LEMMA AppendParent ==
    ASSUME NEW S, NEW s \in Seq(S), NEW x \in S
    PROVE  parent_prefix(Append(s, x)) = s /\ leaf_of(Append(s, x)) = x /\ Append(s, x) # <<>> /\ Append(s, x) \in Seq(S)
<1>1. /\ Append(s, x) \in Seq(S) /\ Append(s, x) # <<>> /\ Len(Append(s, x)) = Len(s) + 1 /\ Len(s) \in Nat
      /\ \A i \in 1 .. Len(s) : Append(s, x)[i] = s[i] /\ Append(s, x)[Len(s) + 1] = x
  BY AppendProperties, LenProperties
<1>2. leaf_of(Append(s, x)) = x BY <1>1 DEF leaf_of
<1>3. parent_prefix(Append(s, x)) = s
  <2> DEFINE a == Append(s, x)
             p == parent_prefix(a)
  <2>1. a \in Seq(S) /\ a # <<>> BY <1>1
  <2>2. p \in Seq(S) /\ Len(p) = Len(a) - 1 /\ \A i \in 1 .. Len(a) - 1 : p[i] = a[i]
    <3> HIDE DEF a
    <3> QED BY <2>1, ParentLeaf
  <2>3. Len(p) = Len(s) /\ \A i \in 1 .. Len(p) : p[i] = s[i] BY <1>1, <2>2
  <2> HIDE DEF p
  <2>4. p = s BY <2>2, <2>3, SeqEqual
  <2> QED BY <2>4 DEF p
<1> QED BY <1>1, <1>2, <1>3

LEMMA BeneathIff ==
    ASSUME NEW S, NEW d \in Seq(S), NEW k \in Seq(S)
    PROVE  /\ Beneath(d, k) <=> Len(d) <= Len(k) /\ \A i \in 1 .. Len(d) : k[i] = d[i]
           /\ Len(d) \in Nat /\ Len(k) \in Nat
<1>1. Len(d) \in Nat /\ Len(k) \in Nat BY LenProperties
<1>2. CASE Len(d) <= Len(k)
  <2>1. SubSeq(k, 1, Len(d)) = [i \in 1 .. Len(d) |-> k[i]] BY <1>1, <1>2
  <2>2. d = [i \in 1 .. Len(d) |-> d[i]] BY LenProperties
  <2> QED BY <1>1, <1>2, <2>1, <2>2 DEF Beneath
<1> QED BY <1>1, <1>2 DEF Beneath

\* x is `to` followed by what k has after `from`.
Spliced(from, to, k, x) ==
    /\ Len(x) = Len(to) + Len(k) - Len(from)
    /\ \A i \in 1 .. Len(to) : x[i] = to[i]
    /\ \A i \in Len(to) + 1 .. Len(x) : x[i] = k[i - Len(to) + Len(from)]

LEMMA SwappedKey ==
    ASSUME NEW S, NEW from \in Seq(S), NEW to \in Seq(S), NEW k \in Seq(S), Beneath(from, k)
    PROVE  Swapped(from, to, k) \in Seq(S) /\ Spliced(from, to, k, Swapped(from, to, k))
<1> DEFINE x == Swapped(from, to, k)
<1>1. Len(from) \in Nat /\ Len(k) \in Nat /\ Len(from) <= Len(k) /\ Len(to) \in Nat
  BY BeneathIff, LenProperties
<1> DEFINE r == SubSeq(k, Len(from) + 1, Len(k))
<1>2. /\ r \in Seq(S) /\ Len(r) = Len(k) - Len(from)
      /\ \A i \in 1 .. Len(r) : r[i] = k[Len(from) + i]
  <2>1. r = [i \in 1 .. Len(k) - Len(from) |-> k[Len(from) + i]] BY <1>1
  <2>2. \A i \in 1 .. Len(k) : k[i] \in S BY ElementOfSeq
  <2> QED BY <1>1, <2>1, <2>2
<1> HIDE DEF r
<1>3. x = to \o r BY DEF Swapped, r
<1> HIDE DEF x
<1>4. /\ x \in Seq(S) /\ Len(x) = Len(to) + Len(r)
      /\ \A i \in 1 .. Len(to) + Len(r) : x[i] = IF i <= Len(to) THEN to[i] ELSE r[i - Len(to)]
  <2>1. r \in Seq(S) BY <1>2
  <2> QED BY <1>3, <2>1, ConcatProperties
<1>5. ASSUME NEW i \in 1 .. Len(to) PROVE x[i] = to[i]
  <2>1. i \in 1 .. Len(to) + Len(r) /\ i <= Len(to) BY <1>1, <1>2
  <2> QED BY <1>4, <2>1
<1>6. ASSUME NEW i \in Len(to) + 1 .. Len(x) PROVE x[i] = k[i - Len(to) + Len(from)]
  <2>0. Len(r) \in Nat /\ i \in Len(to) + 1 .. Len(to) + Len(r) BY <1>1, <1>2, <1>4
  <2>1. i \in 1 .. Len(to) + Len(r) /\ ~(i <= Len(to)) /\ i - Len(to) \in 1 .. Len(r) BY <1>1, <2>0
  <2>2. x[i] = r[i - Len(to)] BY <1>4, <2>1
  <2>3. r[i - Len(to)] = k[Len(from) + (i - Len(to))] BY <1>2, <2>1
  <2>4. Len(from) + (i - Len(to)) = i - Len(to) + Len(from) BY <1>1
  <2> QED BY <2>2, <2>3, <2>4
<1> QED BY <1>1, <1>2, <1>4, <1>5, <1>6 DEF Spliced, x

\* What is beneath one folder, at its place beneath another.
LEMMA SwappedBack ==
    ASSUME NEW S, NEW from \in Seq(S), NEW to \in Seq(S), NEW k \in Seq(S), Beneath(from, k),
           NEW x, x = Swapped(from, to, k)
    PROVE  Beneath(to, x) /\ Swapped(to, from, x) = k
<1>0. Len(from) \in Nat /\ Len(k) \in Nat /\ Len(to) \in Nat /\ Len(from) <= Len(k)
      /\ \A i \in 1 .. Len(from) : k[i] = from[i]
  BY BeneathIff, LenProperties
<1>1. /\ x \in Seq(S) /\ Len(x) = Len(to) + Len(k) - Len(from)
      /\ \A i \in 1 .. Len(to) : x[i] = to[i]
      /\ \A i \in Len(to) + 1 .. Len(x) : x[i] = k[i - Len(to) + Len(from)]
  <2>1. x \in Seq(S) /\ Spliced(from, to, k, x) BY SwappedKey
  <2> QED BY <2>1 DEF Spliced
<1>2. Beneath(to, x)
  <2>1. Len(to) <= Len(x) /\ x \in Seq(S) /\ \A i \in 1 .. Len(to) : x[i] = to[i] BY <1>0, <1>1
  <2> QED BY <2>1, BeneathIff
<1> DEFINE y == Swapped(to, from, x)
<1>3. /\ y \in Seq(S) /\ Len(y) = Len(from) + Len(x) - Len(to)
      /\ \A i \in 1 .. Len(from) : y[i] = from[i]
      /\ \A i \in Len(from) + 1 .. Len(y) : y[i] = x[i - Len(from) + Len(to)]
  <2>1. y \in Seq(S) /\ Spliced(to, from, x, y) BY <1>1, <1>2, SwappedKey
  <2> HIDE DEF y
  <2> QED BY <2>1 DEF Spliced
<1> HIDE DEF y
<1>4. Len(y) = Len(k) BY <1>0, <1>1, <1>3
<1>5. ASSUME NEW i \in 1 .. Len(k) PROVE y[i] = k[i]
  <2>1. CASE i <= Len(from) BY <1>0, <1>3, <2>1
  <2>2. CASE ~(i <= Len(from))
    <3> DEFINE n == i - Len(from) + Len(to)
    <3>1. i \in Len(from) + 1 .. Len(y) BY <1>0, <1>4, <2>2
    <3>2. n \in Len(to) + 1 .. Len(x) /\ n - Len(to) + Len(from) = i BY <1>0, <1>1, <2>2
    <3>3. y[i] = x[n] BY <1>3, <3>1
    <3> HIDE DEF n
    <3>4. x[n] = k[n - Len(to) + Len(from)] BY <1>1, <3>2
    <3> QED BY <3>2, <3>3, <3>4
  <2> QED BY <2>1, <2>2
<1>6. y = k BY <1>3, <1>4, <1>5, SeqEqual
<1> QED BY <1>2, <1>6 DEF y

LEMMA SwappedParent ==
    ASSUME NEW S, NEW from \in Seq(S), NEW to \in Seq(S), NEW k \in Seq(S), Beneath(from, k), k # from,
           NEW x, x = Swapped(from, to, k)
    PROVE  /\ k # <<>> /\ x # <<>> /\ leaf_of(x) = leaf_of(k) /\ Beneath(from, parent_prefix(k))
           /\ parent_prefix(x) = Swapped(from, to, parent_prefix(k))
<1>0. /\ Len(from) \in Nat /\ Len(k) \in Nat /\ Len(to) \in Nat /\ Len(from) <= Len(k)
      /\ \A i \in 1 .. Len(from) : k[i] = from[i]
  BY BeneathIff, LenProperties
<1>1. /\ x \in Seq(S) /\ Len(x) = Len(to) + Len(k) - Len(from)
      /\ \A i \in 1 .. Len(to) : x[i] = to[i]
      /\ \A i \in Len(to) + 1 .. Len(x) : x[i] = k[i - Len(to) + Len(from)]
  <2>1. x \in Seq(S) /\ Spliced(from, to, k, x) BY SwappedKey
  <2> QED BY <2>1 DEF Spliced
<1>2. Len(from) < Len(k)
  <2> SUFFICES ASSUME Len(from) = Len(k) PROVE FALSE BY <1>0
  <2> QED BY <1>0, SeqEqual
<1>3. k # <<>> /\ x # <<>>
  <2>1. Len(k) # 0 /\ Len(x) # 0 BY <1>0, <1>1, <1>2
  <2> QED BY <2>1
<1> DEFINE p == parent_prefix(k)
<1>4. p \in Seq(S) /\ Len(p) = Len(k) - 1 /\ \A i \in 1 .. Len(k) - 1 : p[i] = k[i]
  BY <1>3, ParentLeaf
<1> HIDE DEF p
<1>5. Beneath(from, p) BY <1>0, <1>2, <1>4, BeneathIff
<1> DEFINE y == Swapped(from, to, p)
           q == parent_prefix(x)
<1>6. /\ y \in Seq(S) /\ Len(y) = Len(to) + Len(p) - Len(from)
      /\ \A i \in 1 .. Len(to) : y[i] = to[i]
      /\ \A i \in Len(to) + 1 .. Len(y) : y[i] = p[i - Len(to) + Len(from)]
  <2>1. y \in Seq(S) /\ Spliced(from, to, p, y) BY <1>4, <1>5, SwappedKey
  <2> HIDE DEF y
  <2> QED BY <2>1 DEF Spliced
<1>7. q \in Seq(S) /\ Len(q) = Len(x) - 1 /\ \A i \in 1 .. Len(x) - 1 : q[i] = x[i]
  BY <1>1, <1>3, ParentLeaf
<1> HIDE DEF y, q
<1>8. Len(q) = Len(y) /\ Len(q) = Len(to) + Len(k) - Len(from) - 1 BY <1>0, <1>1, <1>4, <1>6, <1>7
<1>9. ASSUME NEW i \in 1 .. Len(q) PROVE q[i] = y[i]
  <2>0. q[i] = x[i] BY <1>7, <1>8, <1>1
  <2>1. CASE i <= Len(to) BY <1>0, <1>1, <1>6, <2>0, <2>1
  <2>2. CASE ~(i <= Len(to))
    <3> DEFINE n == i - Len(to) + Len(from)
    <3>1. i \in Len(to) + 1 .. Len(y) /\ i \in Len(to) + 1 .. Len(x) /\ n \in 1 .. Len(k) - 1
      BY <1>0, <1>1, <1>8, <2>2
    <3>2. x[i] = k[n] /\ y[i] = p[n] BY <1>1, <1>6, <3>1
    <3> HIDE DEF n
    <3>3. p[n] = k[n] BY <1>4, <3>1
    <3> QED BY <2>0, <3>2, <3>3
  <2> QED BY <2>1, <2>2
<1>10. q = y BY <1>6, <1>7, <1>8, <1>9, SeqEqual
<1>11. leaf_of(x) = leaf_of(k)
  <2>1. Len(x) \in Len(to) + 1 .. Len(x) /\ Len(x) - Len(to) + Len(from) = Len(k) BY <1>0, <1>1, <1>2
  <2> QED BY <1>1, <2>1 DEF leaf_of
<1> QED BY <1>3, <1>5, <1>10, <1>11 DEF p, q, y

\* The folder itself goes to the new place.
LEMMA SwappedSelf ==
    ASSUME NEW S, NEW from \in Seq(S), NEW to \in Seq(S)
    PROVE  Beneath(from, from) /\ Swapped(from, to, from) = to
<1>1. Len(from) \in Nat /\ Len(to) \in Nat BY LenProperties
<1>2. Beneath(from, from) BY <1>1, BeneathIff
<1> DEFINE x == Swapped(from, to, from)
<1>3. /\ x \in Seq(S) /\ Len(x) = Len(to) + Len(from) - Len(from) /\ \A i \in 1 .. Len(to) : x[i] = to[i]
  <2>1. x \in Seq(S) /\ Spliced(from, to, from, x) BY <1>2, SwappedKey
  <2> HIDE DEF x
  <2> QED BY <2>1 DEF Spliced
<1> HIDE DEF x
<1>4. Len(x) = Len(to) BY <1>1, <1>3
<1>5. x = to BY <1>3, <1>4, SeqEqual
<1> QED BY <1>2, <1>5 DEF x

\* Of two folders neither of which is in the other, nothing is beneath both.
LEMMA ApartStays ==
    ASSUME NEW S, NEW a \in Seq(S), NEW b \in Seq(S), NEW k \in Seq(S),
           ~Beneath(a, b), ~Beneath(b, a), Beneath(a, k)
    PROVE  ~Beneath(b, k)
<1> SUFFICES ASSUME Beneath(b, k) PROVE FALSE OBVIOUS
<1>1. Len(a) \in Nat /\ Len(b) \in Nat /\ Len(k) \in Nat BY LenProperties
<1>2. \A i \in 1 .. Len(a) : k[i] = a[i] BY BeneathIff
<1>3. \A i \in 1 .. Len(b) : k[i] = b[i] BY BeneathIff
<1>4. CASE Len(a) <= Len(b)
  <2>1. \A i \in 1 .. Len(a) : b[i] = a[i] BY <1>1, <1>2, <1>3, <1>4
  <2> QED BY <1>4, <2>1, BeneathIff
<1>5. CASE Len(b) <= Len(a)
  <2>1. \A i \in 1 .. Len(b) : a[i] = b[i] BY <1>1, <1>2, <1>3, <1>5
  <2> QED BY <1>5, <2>1, BeneathIff
<1> QED BY <1>1, <1>4, <1>5

-----------------------------------------------------------------------------
(* The directories and the names there may be *)

Forms == {"sha256", "plain"}
Segs == Forms \X (FolderNames \cup FileNames \cup {".rse"})
FileSegs == Forms \X FileNames
Path == Seq(Segs)

LEMMA SegTypes ==
    ASSUME NEW e
    PROVE  /\ \A n \in FolderNames : on_disk_segment(e, n) \in Segs /\ on_disk_segment(e, n)[2] = n
           /\ \A n \in FileNames : on_disk_segment(e, n) \in Segs /\ on_disk_segment(e, n) \in FileSegs
           /\ FileSegs \subseteq Segs /\ MANIFEST_KEY \in Segs /\ MANIFEST_KEY \notin FileSegs
           /\ \A x \in FileSegs : x[2] \notin FolderNames
BY DirOpsAssumption DEF DirOpsAssumption, Segs, FileSegs, Forms, on_disk_segment, hash_entry, literal, MANIFEST_KEY

LEMMA PathOf ==
    ASSUME NEW e, NEW S, NEW p \in Seq(S), \A n \in S : on_disk_segment(e, n) \in Segs
    PROVE  /\ on_disk_path(e, p) \in Path /\ Len(on_disk_path(e, p)) = Len(p)
           /\ \A i \in 1 .. Len(p) : on_disk_path(e, p)[i] = on_disk_segment(e, p[i])
<1>1. Len(p) \in Nat /\ DOMAIN p = 1 .. Len(p) BY LenProperties
<1>2. \A i \in 1 .. Len(p) : p[i] \in S BY ElementOfSeq
<1>3. on_disk_path(e, p) = [i \in 1 .. Len(p) |-> on_disk_segment(e, p[i])] BY <1>1 DEF on_disk_path
<1> QED BY <1>1, <1>2, <1>3 DEF Path

\* The prefix of a path that has n segments.
LEMMA PrefixOf ==
    ASSUME NEW S, NEW s \in Seq(S), NEW n \in 0 .. Len(s)
    PROVE  SubSeq(s, 1, n) \in Seq(S) /\ Len(SubSeq(s, 1, n)) = n /\ \A i \in 1 .. n : SubSeq(s, 1, n)[i] = s[i]
<1>1. Len(s) \in Nat BY LenProperties
<1>2. \A i \in 1 .. Len(s) : s[i] \in S BY ElementOfSeq
<1>3. SubSeq(s, 1, n) = [i \in 1 .. n |-> s[i]] BY <1>1
<1> QED BY <1>1, <1>2, <1>3

LEMMA DirsClosed ==
    ASSUME NEW d \in Dirs
    PROVE  /\ d \in Path
           /\ \A n \in 0 .. Len(d) : SubSeq(d, 1, n) \in Dirs
           /\ \A i \in 1 .. Len(d) : d[i] \in Segs /\ d[i][2] \in FolderNames
<1>1. PICK p \in DirNames : d = on_disk_path(e2ee, p) BY DEF Dirs
<1>2. p \in Seq(FolderNames) /\ \A n \in 0 .. Len(p) : SubSeq(p, 1, n) \in DirNames
  BY DirOpsAssumption DEF DirOpsAssumption
<1>3. \A n \in FolderNames : on_disk_segment(e2ee, n) \in Segs /\ on_disk_segment(e2ee, n)[2] = n BY SegTypes
<1>4. d \in Path /\ Len(d) = Len(p) /\ \A i \in 1 .. Len(p) : d[i] = on_disk_segment(e2ee, p[i])
  BY <1>1, <1>2, <1>3, PathOf
<1>5. \A i \in 1 .. Len(p) : p[i] \in FolderNames BY <1>2, ElementOfSeq
<1>6. ASSUME NEW n \in 0 .. Len(d) PROVE SubSeq(d, 1, n) \in Dirs
  <2> DEFINE q == SubSeq(p, 1, n)
             x == SubSeq(d, 1, n)
             y == on_disk_path(e2ee, q)
  <2>1. q \in DirNames /\ q \in Seq(FolderNames) BY <1>2, <1>4, DirOpsAssumption DEF DirOpsAssumption
  <2>2. Len(q) = n /\ \A i \in 1 .. n : q[i] = p[i] BY <1>2, <1>4, PrefixOf
  <2>3. x \in Path /\ Len(x) = n /\ \A i \in 1 .. n : x[i] = d[i] BY <1>4, PrefixOf DEF Path
  <2>4. n \in Nat /\ n <= Len(p) /\ Len(p) \in Nat BY <1>2, <1>4, LenProperties
  <2> HIDE DEF q, x
  <2>5. y \in Path /\ Len(y) = n /\ \A i \in 1 .. n : y[i] = on_disk_segment(e2ee, q[i])
    BY <1>3, <2>1, <2>2, PathOf
  <2> HIDE DEF y
  <2>6. \A i \in 1 .. n : x[i] = y[i] BY <1>4, <2>2, <2>3, <2>4, <2>5
  <2>7. x = y BY <2>3, <2>5, <2>6, SeqEqual DEF Path
  <2>8. y \in Dirs BY <2>1 DEF Dirs, y
  <2> QED BY <2>7, <2>8 DEF x
<1> QED BY <1>3, <1>4, <1>5, <1>6

LEMMA DirParent ==
    ASSUME NEW d \in Dirs, d # <<>>
    PROVE  parent_prefix(d) \in Dirs /\ leaf_of(d) \in Segs /\ leaf_of(d)[2] \in FolderNames /\ leaf_of(d) \notin FileSegs
<1>1. d \in Path BY DirsClosed
<1>2. Len(d) \in Nat \ {0} BY <1>1, ParentLeaf DEF Path
<1>3. Len(d) - 1 \in 0 .. Len(d) /\ Len(d) \in 1 .. Len(d) BY <1>2
<1> QED BY <1>3, DirsClosed, SegTypes DEF parent_prefix, leaf_of

LEMMA ChainOfDir == ASSUME NEW d \in Dirs PROVE Chain(d) \subseteq Dirs
<1>1. d \in Path BY DirsClosed
<1>2. \A n \in 1 .. Len(d) : n \in 0 .. Len(d) BY <1>1, LenProperties DEF Path
<1> QED BY <1>2, DirsClosed DEF Chain

LEMMA RootIsDir == <<>> \in Dirs
<1>1. <<>> \in DirNames BY DirOpsAssumption DEF DirOpsAssumption
<1>2. on_disk_path(e2ee, <<>>) = <<>> BY DEF on_disk_path
<1> QED BY <1>1, <1>2 DEF Dirs

-----------------------------------------------------------------------------
(* What the operations of a backend make of a tree *)

\* A key of an object: a file or a manifest, in a directory there may be.
KeyOK(k) == /\ k \in Path /\ k # <<>> /\ parent_prefix(k) \in Dirs
            /\ leaf_of(k) = MANIFEST_KEY \/ leaf_of(k) \in FileSegs

TreeOK(tr, n) ==
    /\ IsTree(tr) /\ tr.kind \in Kinds
    /\ tr.dirs \subseteq Dirs /\ <<>> \in tr.dirs /\ tr.known \subseteq Dirs
    /\ \A k \in Keys(tr) : KeyOK(k)
    /\ \A k \in FilesIn(tr) : tr.obj[k] \in 1 .. n

LEMMA FourKinds == ASSUME NEW tr, NEW n, TreeOK(tr, n) PROVE tr.kind \in {"s3", "sftp", "smb", "nfs"}
BY DirOpsAssumption DEF DirOpsAssumption, TreeOK

\* More directories, known or not.
LEMMA MoreDirs ==
    ASSUME NEW tr, NEW n, TreeOK(tr, n), NEW more \in SUBSET Dirs,
           NEW new, IsTree(new), new.kind = tr.kind, new.obj = tr.obj, new.dirs = tr.dirs \cup more,
           new.known \subseteq tr.known \cup more
    PROVE  TreeOK(new, n)
BY DEF TreeOK, Keys, FilesIn

\* The same tree, of which a backend knows other directories.
Like(tr, new) == new.kind = tr.kind /\ new.dirs = tr.dirs /\ new.obj = tr.obj /\ new.refused = tr.refused

LEMMA Relabelled ==
    ASSUME NEW tr, NEW n, TreeOK(tr, n), NEW new, IsTree(new), Like(tr, new), new.known \subseteq Dirs
    PROVE  TreeOK(new, n)
BY DEF TreeOK, Like, Keys, FilesIn

LEMMA TreeKnown ==
    ASSUME NEW tr, NEW n, TreeOK(tr, n), NEW known \in SUBSET Dirs, NEW new, new = [tr EXCEPT !.known = known]
    PROVE  TreeOK(new, n) /\ Like(tr, new) /\ new.known = known /\ new.unheard = tr.unheard
<1>1. new = [kind |-> tr.kind, dirs |-> tr.dirs, known |-> known, refused |-> tr.refused, unheard |-> tr.unheard, obj |-> tr.obj]
  BY DEF TreeOK, IsTree
<1>2. IsTree(new) /\ Like(tr, new) /\ new.known = known /\ new.unheard = tr.unheard BY <1>1 DEF IsTree, Like
<1> QED BY <1>2, Relabelled

LEMMA ResolveOK ==
    ASSUME NEW tr, NEW n, TreeOK(tr, n), NEW dirs, NEW new, new = resolve_dir(tr, dirs)
    PROVE  TreeOK(new, n) /\ Like(tr, new) /\ new.unheard = tr.unheard /\ new.known \subseteq tr.known \cup tr.dirs
<1> DEFINE known == tr.known \cup (tr.dirs \cap UNION {Chain(d) : d \in dirs})
<1>1. new = tr \/ new = [tr EXCEPT !.known = known] BY DEF resolve_dir, TreeOK, IsTree
<1>2. known \in SUBSET Dirs /\ known \subseteq tr.known \cup tr.dirs BY DEF TreeOK
<1> HIDE DEF known
<1>3. Like(tr, tr) BY DEF Like
<1> QED BY <1>1, <1>2, <1>3, TreeKnown

\* On every file system, prepare_parents adds a directory and nothing else.
LEMMA PrepareOK ==
    ASSUME NEW tr, NEW n, TreeOK(tr, n), tr.kind # "s3", NEW dir \in Dirs, NEW o \in prepare_parents(tr, dir)
    PROVE  /\ TreeOK(o.tree, n) /\ o.tree.kind = tr.kind /\ o.tree.obj = tr.obj /\ o.tree.refused = tr.refused
           /\ o.tree.unheard = tr.unheard
           /\ \/ ~o.ok /\ o.tree = tr
              \/ /\ o.ok /\ parent_prefix(dir) \in tr.dirs
                 /\ o.tree.dirs = tr.dirs \cup {dir} /\ o.tree.known = tr.known \cup {dir}
<1>1. o \in Made(tr, dir)
  BY FourKinds DEF prepare_parents, sftp_prepare_parents, smb_prepare_parents, nfs_prepare_parents
<1> DEFINE new == [tr EXCEPT !.dirs = tr.dirs \cup {dir}, !.known = tr.known \cup {dir}]
<1>2. \/ o = Outcome(tr, FALSE)
      \/ parent_prefix(dir) \in tr.dirs /\ o = Outcome(new, TRUE)
  BY <1>1 DEF Made, Ok, Err, TreeOK, IsTree
<1>3. new = [kind |-> tr.kind, dirs |-> tr.dirs \cup {dir}, known |-> tr.known \cup {dir}, refused |-> tr.refused,
             unheard |-> tr.unheard, obj |-> tr.obj]
  <2> DEFINE dirs == tr.dirs \cup {dir}
             known == tr.known \cup {dir}
  <2>1. new = [tr EXCEPT !.dirs = dirs, !.known = known] OBVIOUS
  <2> HIDE DEF dirs, known, new
  <2>2. new = [kind |-> tr.kind, dirs |-> dirs, known |-> known, refused |-> tr.refused, unheard |-> tr.unheard, obj |-> tr.obj]
    BY <2>1 DEF TreeOK, IsTree
  <2> QED BY <2>2 DEF dirs, known
<1> HIDE DEF new
<1>4. /\ IsTree(new) /\ new.kind = tr.kind /\ new.obj = tr.obj /\ new.dirs = tr.dirs \cup {dir}
      /\ new.known = tr.known \cup {dir} /\ new.refused = tr.refused /\ new.unheard = tr.unheard
  BY <1>3 DEF IsTree
<1>5. TreeOK(new, n) BY <1>4, MoreDirs
<1>6. (o.tree = tr /\ ~o.ok) \/ (o.tree = new /\ o.ok /\ parent_prefix(dir) \in tr.dirs) BY <1>2 DEF Outcome
<1> QED BY <1>4, <1>5, <1>6

\* A step that changes the objects, and only to keys and contents there may be.
LEMMA NewObjects ==
    ASSUME NEW tr, NEW n, TreeOK(tr, n), NEW obj, NEW new, new = [tr EXCEPT !.obj = obj],
           \A k \in DOMAIN obj : KeyOK(k),
           \A k \in DOMAIN obj : leaf_of(k) # MANIFEST_KEY => obj[k] \in 1 .. n
    PROVE  /\ TreeOK(new, n) /\ new.kind = tr.kind /\ new.dirs = tr.dirs /\ new.known = tr.known /\ new.obj = obj
           /\ new.refused = tr.refused /\ new.unheard = tr.unheard
<1>1. new = [kind |-> tr.kind, dirs |-> tr.dirs, known |-> tr.known, refused |-> tr.refused, unheard |-> tr.unheard, obj |-> obj]
  BY DEF TreeOK, IsTree
<1> QED BY <1>1 DEF TreeOK, IsTree, Keys, FilesIn, is_manifest_key

LEMMA OldObjects ==
    ASSUME NEW tr, NEW n, TreeOK(tr, n), NEW k \in Keys(tr)
    PROVE  KeyOK(k) /\ (leaf_of(k) # MANIFEST_KEY => tr.obj[k] \in 1 .. n)
BY DEF TreeOK, FilesIn, is_manifest_key

LEMMA PutOK ==
    ASSUME NEW tr, NEW n, TreeOK(tr, n), NEW key, KeyOK(key), NEW c \in 1 .. n, NEW o \in put(tr, key, c)
    PROVE  /\ TreeOK(o.tree, n) /\ o.tree.kind = tr.kind
           /\ o.tree = tr \/ o.tree.obj = With(tr.obj, key, c)
           /\ o.ok => o.tree.obj = With(tr.obj, key, c)
<1> DEFINE obj == With(tr.obj, key, c)
<1>1. o = [tree |-> tr, ok |-> FALSE] \/ o = [tree |-> [tr EXCEPT !.obj = obj], ok |-> TRUE]
  BY DEF put, Ok, Err, Outcome, TreeOK, IsTree
<1>2. DOMAIN obj = {key} \cup Keys(tr) /\ \A k \in DOMAIN obj : obj[k] = IF k = key THEN c ELSE tr.obj[k]
  BY DEF With, Keys
<1> HIDE DEF obj
<1>3. \A k \in DOMAIN obj : KeyOK(k) /\ (leaf_of(k) # MANIFEST_KEY => obj[k] \in 1 .. n)
  BY <1>2, OldObjects
<1>4. CASE o = [tree |-> tr, ok |-> FALSE] BY <1>4
<1>5. CASE o = [tree |-> [tr EXCEPT !.obj = obj], ok |-> TRUE]
  <2> DEFINE new == [tr EXCEPT !.obj = obj]
  <2>1. TreeOK(new, n) /\ new.kind = tr.kind /\ new.obj = obj BY <1>3, NewObjects
  <2>2. o.tree = new BY <1>5
  <2> QED BY <2>1, <2>2 DEF obj
<1> QED BY <1>1, <1>4, <1>5

\* Objects are taken away, and directories other than the root.
LEMMA FewerObjects ==
    ASSUME NEW tr, NEW n, TreeOK(tr, n), NEW keys,
           NEW new, IsTree(new), new.kind = tr.kind, new.obj = Without(tr.obj, keys),
           new.dirs \subseteq tr.dirs, <<>> \in new.dirs, new.known \subseteq Dirs
    PROVE  TreeOK(new, n)
<1>2. Keys(new) = Keys(tr) \ keys /\ \A k \in Keys(new) : new.obj[k] = tr.obj[k] BY DEF Without, Keys
<1>3. \A k \in Keys(new) : KeyOK(k) /\ (leaf_of(k) # MANIFEST_KEY => new.obj[k] \in 1 .. n)
  BY <1>2, OldObjects
<1> QED BY <1>3 DEF TreeOK, FilesIn, is_manifest_key

LEMMA S3DeleteOK ==
    ASSUME NEW tr, NEW n, TreeOK(tr, n), tr.kind = "s3", NEW keys, <<>> \notin keys, NEW kept, NEW away, away = keys \ kept,
           NEW o \in s3_delete(tr, keys, kept)
    PROVE  /\ TreeOK(o.tree, n) /\ o.tree.kind = tr.kind /\ o.tree.obj = Without(tr.obj, away) /\ o.ok
           /\ o.tree.dirs = tr.dirs \ away /\ o.tree.refused = tr.refused \cup kept
           /\ o.tree.known = tr.known /\ o.tree.unheard = tr.unheard
<1>0. o.ok /\ o.tree = [tr EXCEPT !.obj = Without(tr.obj, away), !.dirs = tr.dirs \ away, !.refused = tr.refused \cup kept]
  BY DEF s3_delete, Ok, Outcome, TreeOK, IsTree
<1>1. <<>> \notin away OBVIOUS
<1>2. o.tree = [kind |-> tr.kind, dirs |-> tr.dirs \ away, known |-> tr.known, refused |-> tr.refused \cup kept,
                unheard |-> tr.unheard, obj |-> Without(tr.obj, away)]
  BY <1>0 DEF TreeOK, IsTree
<1>3. /\ IsTree(o.tree) /\ o.tree.kind = tr.kind /\ o.tree.obj = Without(tr.obj, away)
      /\ o.tree.dirs = tr.dirs \ away /\ o.tree.known = tr.known /\ o.tree.refused = tr.refused \cup kept
      /\ o.tree.unheard = tr.unheard
  BY <1>2 DEF IsTree
<1>4. <<>> \in o.tree.dirs /\ o.tree.known \subseteq Dirs BY <1>1, <1>3 DEF TreeOK
<1>5. TreeOK(o.tree, n) BY <1>3, <1>4, FewerObjects
<1> QED BY <1>0, <1>3, <1>5

\* The files `keys` have gone from a tree, and nothing else.
Unlinks(tr, new, keys) ==
    /\ new.kind = tr.kind /\ new.obj = Without(tr.obj, keys) /\ new.dirs = tr.dirs
    /\ new.refused = tr.refused /\ new.unheard = tr.unheard

LEMMA FewerFiles ==
    ASSUME NEW tr, NEW n, TreeOK(tr, n), NEW keys, NEW obj, obj = Without(tr.obj, keys), NEW new, new = [tr EXCEPT !.obj = obj]
    PROVE  TreeOK(new, n) /\ Unlinks(tr, new, keys) /\ new.known = tr.known
<1>1. DOMAIN obj = Keys(tr) \ keys /\ \A k \in DOMAIN obj : obj[k] = tr.obj[k] BY DEF Without, Keys
<1>2. \A k \in DOMAIN obj : KeyOK(k) /\ (leaf_of(k) # MANIFEST_KEY => obj[k] \in 1 .. n) BY <1>1, OldObjects
<1>3. /\ TreeOK(new, n) /\ new.kind = tr.kind /\ new.dirs = tr.dirs /\ new.known = tr.known /\ new.obj = obj
      /\ new.refused = tr.refused /\ new.unheard = tr.unheard
  BY <1>2, NewObjects
<1> QED BY <1>3 DEF Unlinks

LEMMA RemoveFileOK ==
    ASSUME NEW tr, NEW n, TreeOK(tr, n), NEW key, NEW o \in remove_file(tr, key)
    PROVE  /\ TreeOK(o.tree, n) /\ o.tree.known = tr.known
           /\ (~o.ok /\ o.tree = tr) \/ Unlinks(tr, o.tree, {key})
<1> DEFINE new == [tr EXCEPT !.obj = Without(@, {key})]
<1>1. o = Outcome(tr, FALSE) \/ o = Outcome(new, TRUE) BY DEF remove_file, Ok, Err
<1> HIDE DEF new
<1>2. (o.tree = tr /\ ~o.ok) \/ o.tree = new BY <1>1 DEF Outcome
<1>3. TreeOK(new, n) /\ Unlinks(tr, new, {key}) /\ new.known = tr.known
  <2>1. new = [tr EXCEPT !.obj = Without(tr.obj, {key})] BY DEF new
  <2> QED BY <2>1, FewerFiles
<1> QED BY <1>2, <1>3

LEMMA SweepOK ==
    ASSUME NEW tr, NEW n, TreeOK(tr, n), tr.kind # "s3", NEW dir, NEW o \in sweep(tr, dir)
    PROVE  /\ TreeOK(o.tree, n) /\ tr.known \subseteq o.tree.known /\ o.tree.known \subseteq tr.known \cup tr.dirs
           /\ o.tree = tr \/ Unlinks(tr, o.tree, {k \in Keys(tr) : Beneath(dir, k)})
           /\ o.ok => dir \notin tr.dirs \/ Unlinks(tr, o.tree, {k \in Keys(tr) : Beneath(dir, k)})
<1> DEFINE keys == {k \in Keys(tr) : Beneath(dir, k)}
           res == resolve_dir(tr, {dir} \cup Subtree(tr, dir))
<1>1. PICK tr0 \in {tr, res} :
         o = Outcome([tr0 EXCEPT !.obj = Without(@, {k \in Keys(tr0) : Beneath(dir, k)})], TRUE)
         \/ (o = Outcome(tr, TRUE) /\ dir \notin tr.dirs) \/ o = Outcome(tr, FALSE)
  BY FourKinds DEF sweep, sftp_sweep, smb_sweep, nfs_sweep, Swept, Ok, Err
<1>2. tr.known \subseteq res.known
  <2>1. CASE tr.kind = "nfs"
    <3> DEFINE known == tr.known \cup (tr.dirs \cap UNION {Chain(d) : d \in {dir} \cup Subtree(tr, dir)})
    <3>1. res = [tr EXCEPT !.known = known] BY <2>1 DEF resolve_dir, TreeOK, IsTree
    <3>2. known \in SUBSET Dirs /\ tr.known \subseteq known BY DEF TreeOK
    <3> HIDE DEF known
    <3> QED BY <3>1, <3>2, TreeKnown
  <2>2. CASE tr.kind # "nfs" BY <2>2 DEF resolve_dir
  <2> QED BY <2>1, <2>2
<1>3. TreeOK(tr0, n) /\ Like(tr, tr0) /\ tr0.unheard = tr.unheard /\ tr.known \subseteq tr0.known
      /\ tr0.known \subseteq tr.known \cup tr.dirs
  <2>1. TreeOK(res, n) /\ Like(tr, res) /\ res.unheard = tr.unheard /\ res.known \subseteq tr.known \cup tr.dirs BY ResolveOK
  <2>2. Like(tr, tr) BY DEF Like
  <2> HIDE DEF res
  <2> QED BY <1>2, <2>1, <2>2
<1>4. {k \in Keys(tr0) : Beneath(dir, k)} = keys BY <1>3 DEF Like, Keys
<1> HIDE DEF keys, res
<1> DEFINE new == [tr0 EXCEPT !.obj = Without(@, keys)]
<1>5. TreeOK(new, n) /\ Unlinks(tr0, new, keys) /\ new.known = tr0.known
  <2>1. new = [tr0 EXCEPT !.obj = Without(tr0.obj, keys)] OBVIOUS
  <2> HIDE DEF new
  <2> QED BY <1>3, <2>1, FewerFiles
<1>6. \/ o = Outcome(new, TRUE) \/ (o = Outcome(tr, TRUE) /\ dir \notin tr.dirs) \/ o = Outcome(tr, FALSE)
  BY <1>1, <1>4
<1> HIDE DEF new
<1>7. o.tree = new \/ (o.tree = tr /\ (o.ok => dir \notin tr.dirs)) BY <1>6 DEF Outcome
<1>8. Unlinks(tr, new, keys) BY <1>3, <1>5 DEF Unlinks, Like
<1> QED BY <1>3, <1>5, <1>7, <1>8 DEF keys

\* A directory goes, and with it what SMB and NFS know of it.
LEMMA RmdirOK ==
    ASSUME NEW tr, NEW n, TreeOK(tr, n), tr.kind # "s3", NEW dir, dir # <<>>, NEW o \in rmdir(tr, dir)
    PROVE  /\ TreeOK(o.tree, n) /\ o.tree.kind = tr.kind /\ o.tree.obj = tr.obj
           /\ o.tree.refused = tr.refused /\ o.tree.unheard = tr.unheard
           /\ \/ ~o.ok /\ o.tree = tr
              \/ /\ o.ok /\ o.tree.dirs = tr.dirs \ {dir} /\ Empty(tr, dir)
                 /\ o.tree.known = tr.known \ {dir} \/ (tr.kind = "sftp" /\ o.tree.known = tr.known)
<1> DEFINE known == IF tr.kind = "sftp" THEN tr.known ELSE tr.known \ {dir}
           new == CASE tr.kind = "sftp" -> sftp_rmdir(tr, dir)
                    [] tr.kind = "smb" -> smb_rmdir(tr, dir)
                    [] tr.kind = "nfs" -> nfs_rmdir(tr, dir)
<1>1. o = Outcome(tr, FALSE) \/ (Empty(tr, dir) /\ o = Outcome(new, TRUE)) BY Zenon DEF rmdir, Ok, Err
<1>2. new = [kind |-> tr.kind, dirs |-> tr.dirs \ {dir}, known |-> known, refused |-> tr.refused,
             unheard |-> tr.unheard, obj |-> tr.obj]
  BY FourKinds DEF sftp_rmdir, smb_rmdir, nfs_rmdir, TreeOK, IsTree
<1> HIDE DEF new
<1>3. known \subseteq Dirs BY DEF TreeOK
<1> HIDE DEF known
<1>4. /\ IsTree(new) /\ new.kind = tr.kind /\ new.obj = tr.obj /\ new.dirs = tr.dirs \ {dir} /\ new.known = known
      /\ new.refused = tr.refused /\ new.unheard = tr.unheard
  BY <1>2 DEF IsTree
<1>5. TreeOK(new, n) BY <1>3, <1>4 DEF TreeOK, Keys, FilesIn
<1>6. (o.tree = tr /\ ~o.ok) \/ (o.tree = new /\ o.ok /\ Empty(tr, dir)) BY <1>1 DEF Outcome
<1> QED BY <1>4, <1>5, <1>6 DEF known

-----------------------------------------------------------------------------
(* What a rename copies *)

\* An entry that a listing shows, and a place a rename or a move may take it to.
EntryOK(i) == /\ i.key \in Path /\ i.key # <<>> /\ parent_prefix(i.key) \in Dirs
              /\ i.is_dir => i.key \in Dirs
              /\ ~i.is_dir => leaf_of(i.key) \in FileSegs
TargetOK(i, to) == /\ to \in Path /\ to # <<>> /\ parent_prefix(to) \in Dirs
                   /\ ~i.is_dir => leaf_of(to) \in FileSegs
                   /\ i.is_dir => Fits(i.key, to)

\* The keys of an entry: of a file, its own.
Within(i, keys) == \A k \in keys : Beneath(i.key, k) /\ (i.is_dir \/ k = i.key)

LEMMA DirKeyIsNoFile == ASSUME NEW i, EntryOK(i), NEW k, KeyOK(k), k = i.key PROVE ~i.is_dir
BY DirParent, SegTypes, DirOpsAssumption
   DEF EntryOK, KeyOK, DirOpsAssumption, FileSegs, MANIFEST_KEY, literal

\* An object's new key is one there may be, and of a manifest if the old one was.
LEMMA SwapKey ==
    ASSUME NEW i, EntryOK(i), NEW to, TargetOK(i, to), NEW k, KeyOK(k), Within(i, {k}),
           NEW x, x = Swapped(i.key, to, k)
    PROVE  KeyOK(x) /\ (leaf_of(x) = MANIFEST_KEY <=> leaf_of(k) = MANIFEST_KEY)
<1>0. /\ i.key \in Path /\ to \in Path /\ k \in Path /\ Beneath(i.key, k) /\ (i.is_dir \/ k = i.key)
  BY DEF EntryOK, TargetOK, KeyOK, Within
<1>1. CASE k = i.key
  <2>1. ~i.is_dir BY <1>1, DirKeyIsNoFile
  <2>2. x = to BY <1>0, <1>1, SwappedSelf DEF Path
  <2> QED BY <1>1, <2>1, <2>2, SegTypes DEF EntryOK, TargetOK, KeyOK
<1>2. CASE k # i.key
  <2>1. x \in Path BY <1>0, SwappedKey DEF Path
  <2>2. /\ x # <<>> /\ leaf_of(x) = leaf_of(k) /\ Beneath(i.key, parent_prefix(k))
        /\ parent_prefix(x) = Swapped(i.key, to, parent_prefix(k))
    BY <1>0, <1>2, SwappedParent DEF Path
  <2>3. parent_prefix(x) \in Dirs BY <1>0, <1>2, <2>2 DEF TargetOK, Fits, KeyOK
  <2> QED BY <2>1, <2>2, <2>3 DEF KeyOK
<1> QED BY <1>1, <1>2

LEMMA SwapDir ==
    ASSUME NEW i, EntryOK(i), NEW to, TargetOK(i, to), NEW d \in Dirs, Within(i, {d})
    PROVE  Swapped(i.key, to, d) \in Dirs
<1>1. CASE i.is_dir BY <1>1 DEF TargetOK, Fits, Within
<1>2. CASE ~i.is_dir
  <2>1. d = i.key /\ d # <<>> /\ leaf_of(d) \in FileSegs BY <1>2 DEF EntryOK, Within
  <2> QED BY <2>1, DirParent
<1> QED BY <1>1, <1>2

\* A folder that is renamed is itself a directory afterwards.
LEMMA TargetIsDir == ASSUME NEW i, EntryOK(i), NEW to, TargetOK(i, to), i.is_dir PROVE to \in Dirs
<1>1. i.key \in Dirs /\ i.key \in Path /\ to \in Path BY DEF EntryOK, TargetOK
<1>2. Beneath(i.key, i.key) /\ Swapped(i.key, to, i.key) = to BY <1>1, SwappedSelf DEF Path
<1> QED BY <1>1, <1>2 DEF TargetOK, Fits

\* tr2 has, besides what tr has, the objects `keys` under `to`.
Doubled(tr, tr2, from, to, keys) ==
    /\ tr2.kind = tr.kind
    /\ \A k \in keys \cap FilesIn(tr) : /\ Swapped(from, to, k) \in FilesIn(tr2)
                                        /\ tr2.obj[Swapped(from, to, k)] = tr.obj[k]

\* It has nothing else that is new.
Added(tr, tr2, to) == \A k \in Keys(tr2) : Beneath(to, k) \/ (k \in Keys(tr) /\ tr2.obj[k] = tr.obj[k])

LEMMA CopiedOK ==
    ASSUME NEW tr, NEW n, TreeOK(tr, n), NEW i, EntryOK(i), NEW to, TargetOK(i, to), NEW keys, Within(i, keys),
           NEW tr2, tr2 = Copied(tr, i.key, to, keys)
    PROVE  TreeOK(tr2, n) /\ Doubled(tr, tr2, i.key, to, keys) /\ Added(tr, tr2, to)
<1> DEFINE new == {Swapped(i.key, to, k) : k \in keys \cap Keys(tr)}
           obj == [k \in new \cup Keys(tr) |-> IF k \in new THEN tr.obj[Swapped(to, i.key, k)] ELSE tr.obj[k]]
           more == {Swapped(i.key, to, d) : d \in keys \cap tr.dirs}
<1>1. tr2 = [tr EXCEPT !.obj = obj, !.dirs = tr.dirs \cup more] BY DEF Copied, TreeOK, IsTree
<1>2. DOMAIN obj = new \cup Keys(tr)
      /\ \A k \in DOMAIN obj : obj[k] = IF k \in new THEN tr.obj[Swapped(to, i.key, k)] ELSE tr.obj[k]
  OBVIOUS
<1> HIDE DEF obj
<1>3. more \subseteq Dirs
  <2> SUFFICES ASSUME NEW d \in keys \cap tr.dirs PROVE Swapped(i.key, to, d) \in Dirs OBVIOUS
  <2> QED BY SwapDir DEF Within, TreeOK
<1> HIDE DEF more
<1>4. tr2 = [kind |-> tr.kind, dirs |-> tr.dirs \cup more, known |-> tr.known, refused |-> tr.refused,
             unheard |-> tr.unheard, obj |-> obj]
  BY <1>1 DEF TreeOK, IsTree
<1>5. IsTree(tr2) /\ tr2.kind = tr.kind /\ tr2.dirs = tr.dirs \cup more /\ tr2.known = tr.known /\ tr2.obj = obj
  BY <1>4 DEF IsTree
<1>6. ASSUME NEW k \in keys \cap Keys(tr), NEW x, x = Swapped(i.key, to, k)
      PROVE  /\ KeyOK(x) /\ (leaf_of(x) = MANIFEST_KEY <=> leaf_of(k) = MANIFEST_KEY) /\ Swapped(to, i.key, x) = k
             /\ Beneath(to, x)
  <2>1. KeyOK(k) /\ Beneath(i.key, k) /\ Within(i, {k}) BY DEF TreeOK, Within
  <2>2. i.key \in Path /\ to \in Path /\ k \in Path BY <2>1 DEF EntryOK, TargetOK, KeyOK
  <2>3. Swapped(to, i.key, x) = k /\ Beneath(to, x) BY <1>6, <2>1, <2>2, SwappedBack DEF Path
  <2> QED BY <1>6, <2>1, <2>3, SwapKey
<1>7. ASSUME NEW x \in new
      PROVE  KeyOK(x) /\ (leaf_of(x) # MANIFEST_KEY => obj[x] \in 1 .. n)
  <2>1. PICK k \in keys \cap Keys(tr) : x = Swapped(i.key, to, k) OBVIOUS
  <2>2. KeyOK(x) /\ (leaf_of(x) = MANIFEST_KEY <=> leaf_of(k) = MANIFEST_KEY) /\ Swapped(to, i.key, x) = k BY <1>6, <2>1
  <2>3. obj[x] = tr.obj[k] BY <1>2, <2>2
  <2>4. leaf_of(k) # MANIFEST_KEY => tr.obj[k] \in 1 .. n BY OldObjects
  <2> QED BY <2>2, <2>3, <2>4
<1>8. \A x \in DOMAIN obj : KeyOK(x) /\ (leaf_of(x) # MANIFEST_KEY => obj[x] \in 1 .. n)
  BY <1>2, <1>7, OldObjects
<1>9. TreeOK(tr2, n) BY <1>3, <1>5, <1>8 DEF TreeOK, Keys, FilesIn, is_manifest_key
<1>10. ASSUME NEW k \in keys \cap FilesIn(tr), NEW x, x = Swapped(i.key, to, k)
       PROVE  x \in FilesIn(tr2) /\ tr2.obj[x] = tr.obj[k]
  <2>1. k \in keys \cap Keys(tr) /\ leaf_of(k) # MANIFEST_KEY BY DEF FilesIn, is_manifest_key
  <2>2. x \in new BY <1>10, <2>1
  <2>3. Swapped(to, i.key, x) = k /\ leaf_of(x) # MANIFEST_KEY BY <1>6, <1>10, <2>1
  <2> QED BY <1>2, <1>5, <2>2, <2>3 DEF FilesIn, Keys, is_manifest_key
<1>11. \A x \in new : Beneath(to, x) BY <1>6
<1>12. Added(tr, tr2, to)
  <2> HIDE DEF new
  <2> QED BY <1>2, <1>5, <1>11 DEF Added, Keys
<1> QED BY <1>5, <1>9, <1>10, <1>12 DEF Doubled

\* A copy adds directories and objects; if it is Ok it has copied every file it was given.
LEMMA CopyOK ==
    ASSUME NEW tr, NEW n, TreeOK(tr, n), NEW i, EntryOK(i), NEW to, TargetOK(i, to), NEW keys, Within(i, keys),
           NEW o \in copy(tr, i.key, to, keys)
    PROVE  /\ TreeOK(o.tree, n) /\ o.tree.kind = tr.kind /\ Added(tr, o.tree, to)
           /\ o.ok => Doubled(tr, o.tree, i.key, to, keys)
<1>0. ASSUME NEW some \in SUBSET keys, o.tree = Copied(tr, i.key, to, some)
      PROVE  TreeOK(o.tree, n) /\ o.tree.kind = tr.kind /\ Added(tr, o.tree, to)
  <2>1. Within(i, some) BY DEF Within
  <2>2. TreeOK(o.tree, n) /\ Doubled(tr, o.tree, i.key, to, some) /\ Added(tr, o.tree, to) BY <1>0, <2>1, CopiedOK
  <2> QED BY <2>2 DEF Doubled
<1>1. CASE tr.kind = "s3"
  <2>1. o \in s3_copy(tr, i.key, to, keys) BY <1>1 DEF copy
  <2>2. CASE keys \subseteq Keys(tr) \cup tr.dirs
    <3> DEFINE all == keys \cup ({i.key} \cap tr.dirs)
    <3>1. o.tree = Copied(tr, i.key, to, all) BY <2>1, <2>2 DEF s3_copy, Ok, Outcome
    <3>2. Beneath(i.key, i.key) BY SwappedSelf DEF EntryOK, Path
    <3>3. Within(i, all) BY <3>2 DEF Within
    <3> HIDE DEF all
    <3>4. TreeOK(o.tree, n) /\ Doubled(tr, o.tree, i.key, to, all) /\ Added(tr, o.tree, to) BY <3>1, <3>3, CopiedOK
    <3> QED BY <3>4 DEF Doubled, all
  <2>3. CASE ~(keys \subseteq Keys(tr) \cup tr.dirs)
    <3>1. PICK some \in SUBSET (keys \cap (Keys(tr) \cup tr.dirs)) : o = Outcome(Copied(tr, i.key, to, some), FALSE)
      BY <2>1, <2>3, Zenon DEF s3_copy
    <3>2. o.tree = Copied(tr, i.key, to, some) /\ ~o.ok /\ some \in SUBSET keys BY <3>1 DEF Outcome
    <3> QED BY <1>0, <3>2
  <2> QED BY <2>2, <2>3
<1>2. CASE tr.kind # "s3"
  <2> DEFINE there == keys \cap Keys(tr)
             chain == UNION {Chain(parent_prefix(Swapped(i.key, to, k))) : k \in there}
             stale == (chain \cap tr.known) \ tr.dirs
  <2>1. o \in fs_copy(tr, i.key, to, keys) BY <1>2 DEF copy
  <2>2. CASE stale = {}
    <3> DEFINE tr1 == Made1(tr, chain)
    <3>1. o.tree = Copied(tr1, i.key, to, there) BY <2>1, <2>2 DEF fs_copy, Ok, Outcome
    <3>2. chain \subseteq Dirs
      <4> SUFFICES ASSUME NEW k \in there PROVE Chain(parent_prefix(Swapped(i.key, to, k))) \subseteq Dirs OBVIOUS
      <4>1. KeyOK(k) /\ Within(i, {k}) BY DEF TreeOK, Within
      <4>2. KeyOK(Swapped(i.key, to, k)) BY <4>1, SwapKey
      <4> QED BY <4>2, ChainOfDir DEF KeyOK
    <3> HIDE DEF chain
    <3>3. tr1 = [kind |-> tr.kind, dirs |-> tr.dirs \cup chain, known |-> tr.known \cup chain, refused |-> tr.refused,
                 unheard |-> tr.unheard, obj |-> tr.obj]
      <4>1. tr1 = [tr EXCEPT !.dirs = tr.dirs \cup chain, !.known = tr.known \cup chain] BY DEF Made1, TreeOK, IsTree
      <4> HIDE DEF tr1
      <4> QED BY <4>1 DEF TreeOK, IsTree
    <3> HIDE DEF tr1
    <3>4. /\ IsTree(tr1) /\ tr1.kind = tr.kind /\ tr1.obj = tr.obj /\ tr1.dirs = tr.dirs \cup chain
          /\ tr1.known \subseteq tr.known \cup chain
      BY <3>3 DEF IsTree
    <3>5. TreeOK(tr1, n) BY <3>2, <3>4, MoreDirs
    <3>6. Within(i, there) BY DEF Within
    <3>7. TreeOK(o.tree, n) /\ Doubled(tr1, o.tree, i.key, to, there) /\ Added(tr1, o.tree, to)
      BY <3>1, <3>5, <3>6, CopiedOK
    <3>8. FilesIn(tr1) = FilesIn(tr) /\ keys \cap FilesIn(tr) = there \cap FilesIn(tr1) BY <3>4 DEF FilesIn, Keys
    <3>9. Added(tr, o.tree, to) BY <3>4, <3>7 DEF Added, Keys
    <3> QED BY <3>4, <3>7, <3>8, <3>9 DEF Doubled
  <2>3. CASE stale # {}
    <3>1. PICK some \in SUBSET {k \in there : Chain(parent_prefix(Swapped(i.key, to, k))) \subseteq tr.dirs} :
            o = Outcome(Copied(tr, i.key, to, some), FALSE)
      BY <2>1, <2>3, Zenon DEF fs_copy
    <3>2. o.tree = Copied(tr, i.key, to, some) /\ ~o.ok /\ some \in SUBSET keys BY <3>1 DEF Outcome
    <3> QED BY <1>0, <3>2
  <2> QED BY <2>2, <2>3
<1> QED BY <1>1, <1>2

\* A flush writes manifests and touches no file.
SameFiles(tr, new) == FilesIn(new) = FilesIn(tr) /\ \A k \in FilesIn(tr) : new.obj[k] = tr.obj[k]

LEMMA ManifestKey == ASSUME NEW d \in Dirs PROVE KeyOK(manifest_object_key(d)) /\ leaf_of(manifest_object_key(d)) = MANIFEST_KEY
<1>1. d \in Path BY DirsClosed
<1>2. MANIFEST_KEY \in Segs BY SegTypes
<1> QED BY <1>1, <1>2, AppendParent DEF KeyOK, manifest_object_key, Path

LEMMA FlushOK ==
    ASSUME NEW n, TreeOK(tree, n), NEW some \in SUBSET Dirs, NEW new, new = FlushedTree(some)
    PROVE  TreeOK(new, n) /\ new.kind = tree.kind /\ SameFiles(tree, new)
<1> DEFINE keys == {manifest_object_key(d) : d \in some}
           obj == [k \in keys \cup Keys(tree) |-> IF k \in keys THEN buf[parent_prefix(k)].m ELSE tree.obj[k]]
<1>1. new = [tree EXCEPT !.obj = obj] BY DEF FlushedTree
<1>2. \A k \in keys : KeyOK(k) /\ leaf_of(k) = MANIFEST_KEY BY ManifestKey
<1> HIDE DEF keys
<1>3. DOMAIN obj = keys \cup Keys(tree) /\ \A k \in DOMAIN obj : k \notin keys => obj[k] = tree.obj[k] OBVIOUS
<1> HIDE DEF obj
<1>4. \A k \in DOMAIN obj : KeyOK(k) /\ (leaf_of(k) # MANIFEST_KEY => obj[k] \in 1 .. n)
  BY <1>2, <1>3, OldObjects
<1>5. TreeOK(new, n) /\ new.kind = tree.kind /\ new.obj = obj BY <1>1, <1>4, NewObjects
<1> QED BY <1>2, <1>3, <1>5 DEF SameFiles, FilesIn, Keys, is_manifest_key

-----------------------------------------------------------------------------
(* What a listing shows *)

LEMMA AboveKey ==
    ASSUME NEW k, KeyOK(k), NEW m \in 0 .. Len(k) - 1
    PROVE  SubSeq(k, 1, m) \in Dirs
<1> DEFINE p == parent_prefix(k)
<1>1. k \in Path /\ k # <<>> /\ p \in Dirs BY DEF KeyOK
<1>2. p \in Path /\ Len(k) \in Nat \ {0} /\ Len(p) = Len(k) - 1 /\ \A i \in 1 .. Len(k) - 1 : p[i] = k[i]
  BY <1>1, ParentLeaf DEF Path
<1> HIDE DEF p
<1>3. m \in 0 .. Len(p) /\ m \in 0 .. Len(k) /\ m \in Nat BY <1>2
<1>4. SubSeq(p, 1, m) \in Dirs BY <1>1, <1>3, DirsClosed
<1> DEFINE a == SubSeq(p, 1, m)
           b == SubSeq(k, 1, m)
<1>5. a \in Path /\ Len(a) = m /\ \A i \in 1 .. m : a[i] = p[i] BY <1>2, <1>3, PrefixOf DEF Path
<1>6. b \in Path /\ Len(b) = m /\ \A i \in 1 .. m : b[i] = k[i] BY <1>1, <1>3, PrefixOf DEF Path
<1> HIDE DEF a, b
<1>7. \A i \in 1 .. m : i \in 1 .. Len(k) - 1 BY <1>2, <1>3
<1>8. \A i \in 1 .. m : a[i] = b[i] BY <1>2, <1>5, <1>6, <1>7
<1>9. a = b BY <1>5, <1>6, <1>8, SeqEqual DEF Path
<1> QED BY <1>4, <1>9 DEF a, b

LEMMA ShownDirs == ASSUME NEW n, TreeOK(tree, n) PROVE Shown \subseteq Dirs
<1>1. \A k \in Keys(tree) : Chain(parent_prefix(k)) \subseteq Dirs BY ChainOfDir DEF TreeOK, KeyOK
<1>2. tree.dirs \subseteq Dirs BY DEF TreeOK
<1> SUFFICES ASSUME NEW x \in Shown, x # <<>>, x \notin tree.dirs PROVE x \in Dirs BY <1>2, RootIsDir
<1>3. \E k \in Keys(tree) : x \in Chain(parent_prefix(k))
  <2>1. CASE tree.kind = "s3" BY <2>1 DEF Shown
  <2>2. CASE tree.kind # "s3" BY <2>2 DEF Shown
  <2> QED BY <2>1, <2>2
<1> QED BY <1>1, <1>3

Child(dir, k) == Len(k) = Len(dir) + 1 /\ Beneath(dir, k)

LEMMA ListedOK ==
    ASSUME NEW n, TreeOK(tree, n), NEW dir \in Dirs, NEW o \in list(tree, dir)
    PROVE  /\ o.key \in Path /\ o.key # <<>> /\ parent_prefix(o.key) = dir
           /\ o.is_prefix => o.key \in Dirs
           /\ ~o.is_prefix => leaf_of(o.key) \in FileSegs
<1>0. dir \in Path /\ Len(dir) \in Nat BY DirsClosed, LenProperties DEF Path
<1>1. ASSUME NEW k \in Keys(tree), Child(dir, k), ~is_manifest_key(leaf_of(k)), o.key = k, ~o.is_prefix
      PROVE  o.key \in Path /\ o.key # <<>> /\ parent_prefix(o.key) = dir /\ leaf_of(o.key) \in FileSegs
  BY <1>0, <1>1 DEF TreeOK, KeyOK, is_manifest_key, Child, Beneath, parent_prefix
<1>2. ASSUME NEW d \in Dirs, Child(dir, d), o.key = d
      PROVE  o.key \in Path /\ o.key # <<>> /\ parent_prefix(o.key) = dir /\ o.key \in Dirs
  <2>1. d \in Path BY DirsClosed
  <2>2. d # <<>> BY <1>0, <1>2 DEF Child
  <2> QED BY <1>0, <1>2, <2>1, <2>2 DEF Child, Beneath, parent_prefix
<1>3. CASE tree.kind = "s3"
  <2> DEFINE deep == {k \in Keys(tree) \cup tree.dirs : Beneath(dir, k) /\ Len(k) > Len(dir)}
             files == {k \in deep : k \in Keys(tree) /\ Len(k) = Len(dir) + 1 /\ ~is_manifest_key(leaf_of(k))}
             dirs == {SubSeq(k, 1, Len(dir) + 1) : k \in {x \in deep : x \in tree.dirs \/ Len(x) > Len(dir) + 1}}
  <2>1. o \in Raw(tree, files, dirs) BY <1>3 DEF list, s3_list
  <2>2. dirs \subseteq {d \in Dirs : Child(dir, d)}
    <3> SUFFICES ASSUME NEW k \in deep, k \in tree.dirs \/ Len(k) > Len(dir) + 1
                 PROVE  SubSeq(k, 1, Len(dir) + 1) \in Dirs /\ Child(dir, SubSeq(k, 1, Len(dir) + 1))
      OBVIOUS
    <3>1. k \in Path /\ Len(k) > Len(dir)
      BY DirsClosed DEF TreeOK, KeyOK
    <3>2. Len(k) \in Nat BY <3>1, LenProperties DEF Path
    <3> DEFINE m == Len(dir) + 1
    <3>3. m \in 0 .. Len(k) /\ (Len(k) > Len(dir) + 1 => m \in 0 .. Len(k) - 1) BY <1>0, <3>1, <3>2
    <3> HIDE DEF m
    <3>4. Child(dir, SubSeq(k, 1, m))
      <4> DEFINE x == SubSeq(k, 1, m)
      <4>1. x \in Seq(Segs) /\ Len(x) = m /\ \A i \in 1 .. m : x[i] = k[i] BY <3>1, <3>3, PrefixOf DEF Path
      <4> HIDE DEF x
      <4>2. k \in Seq(Segs) /\ dir \in Seq(Segs) /\ Beneath(dir, k) BY <1>0, <3>1 DEF Path
      <4>3. \A i \in 1 .. Len(dir) : i \in 1 .. m /\ x[i] = dir[i] BY <1>0, <4>1, <4>2, BeneathIff DEF m
      <4>4. Len(dir) <= Len(x) BY <1>0, <4>1 DEF m
      <4>5. Beneath(dir, x) BY <4>1, <4>2, <4>3, <4>4, BeneathIff
      <4> QED BY <4>1, <4>5 DEF Child, m, x
    <3>5. CASE k \in tree.dirs
      <4>1. k \in Dirs BY <3>5 DEF TreeOK
      <4> QED BY <3>3, <3>4, <4>1, DirsClosed DEF m
    <3>6. CASE k \notin tree.dirs
      <4>1. KeyOK(k) /\ m \in 0 .. Len(k) - 1 BY <3>3, <3>6 DEF TreeOK
      <4>2. SubSeq(k, 1, m) \in Dirs BY <4>1, AboveKey
      <4> QED BY <3>4, <4>2 DEF m
    <3> QED BY <3>5, <3>6
  <2>3. files \subseteq {k \in Keys(tree) : Child(dir, k) /\ ~is_manifest_key(leaf_of(k))} BY DEF Child
  <2> HIDE DEF files, dirs
  <2>4. CASE \E k \in files : o = [key |-> k, is_prefix |-> FALSE, size |-> tree.obj[k]] BY <1>1, <2>3, <2>4
  <2>5. CASE \E d \in dirs : o = [key |-> d, is_prefix |-> TRUE, size |-> 0] BY <1>2, <2>2, <2>5
  <2> QED BY <2>1, <2>4, <2>5 DEF Raw
<1>4. CASE tree.kind # "s3"
  <2> DEFINE child == {k \in Keys(tree) \cup tree.dirs : Len(k) = Len(dir) + 1 /\ Beneath(dir, k)}
             files == {k \in child : k \in Keys(tree) /\ ~is_manifest_key(leaf_of(k))}
             dirs == child \cap tree.dirs
  <2>1. o \in Raw(tree, files, dirs) BY <1>4, FourKinds DEF list, sftp_list, smb_list, nfs_list, Children
  <2>2. dirs \subseteq {d \in Dirs : Child(dir, d)} BY DEF TreeOK, Child
  <2>3. files \subseteq {k \in Keys(tree) : Child(dir, k) /\ ~is_manifest_key(leaf_of(k))} BY DEF Child
  <2> HIDE DEF files, dirs
  <2>4. CASE \E k \in files : o = [key |-> k, is_prefix |-> FALSE, size |-> tree.obj[k]] BY <1>1, <2>3, <2>4
  <2>5. CASE \E d \in dirs : o = [key |-> d, is_prefix |-> TRUE, size |-> 0] BY <1>2, <2>2, <2>5
  <2> QED BY <2>1, <2>4, <2>5 DEF Raw
<1> QED BY <1>3, <1>4

LEMMA EntriesOK ==
    ASSUME NEW n, TreeOK(tree, n), NEW dir \in Dirs, NEW i \in Entries(dir)
    PROVE  EntryOK(i) /\ parent_prefix(i.key) = dir
<1>1. PICK o \in list(tree, dir) : i.key = o.key /\ i.is_dir = o.is_prefix
  <2>1. CASE e2ee BY <2>1 DEF Entries, build_listing
  <2>2. CASE ~e2ee BY <2>2 DEF Entries, raw_to_entry
  <2> QED BY <2>1, <2>2
<1> QED BY <1>1, ListedOK DEF EntryOK

-----------------------------------------------------------------------------
(* The tasks *)

Pcs == {"idle", "start", "remove", "rmdir", "list", "copy", "take", "insert", "put", "edit", "flush", "failed"}
Cmds == {"none", "create", "delete", "move", "rename", "size", "upload"}

\* Where a task of each command may be.
PcOK(j, kind) ==
    /\ j.pc \in Pcs /\ j.cmd \in Cmds
    /\ j.pc \in {"list", "copy"} => j.cmd \in {"move", "rename"}
    /\ j.pc \in {"take", "insert"} => j.cmd = "move"
    /\ j.pc \in {"remove", "rmdir"} => j.cmd \in {"delete", "move", "rename"}
    /\ j.pc = "put" => j.cmd = "upload"
    /\ j.pc = "edit" => j.cmd \in {"create", "rename", "size", "delete", "upload"}
    /\ j.pc = "rmdir" => kind # "s3"

\* What it was asked for.
ItemsOK(j) ==
    \A i \in j.all \cup j.items :
        /\ EntryOK(i)
        /\ j.cmd = "move" /\ i.is_dir => Fits(i.key, Append(j.dest, leaf_of(i.key))) \/ Beneath(i.key, j.dest)
CommandOK(j) ==
    /\ j.cmd = "create" => j.dest \in Dirs /\ Append(j.dest, Seg(j.name)) \in Dirs
    /\ j.cmd = "move" => j.dest \in Dirs
    /\ j.cmd \in {"rename", "size"} => EntryOK(j.item)
    /\ j.cmd = "rename" => TargetOK(j.item, j.to) /\ parent_prefix(j.to) = parent_prefix(j.item.key)

\* What it is doing: the entry that is moved, where to, and the keys that were listed.
UnderWay(j) ==
    /\ j.cmd \in {"move", "rename"} /\ j.pc \in {"list", "copy", "remove", "rmdir", "take", "insert"} =>
          EntryOK(j.item) /\ TargetOK(j.item, j.to) /\ j.to # j.item.key
    /\ j.cmd = "move" /\ j.pc \in {"list", "copy", "remove", "rmdir", "take", "insert"} =>
          j.to = Append(j.dest, leaf_of(j.item.key)) /\ (j.item.is_dir => ~Beneath(j.item.key, j.dest))
    /\ j.cmd \in {"move", "rename"} /\ j.pc \in {"copy", "remove"} =>
          Within(j.item, j.got) /\ (~j.item.is_dir => j.got = {j.item.key})
    /\ j.cmd = "delete" /\ j.pc \in {"remove", "rmdir"} => <<>> \notin j.got
    /\ j.cmd = "delete" /\ j.pc = "rmdir" => EntryOK(j.item)

UploadOK(j, n) ==
    j.cmd = "upload" =>
        /\ j.rel \in Rels /\ j.dest \in Dirs /\ j.to = j.dest \o on_disk_path(e2ee, j.rel)
        /\ parent_prefix(j.to) \in Dirs
        /\ j.content \in 1 .. n /\ j.at \in 0 .. Len(j.rel)
        /\ j.pc \in {"start", "put", "failed"} => j.at = 0
        /\ j.pc = "edit" => j.at > 0 /\ e2ee

JobOK(j, kind, n) ==
    IsJob(j) /\ PcOK(j, kind) /\ ItemsOK(j) /\ CommandOK(j) /\ UnderWay(j) /\ UploadOK(j, n)

LEMMA IdleJob == ASSUME NEW kind, NEW n, NEW result PROVE JobOK(Answered(result), kind, n)
BY DEF Answered, JobOK, IsJob, PcOK, Pcs, Cmds, ItemsOK, CommandOK, UnderWay, UploadOK

\* A task that goes on to a pc of which nothing else is said.
LEMMA PlainPc ==
    ASSUME NEW j, NEW kind, NEW n, JobOK(j, kind, n), NEW p \in {"start", "failed", "flush"},
           j.cmd = "upload" /\ p # "flush" => j.at = 0,
           NEW r, r = [j EXCEPT !.pc = p]
    PROVE  JobOK(r, kind, n)
<1>0. IsJob(j) /\ PcOK(j, kind) /\ ItemsOK(j) /\ CommandOK(j) /\ UploadOK(j, n) BY DEF JobOK
<1>1. /\ IsJob(r) /\ r.pc = p /\ r.cmd = j.cmd /\ r.all = j.all /\ r.items = j.items /\ r.item = j.item
      /\ r.dest = j.dest /\ r.name = j.name /\ r.rel = j.rel /\ r.at = j.at /\ r.content = j.content
      /\ r.to = j.to /\ r.got = j.got
  BY <1>0, JobPc
<1>2. PcOK(r, kind) BY <1>0, <1>1 DEF PcOK, Pcs
<1>3. ItemsOK(r) BY <1>0, <1>1 DEF ItemsOK
<1>4. CommandOK(r) BY <1>0, <1>1 DEF CommandOK
<1>5. UnderWay(r) BY <1>1 DEF UnderWay
<1>6. UploadOK(r, n) BY <1>0, <1>1 DEF UploadOK
<1> QED BY <1>1, <1>2, <1>3, <1>4, <1>5, <1>6 DEF JobOK

\* A task that goes on with the same entry.
LEMMA NextPc ==
    ASSUME NEW j, NEW kind, NEW n, JobOK(j, kind, n), NEW p,
           NEW r, r = [j EXCEPT !.pc = p], PcOK(r, kind), UnderWay(r), UploadOK(r, n)
    PROVE  JobOK(r, kind, n)
<1>0. IsJob(j) /\ ItemsOK(j) /\ CommandOK(j) BY DEF JobOK
<1>1. /\ IsJob(r) /\ r.cmd = j.cmd /\ r.all = j.all /\ r.items = j.items /\ r.item = j.item
      /\ r.dest = j.dest /\ r.name = j.name /\ r.to = j.to
  BY <1>0, JobPc
<1>3. ItemsOK(r) BY <1>0, <1>1 DEF ItemsOK
<1>4. CommandOK(r) BY <1>0, <1>1 DEF CommandOK
<1> QED BY <1>1, <1>3, <1>4 DEF JobOK

LEMMA MoreContents ==
    ASSUME NEW j, NEW kind, NEW n \in Nat, NEW m \in Nat, n <= m, JobOK(j, kind, n)
    PROVE  JobOK(j, kind, m)
<1>1. CASE j.cmd # "upload" BY <1>1, Zenon DEF JobOK, UploadOK
<1>2. CASE j.cmd = "upload"
  <2>1. j.content \in 1 .. n BY <1>2 DEF JobOK, UploadOK
  <2>2. j.content \in 1 .. m BY <2>1
  <2>3. UploadOK(j, m) BY <2>2, Zenon DEF JobOK, UploadOK
  <2> QED BY <2>3, Zenon DEF JobOK
<1> QED BY <1>1, <1>2

\* A task with the same command, and the same or fewer entries to go.
LEMMA SameCommand ==
    ASSUME NEW j, NEW kind, NEW n, JobOK(j, kind, n),
           NEW r, IsJob(r), r.cmd = j.cmd, r.all = j.all, r.items \subseteq j.all \cup j.items, r.dest = j.dest,
           r.name = j.name, j.cmd \in {"rename", "size"} => r.item = j.item /\ r.to = j.to,
           PcOK(r, kind), UnderWay(r), UploadOK(r, n)
    PROVE  JobOK(r, kind, n)
<1>1. ItemsOK(r) BY DEF JobOK, ItemsOK
<1>2. CommandOK(r) BY DEF JobOK, CommandOK
<1> QED BY <1>1, <1>2 DEF JobOK

-----------------------------------------------------------------------------
(* The invariant *)

IsFun == job = [t \in Tasks |-> job[t]]

\* What a call holds: the directories it is about to remove or to note.
IsCall(c) == c = [way |-> c.way, left |-> c.left, add |-> c.add, drop |-> c.drop]
CallOK(c) == /\ IsCall(c) /\ c.way \in Nat
             /\ c.left \subseteq Dirs \ {<<>>} /\ c.add \subseteq Dirs
CallsOK(calls) == calls = [t \in Tasks |-> calls[t]] /\ \A t \in Tasks : CallOK(calls[t])

DirInv ==
    /\ TreeOK(tree, contents)
    /\ DOMAIN buf \subseteq Dirs
    /\ contents \in Nat /\ IsFun
    /\ \A t \in Tasks : JobOK(job[t], tree.kind, contents)
    /\ CallsOK(call)

\* Of the calls, a step changes none but its own.
OwnCall(t) == call' = call \/ \E c : CallOK(c) /\ call' = [call EXCEPT ![t] = c]

LEMMA OwnCallOK == ASSUME CallsOK(call), NEW t \in Tasks, OwnCall(t) PROVE CallsOK(call')
<1>1. CASE call' = call BY <1>1
<1>2. CASE call' # call
  <2>1. PICK c : CallOK(c) /\ call' = [call EXCEPT ![t] = c] BY <1>2 DEF OwnCall
  <2>2. call' = [u \in Tasks |-> call'[u]] /\ \A u \in Tasks : call'[u] = IF u = t THEN c ELSE call[u]
    BY <2>1 DEF CallsOK
  <2> QED BY <2>1, <2>2 DEF CallsOK
<1> QED BY <1>1, <1>2

LEMMA NoCallOK == CallOK(NoCall)
BY DEF CallOK, IsCall, NoCall

\* What a step has to show.
LEMMA StepOK ==
    ASSUME DirInv, IsFun', \A u \in Tasks : JobOK(job'[u], tree.kind, contents'),
           TreeOK(tree', contents'), tree'.kind = tree.kind, DOMAIN buf' \subseteq Dirs,
           contents' \in Nat, e2ee' = e2ee, CallsOK(call')
    PROVE  DirInv'
<1>3. Dirs' = Dirs BY DEF Dirs
<1>4. TreeOK(tree, contents)'
  BY <1>3 DEF TreeOK, IsTree, Keys, FilesIn, KeyOK, is_manifest_key
<1>5. \A u \in Tasks : JobOK(job[u], tree.kind, contents)'
  <2> SUFFICES ASSUME NEW u \in Tasks, NEW r, r = job'[u], JobOK(r, tree'.kind, contents') PROVE JobOK(job[u], tree.kind, contents)'
    BY Zenon
  <2>1. PcOK(job[u], tree.kind)' BY DEF JobOK, PcOK
  <2>2. \A i : EntryOK(i)' <=> EntryOK(i) BY <1>3 DEF EntryOK
  <2>3. \A a, b : Fits(a, b)' <=> Fits(a, b) BY <1>3 DEF Fits
  <2>4. \A i, to : TargetOK(i, to)' <=> TargetOK(i, to) BY <1>3, <2>3 DEF TargetOK
  <2>5. ItemsOK(job[u])' BY <2>2, <2>3 DEF JobOK, ItemsOK
  <2>6. CommandOK(job[u])' BY <1>3, <2>2, <2>4 DEF JobOK, CommandOK, Seg
  <2>7. UnderWay(job[u])' BY <2>2, <2>4 DEF JobOK, UnderWay
  <2>8. UploadOK(job[u], contents)' BY <1>3 DEF JobOK, UploadOK
  <2> QED BY <2>1, <2>5, <2>6, <2>7, <2>8 DEF JobOK, IsJob
<1>6. CallsOK(call)' BY <1>3 DEF CallsOK, CallOK, IsCall
<1> QED BY <1>3, <1>4, <1>5, <1>6 DEF DirInv

\* A step of task t leaves the others alone.
LEMMA TaskStepOK ==
    ASSUME DirInv, NEW t \in Tasks, NEW j, job' = [job EXCEPT ![t] = j], JobOK(j, tree.kind, contents'),
           TreeOK(tree', contents'), tree'.kind = tree.kind, DOMAIN buf' \subseteq Dirs,
           contents' \in {contents, contents + 1}, e2ee' = e2ee, OwnCall(t)
    PROVE  DirInv'
<1>0. contents' \in Nat /\ contents <= contents' /\ CallsOK(call') BY OwnCallOK DEF DirInv
<1>1. IsFun' /\ job'[t] = j /\ \A u \in Tasks \ {t} : job'[u] = job[u] BY DEF DirInv, IsFun
<1>2. \A u \in Tasks : JobOK(job'[u], tree.kind, contents')
  <2>1. \A u \in Tasks : JobOK(job[u], tree.kind, contents) /\ contents \in Nat BY DEF DirInv
  <2>2. \A u \in Tasks : JobOK(job[u], tree.kind, contents') BY <1>0, <2>1, MoreContents
  <2> QED BY <1>1, <2>2
<1> QED BY <1>0, <1>1, <1>2, StepOK

LEMMA SameTree ==
    ASSUME DirInv, NEW t \in Tasks, NEW j, job' = [job EXCEPT ![t] = j], JobOK(j, tree.kind, contents),
           tree' = tree, DOMAIN buf' \subseteq Dirs, contents' = contents, e2ee' = e2ee, OwnCall(t)
    PROVE  DirInv'
<1>1. TreeOK(tree', contents') /\ contents \in Nat BY DEF DirInv
<1> QED BY <1>1, TaskStepOK

\* What a task that has failed keeps.
LEMMA FailedJob ==
    ASSUME DirInv, NEW t \in Tasks, job[t].cmd = "upload" => job[t].at = 0
    PROVE  JobOK(Goes(t, "failed"), tree.kind, contents)
BY PlainPc DEF DirInv, Goes

\* What a request may leave of the tree, where the task goes, and what is to be noted.
Heard(t, o, j, c) ==
    /\ Like(o.tree, tree') /\ tree'.known = tree.known /\ tree'.unheard = o.tree.unheard
    /\ job' = [job EXCEPT ![t] = IF o.ok THEN j ELSE Goes(t, "failed")]
    /\ call' = [call EXCEPT ![t] = [c EXCEPT !.add = o.tree.known \ tree.known, !.drop = tree.known \ o.tree.known]]
Unanswered(t, o) ==
    /\ \/ tree' = tree
       \/ /\ Like(o.tree, tree') /\ tree'.known = tree.known
          /\ tree'.unheard = o.tree.unheard \cup (tree.dirs \ o.tree.dirs)
    /\ job' = [job EXCEPT ![t] = Goes(t, "failed")] /\ call' = call

LEMMA AsksEnds ==
    ASSUME NEW n, TreeOK(tree, n), NEW t, NEW outcomes, NEW j, NEW c, Asks(t, outcomes, j, c),
           \A o \in outcomes : TreeOK(o.tree, n) /\ o.tree.kind = tree.kind
    PROVE  \E o \in outcomes : TreeOK(tree', n) /\ (Heard(t, o, j, c) \/ Unanswered(t, o))
<1>1. PICK o \in outcomes :
         \/ /\ tree' = Unnoted(o.tree) /\ Becomes(t, IF o.ok THEN j ELSE Goes(t, "failed"))
            /\ call' = [call EXCEPT ![t] = [c EXCEPT !.add = o.tree.known \ tree.known, !.drop = tree.known \ o.tree.known]]
         \/ /\ tree' \in {tree, [Unnoted(o.tree) EXCEPT !.unheard = @ \cup (tree.dirs \ o.tree.dirs)]}
            /\ Becomes(t, Goes(t, "failed")) /\ call' = call
  BY Zenon DEF Asks
<1> DEFINE tr == o.tree
           new == Unnoted(tr)
           more == new.unheard \cup (tree.dirs \ tr.dirs)
           lost == [new EXCEPT !.unheard = more]
<1>2. TreeOK(tr, n) OBVIOUS
<1>3. TreeOK(new, n) /\ Like(tr, new) /\ new.known = tree.known /\ new.unheard = tr.unheard
  <2>1. tree.known \in SUBSET Dirs BY DEF TreeOK
  <2> HIDE DEF tr
  <2> QED BY <1>2, <2>1, TreeKnown DEF Unnoted
<1>4. TreeOK(lost, n) /\ Like(tr, lost) /\ lost.known = tree.known /\ lost.unheard = tr.unheard \cup (tree.dirs \ tr.dirs)
  <2>1. more = tr.unheard \cup (tree.dirs \ tr.dirs) BY <1>3
  <2> HIDE DEF new, more, tr
  <2>2. lost = [kind |-> new.kind, dirs |-> new.dirs, known |-> new.known, refused |-> new.refused,
                unheard |-> more, obj |-> new.obj]
    BY <1>3 DEF TreeOK, IsTree
  <2> HIDE DEF lost
  <2>3. IsTree(lost) /\ Like(new, lost) /\ lost.known = new.known /\ lost.unheard = more BY <2>2 DEF IsTree, Like
  <2>4. TreeOK(lost, n) BY <1>3, <2>3, Relabelled DEF TreeOK
  <2> QED BY <1>3, <2>1, <2>3, <2>4 DEF Like
<1>5. CASE /\ tree' = new /\ Becomes(t, IF o.ok THEN j ELSE Goes(t, "failed"))
           /\ call' = [call EXCEPT ![t] = [c EXCEPT !.add = o.tree.known \ tree.known, !.drop = tree.known \ o.tree.known]]
  <2>1. Heard(t, o, j, c)
    <3> HIDE DEF new
    <3> QED BY <1>3, <1>5, Zenon DEF Heard, Becomes, tr
  <2> QED BY <1>3, <1>5, <2>1
<1>6. CASE tree' \in {tree, lost} /\ Becomes(t, Goes(t, "failed")) /\ call' = call
  <2>1. Unanswered(t, o)
    <3> HIDE DEF lost
    <3> QED BY <1>4, <1>6 DEF Unanswered, Becomes, tr
  <2> HIDE DEF lost
  <2> QED BY <1>4, <1>6, <2>1
<1> QED BY <1>1, <1>5, <1>6

LEMMA AsksOK ==
    ASSUME DirInv, NEW t \in Tasks, NEW outcomes, NEW j, NEW c, Asks(t, outcomes, j, c),
           \A o \in outcomes : TreeOK(o.tree, contents) /\ o.tree.kind = tree.kind,
           JobOK(j, tree.kind, contents), job[t].cmd = "upload" => job[t].at = 0, CallOK(c),
           DOMAIN buf' \subseteq Dirs, contents' = contents, e2ee' = e2ee
    PROVE  DirInv'
<1>0. TreeOK(tree, contents) BY DEF DirInv
<1>1. PICK o \in outcomes : TreeOK(tree', contents) /\ (Heard(t, o, j, c) \/ Unanswered(t, o)) BY <1>0, AsksEnds
<1>2. TreeOK(tree', contents') /\ tree'.kind = tree.kind BY <1>1 DEF DirInv, Heard, Unanswered, Like
<1>3. JobOK(Goes(t, "failed"), tree.kind, contents) BY FailedJob
<1>4. PICK r \in {j, Goes(t, "failed")} : job' = [job EXCEPT ![t] = r] BY <1>1, Zenon DEF Heard, Unanswered
<1>5. JobOK(r, tree.kind, contents') BY <1>3
<1>6. OwnCall(t)
  <2>1. CASE Unanswered(t, o) BY <2>1 DEF Unanswered, OwnCall
  <2>2. CASE Heard(t, o, j, c)
    <3> DEFINE add == o.tree.known \ tree.known
               drop == tree.known \ o.tree.known
               x == [c EXCEPT !.add = add, !.drop = drop]
    <3>1. add \subseteq Dirs BY DEF TreeOK
    <3>2. call' = [call EXCEPT ![t] = x] BY <2>2 DEF Heard
    <3> HIDE DEF add, drop
    <3>5. IsCall(c) /\ x = [c EXCEPT !.add = add, !.drop = drop] BY DEF CallOK
    <3> HIDE DEF x
    <3>3. x = [way |-> c.way, left |-> c.left, add |-> add, drop |-> drop] BY <3>5 DEF IsCall
    <3>4. CallOK(x) BY <3>1, <3>3 DEF CallOK, IsCall
    <3> QED BY <3>2, <3>4 DEF OwnCall
  <2> QED BY <1>1, <2>1, <2>2
<1> QED BY <1>2, <1>4, <1>5, <1>6, TaskStepOK

LEMMA RequestOK ==
    ASSUME DirInv, NEW t \in Tasks, NEW outcomes, NEW j, Request(t, outcomes, j),
           \A o \in outcomes : TreeOK(o.tree, contents) /\ o.tree.kind = tree.kind,
           JobOK(j, tree.kind, contents), job[t].cmd = "upload" => job[t].at = 0,
           DOMAIN buf' \subseteq Dirs, contents' = contents, e2ee' = e2ee
    PROVE  DirInv'
BY NoCallOK, AsksOK DEF Request

\* A request that only looks.
LEMMA AskOK ==
    ASSUME DirInv, NEW t \in Tasks, NEW ok, NEW j, Request(t, {Outcome(tree, ok)}, j),
           JobOK(j, tree.kind, contents), job[t].cmd = "upload" => job[t].at = 0,
           DOMAIN buf' \subseteq Dirs, contents' = contents, e2ee' = e2ee
    PROVE  DirInv'
<1>1. \A o \in {Outcome(tree, ok)} : TreeOK(o.tree, contents) /\ o.tree.kind = tree.kind BY DEF DirInv, Outcome
<1> HIDE DEF Outcome
<1> QED BY <1>1, RequestOK

LEMMA AskEnds ==
    ASSUME NEW n, TreeOK(tree, n), NEW t, NEW ok, NEW j, Request(t, {Outcome(tree, ok)}, j)
    PROVE  /\ Like(tree, tree') /\ tree'.known = tree.known /\ tree'.unheard = tree.unheard
           /\ job' = [job EXCEPT ![t] = Goes(t, "failed")] \/ (ok /\ job' = [job EXCEPT ![t] = j])
           /\ call' = call \/ call' = [call EXCEPT ![t] = NoCall]
<1> DEFINE x == Outcome(tree, ok)
<1>1. x.tree = tree /\ x.ok = ok BY DEF Outcome
<1> HIDE DEF x
<1>2. \A o \in {x} : TreeOK(o.tree, n) /\ o.tree.kind = tree.kind BY <1>1
<1>3. Asks(t, {x}, j, NoCall) BY DEF Request, x
<1>4. PICK o \in {x} : Heard(t, o, j, NoCall) \/ Unanswered(t, o) BY <1>2, <1>3, AsksEnds
<1>5. o = x BY <1>4
<1>6. CASE Heard(t, o, j, NoCall)
  <2>1. x.tree.known \ tree.known = {} /\ tree.known \ x.tree.known = {} BY <1>1
  <2> DEFINE c == [NoCall EXCEPT !.add = {}, !.drop = {}]
  <2>2. c = NoCall
    <3> DEFINE b == NoCall
    <3>1. IsCall(b) /\ b.add = {} /\ b.drop = {} BY DEF IsCall, NoCall
    <3> HIDE DEF b
    <3>2. [b EXCEPT !.add = {}, !.drop = {}] = b BY <3>1 DEF IsCall
    <3> QED BY <3>2 DEF b
  <2>3. call' = [call EXCEPT ![t] = NoCall] BY <1>5, <1>6, <2>1, <2>2 DEF Heard
  <2>4. job' = [job EXCEPT ![t] = IF ok THEN j ELSE Goes(t, "failed")] BY <1>1, <1>5, <1>6 DEF Heard
  <2> QED BY <1>1, <1>5, <1>6, <2>3, <2>4 DEF Heard, Like
<1>7. CASE Unanswered(t, o)
  <2>1. tree.dirs \ x.tree.dirs = {} BY <1>1
  <2> QED BY <1>1, <1>5, <1>7, <2>1 DEF Unanswered, Like
<1> QED BY <1>4, <1>6, <1>7

\* The end of a loop.
LEMMA LeavesOK ==
    ASSUME DirInv, NEW t \in Tasks, NEW j, Leaves(t, j), JobOK(j, tree.kind, contents),
           DOMAIN buf' \subseteq Dirs, contents' = contents, e2ee' = e2ee
    PROVE  DirInv'
<1>1. tree' = tree /\ job' = [job EXCEPT ![t] = j] /\ OwnCall(t) BY NoCallOK DEF Leaves, Becomes, OwnCall
<1> QED BY <1>1, SameTree

\* One directory more on the way to dir.
LEMMA WayOf ==
    ASSUME NEW t, NEW dir \in Dirs, Prepare(t, dir)
    PROVE  \E n \in 1 .. Len(dir) :
              /\ SubSeq(dir, 1, n) \in Dirs /\ tree.kind # "s3" /\ SubSeq(dir, 1, n) \notin tree.known /\ n > call[t].way
              /\ \A m \in 1 .. Len(dir) : m > call[t].way /\ SubSeq(dir, 1, m) \notin tree.known => n <= m
              /\ Asks(t, prepare_parents(tree, SubSeq(dir, 1, n)), job[t], [NoCall EXCEPT !.way = n])
<1>1. tree.kind # "s3" BY DEF Prepare, Prepared
<1>2. PICK n \in Ahead(t, dir) :
         /\ \A m \in Ahead(t, dir) : n <= m
         /\ Asks(t, prepare_parents(tree, SubSeq(dir, 1, n)), job[t], [NoCall EXCEPT !.way = n])
  BY Zenon DEF Prepare
<1>3. n \in 1 .. Len(dir) /\ n > call[t].way /\ SubSeq(dir, 1, n) \notin tree.known BY DEF Ahead
<1>4. \A m \in 1 .. Len(dir) : m > call[t].way /\ SubSeq(dir, 1, m) \notin tree.known => n <= m BY <1>2 DEF Ahead
<1>5. n \in 0 .. Len(dir)
  <2>1. Len(dir) \in Nat BY DirsClosed, LenProperties DEF Path
  <2> QED BY <1>3, <2>1
<1>6. SubSeq(dir, 1, n) \in Dirs BY <1>5, DirsClosed
<1> QED BY <1>1, <1>2, <1>3, <1>4, <1>6

LEMMA WayCall == ASSUME NEW n \in Nat PROVE [NoCall EXCEPT !.way = n] = [way |-> n, left |-> {}, add |-> {}, drop |-> {}]
                                            /\ CallOK([NoCall EXCEPT !.way = n])
<1>1. [NoCall EXCEPT !.way = n] = [way |-> n, left |-> {}, add |-> {}, drop |-> {}] BY DEF NoCall
<1>2. CallOK([way |-> n, left |-> {}, add |-> {}, drop |-> {}]) BY DEF CallOK, IsCall
<1> QED BY <1>1, <1>2

LEMMA LeftCall == ASSUME NEW dirs PROVE /\ [NoCall EXCEPT !.left = dirs] = [way |-> 0, left |-> dirs, add |-> {}, drop |-> {}]
                                        /\ dirs \subseteq Dirs \ {<<>>} => CallOK([NoCall EXCEPT !.left = dirs])
<1>1. [NoCall EXCEPT !.left = dirs] = [way |-> 0, left |-> dirs, add |-> {}, drop |-> {}] BY DEF NoCall
<1>2. dirs \subseteq Dirs \ {<<>>} => CallOK([way |-> 0, left |-> dirs, add |-> {}, drop |-> {}]) BY DEF CallOK, IsCall
<1> QED BY <1>1, <1>2

LEMMA PrepareStepOK ==
    ASSUME DirInv, NEW t \in Tasks, NEW dir \in Dirs, Prepare(t, dir), job[t].cmd = "upload" => job[t].at = 0,
           DOMAIN buf' \subseteq Dirs, contents' = contents, e2ee' = e2ee
    PROVE  DirInv'
<1>1. PICK n \in 1 .. Len(dir) :
         /\ SubSeq(dir, 1, n) \in Dirs /\ tree.kind # "s3"
         /\ Asks(t, prepare_parents(tree, SubSeq(dir, 1, n)), job[t], [NoCall EXCEPT !.way = n])
  BY WayOf
<1>2. n \in Nat OBVIOUS
<1> DEFINE d == SubSeq(dir, 1, n)
           c == [NoCall EXCEPT !.way = n]
<1>3. TreeOK(tree, contents) /\ JobOK(job[t], tree.kind, contents) BY DEF DirInv
<1>4. \A o \in prepare_parents(tree, d) : TreeOK(o.tree, contents) /\ o.tree.kind = tree.kind BY <1>1, <1>3, PrepareOK
<1>5. CallOK(c) BY <1>2, WayCall
<1>6. Asks(t, prepare_parents(tree, d), job[t], c) BY <1>1
<1> HIDE DEF c, d
<1> QED BY <1>3, <1>4, <1>5, <1>6, AsksOK

\* One directory less of those that are left.
LEMMA RmdirStepOK ==
    ASSUME DirInv, NEW t \in Tasks, Rmdir(t), tree.kind # "s3", job[t].cmd # "upload",
           DOMAIN buf' \subseteq Dirs, contents' = contents, e2ee' = e2ee
    PROVE  DirInv'
<1> DEFINE left == call[t].left
<1>1. PICK d \in left : Asks(t, rmdir(tree, d), job[t], [NoCall EXCEPT !.left = left \ {d}]) BY Zenon DEF Rmdir
<1> DEFINE c == [NoCall EXCEPT !.left = left \ {d}]
<1>2. TreeOK(tree, contents) /\ JobOK(job[t], tree.kind, contents) BY DEF DirInv
<1>3. left \subseteq Dirs \ {<<>>} BY DEF DirInv, CallsOK, CallOK
<1>4. \A o \in rmdir(tree, d) : TreeOK(o.tree, contents) /\ o.tree.kind = tree.kind
  <2>1. d # <<>> BY <1>3
  <2> QED BY <1>2, <2>1, RmdirOK
<1>5. CallOK(c) BY <1>3, LeftCall
<1> HIDE DEF c
<1> QED BY <1>1, <1>2, <1>4, <1>5, AsksOK DEF c

\* What a folder holds is left to remove; the root is beneath no other.
LEMMA FoundOK == ASSUME NEW n, TreeOK(tree, n), NEW i, EntryOK(i) PROVE Found(i) \subseteq Dirs \ {<<>>}
<1>1. i.key # <<>> /\ i.key \in Path BY DEF EntryOK
<1>2. ~Beneath(i.key, <<>>) BY <1>1, LenProperties, EmptySeq DEF Beneath, Path
<1> QED BY <1>2 DEF Found, Subtree, TreeOK

LEMMA NoteOK == ASSUME DirInv, NEW t \in Tasks, Note(t) PROVE DirInv' /\ Like(tree, tree')
<1> DEFINE known == (tree.known \ call[t].drop) \cup call[t].add
           c == [call[t] EXCEPT !.add = {}, !.drop = {}]
<1>1. /\ tree' = [tree EXCEPT !.known = known] /\ job' = job /\ buf' = buf /\ e2ee' = e2ee /\ contents' = contents
      /\ call' = [call EXCEPT ![t].add = {}, ![t].drop = {}]
  BY DEF Note, DirInv, TreeOK, IsTree
<1>2. TreeOK(tree, contents) /\ CallsOK(call) /\ CallOK(call[t]) BY DEF DirInv, CallsOK
<1>3. known \in SUBSET Dirs BY <1>2 DEF TreeOK, CallOK
<1>4. TreeOK(tree', contents) /\ Like(tree, tree')
  <2> HIDE DEF known
  <2> QED BY <1>1, <1>2, <1>3, TreeKnown
<1>5. call' = [call EXCEPT ![t] = c] BY <1>1, <1>2 DEF CallsOK
<1>6. CallOK(c)
  <2> DEFINE o == call[t]
  <2>0. IsCall(o) /\ c = [o EXCEPT !.add = {}, !.drop = {}] BY <1>2 DEF CallOK
  <2> HIDE DEF c, o
  <2>1. c = [way |-> o.way, left |-> o.left, add |-> {}, drop |-> {}] BY <2>0 DEF IsCall
  <2> QED BY <1>2, <2>1 DEF CallOK, IsCall, o
<1> HIDE DEF c
<1>7. CallsOK(call') BY <1>2, <1>5, <1>6, OwnCallOK DEF OwnCall
<1>8. DirInv' BY <1>1, <1>4, <1>7, StepOK DEF DirInv, IsFun, Like
<1> QED BY <1>4, <1>8

-----------------------------------------------------------------------------
(* Every action keeps the invariant *)

LEMMA TheJob == ASSUME DirInv, NEW t \in Tasks
    PROVE  JobOK(job[t], tree.kind, contents) /\ TreeOK(tree, contents) /\ DOMAIN buf \subseteq Dirs
BY DEF DirInv

\* The marker of a folder on S3.
LEMMA MarkerOK ==
    ASSUME NEW n, TreeOK(tree, n), NEW key \in Dirs, NEW o \in Ok([tree EXCEPT !.dirs = @ \cup {key}])
    PROVE  /\ TreeOK(o.tree, n) /\ o.ok /\ o.tree.kind = tree.kind /\ o.tree.obj = tree.obj /\ o.tree.dirs = tree.dirs \cup {key}
           /\ o.tree.known = tree.known /\ o.tree.refused = tree.refused /\ o.tree.unheard = tree.unheard
<1> DEFINE new == [tree EXCEPT !.dirs = @ \cup {key}]
<1>0. new = [tree EXCEPT !.dirs = tree.dirs \cup {key}] OBVIOUS
<1>1. new = [kind |-> tree.kind, dirs |-> tree.dirs \cup {key}, known |-> tree.known, refused |-> tree.refused,
             unheard |-> tree.unheard, obj |-> tree.obj]
  BY <1>0, TreeDirs DEF TreeOK
<1>2. /\ IsTree(new) /\ new.kind = tree.kind /\ new.obj = tree.obj /\ new.dirs = tree.dirs \cup {key} /\ new.known = tree.known
      /\ new.refused = tree.refused /\ new.unheard = tree.unheard
  BY <1>1 DEF IsTree
<1>3. o.tree = new /\ o.ok BY DEF Ok, Outcome
<1> HIDE DEF new
<1>4. TreeOK(new, n) BY <1>2, MoreDirs
<1> QED BY <1>2, <1>3, <1>4

LEMMA CreateMakeOK == ASSUME DirInv, NEW t \in Tasks, CreateMake(t) PROVE DirInv'
<1> DEFINE j == job[t]
           key == Append(j.dest, Seg(j.name))
           next == IF e2ee THEN Goes(t, "edit") ELSE Answered("ok")
<1>1. JobOK(j, tree.kind, contents) /\ TreeOK(tree, contents) /\ DOMAIN buf \subseteq Dirs BY TheJob
<1>2. /\ j.pc = "start" /\ j.cmd = "create" /\ e2ee' = e2ee /\ buf' = buf /\ contents' = contents
      /\ \/ Request(t, Ok([tree EXCEPT !.dirs = @ \cup {key}]), next)
         \/ Prepare(t, key) \/ Leaves(t, next)
  BY Zenon DEF CreateMake
<1>3. key \in Dirs BY <1>1, <1>2 DEF JobOK, CommandOK
<1> HIDE DEF key
<1>5. JobOK(next, tree.kind, contents)
  <2>1. CASE e2ee
    <3> DEFINE r == Goes(t, "edit")
    <3>0. r = [j EXCEPT !.pc = "edit"] BY DEF Goes
    <3>1. r.pc = "edit" /\ r.cmd = j.cmd BY <1>1, <3>0, JobPc DEF JobOK
    <3> HIDE DEF r
    <3>2. PcOK(r, tree.kind) /\ UnderWay(r) /\ UploadOK(r, contents)
      BY <1>2, <3>1 DEF PcOK, Pcs, Cmds, UnderWay, UploadOK
    <3>3. JobOK(r, tree.kind, contents) BY <1>1, <3>0, <3>2, NextPc
    <3> QED BY <2>1, <3>3 DEF r
  <2>2. CASE ~e2ee BY <2>2, IdleJob
  <2> QED BY <2>1, <2>2
<1>6. CASE Request(t, Ok([tree EXCEPT !.dirs = @ \cup {key}]), next)
  <2> DEFINE outcomes == Ok([tree EXCEPT !.dirs = @ \cup {key}])
  <2>1. \A o \in outcomes : TreeOK(o.tree, contents) /\ o.tree.kind = tree.kind BY <1>1, <1>3, MarkerOK
  <2> HIDE DEF next, j, outcomes
  <2> QED BY <1>1, <1>2, <1>5, <1>6, <2>1, RequestOK DEF j, outcomes
<1> HIDE DEF next
<1>7. CASE Prepare(t, key) BY <1>1, <1>2, <1>3, <1>7, PrepareStepOK
<1>8. CASE Leaves(t, next) BY <1>1, <1>2, <1>5, <1>8, LeavesOK
<1> QED BY <1>2, <1>6, <1>7, <1>8

LEMMA DeleteListOK == ASSUME DirInv, NEW t \in Tasks, DeleteList(t) PROVE DirInv'
<1> DEFINE j == job[t]
           dirs == {i.key : i \in {x \in j.items : x.is_dir}}
           got == (UNION {list_recursive(tree, d) : d \in dirs}) \cup {i.key : i \in j.items}
           next == [Goes(t, "remove") EXCEPT !.got = got]
<1>1. JobOK(j, tree.kind, contents) /\ TreeOK(tree, contents) /\ DOMAIN buf \subseteq Dirs BY TheJob
<1>2. j.pc = "start" /\ j.cmd = "delete" /\ Request(t, {Outcome(tree, \A d \in dirs : Listable(tree, d))}, next)
      /\ e2ee' = e2ee /\ buf' = buf /\ contents' = contents
  BY DEF DeleteList
<1>3. \A i \in j.items : EntryOK(i) BY <1>1 DEF JobOK, ItemsOK
<1>4. <<>> \notin got
  <2>1. <<>> \notin {i.key : i \in j.items} BY <1>3 DEF EntryOK
  <2>2. ASSUME NEW d \in dirs PROVE <<>> \notin list_recursive(tree, d)
    <3>1. d # <<>> /\ d \in Path BY <1>3 DEF EntryOK
    <3>2. ~Beneath(d, <<>>) BY <3>1, LenProperties, EmptySeq DEF Beneath, Path
    <3> QED BY <3>2 DEF list_recursive
  <2> QED BY <2>1, <2>2
<1>5. JobOK(next, tree.kind, contents)
  <2> HIDE DEF got
  <2>1. IsJob(j) BY <1>1 DEF JobOK
  <2>2. /\ IsJob(next) /\ next.pc = "remove" /\ next.cmd = j.cmd /\ next.all = j.all /\ next.items = j.items
        /\ next.dest = j.dest /\ next.name = j.name /\ next.got = got /\ next.rel = j.rel
    <3>1. IsJob(Goes(t, "remove")) /\ Goes(t, "remove") = [j EXCEPT !.pc = "remove"] BY <2>1, JobPc DEF Goes
    <3> HIDE DEF j
    <3>2. IsJob(next) /\ next.got = got /\ SameBut(next, Goes(t, "remove")) BY <3>1, JobGot
    <3> QED BY <2>1, <3>1, <3>2, JobPc DEF SameBut
  <2> HIDE DEF next, j
  <2>3. PcOK(next, tree.kind) /\ UnderWay(next) /\ UploadOK(next, contents)
    BY <1>1, <1>2, <1>4, <2>2 DEF JobOK, PcOK, Pcs, UnderWay, UploadOK
  <2> QED BY <1>1, <1>2, <2>2, <2>3, SameCommand
<1> HIDE DEF next
<1> QED BY <1>1, <1>2, <1>5, AskOK

LEMMA GoesTo ==
    ASSUME DirInv, NEW t \in Tasks, NEW p, NEW r, r = Goes(t, p)
    PROVE  /\ IsJob(r) /\ r.pc = p /\ r.cmd = job[t].cmd /\ r.all = job[t].all /\ r.items = job[t].items
           /\ r.item = job[t].item /\ r.dest = job[t].dest /\ r.name = job[t].name /\ r.rel = job[t].rel
           /\ r.at = job[t].at /\ r.content = job[t].content /\ r.to = job[t].to /\ r.got = job[t].got
<1>1. IsJob(job[t]) BY DEF DirInv, JobOK
<1> QED BY <1>1, JobPc DEF Goes

LEMMA GoesOK ==
    ASSUME DirInv, NEW t \in Tasks, NEW p, NEW r, r = Goes(t, p), PcOK(r, tree.kind), UnderWay(r), UploadOK(r, contents)
    PROVE  JobOK(r, tree.kind, contents)
<1>1. JobOK(job[t], tree.kind, contents) BY DEF DirInv
<1> QED BY <1>1, NextPc DEF Goes

\* A delete that goes on with other entries.
LEMMA FewerItems ==
    ASSUME DirInv, NEW t \in Tasks, job[t].cmd = "delete", NEW p \in {"remove", "edit", "flush"},
           p = "remove" => job[t].pc \in {"remove", "rmdir"}, NEW its \in SUBSET (job[t].all \cup job[t].items)
    PROVE  JobOK([Goes(t, p) EXCEPT !.items = its], tree.kind, contents)
<1> DEFINE j == job[t]
           g == Goes(t, p)
           r == [g EXCEPT !.items = its]
<1>0. JobOK(j, tree.kind, contents) BY TheJob
<1>1. /\ IsJob(g) /\ g.pc = p /\ g.cmd = j.cmd /\ g.all = j.all /\ g.dest = j.dest /\ g.name = j.name
      /\ g.rel = j.rel /\ g.content = j.content /\ g.got = j.got
  BY GoesTo
<1> HIDE DEF g, j
<1>2. IsJob(r) /\ SameBut(r, g) /\ r.items = its /\ r.got = g.got BY <1>1, JobItems
<1> HIDE DEF r
<1>3. PcOK(r, tree.kind) /\ UnderWay(r) /\ UploadOK(r, contents)
  BY <1>0, <1>1, <1>2 DEF j, SameBut, JobOK, PcOK, Pcs, UnderWay, UploadOK
<1>4. JobOK(r, tree.kind, contents) BY <1>0, <1>1, <1>2, <1>3, SameCommand DEF j, SameBut
<1> QED BY <1>4 DEF r, g

\* An entry of a delete is done with.
LEMMA DeletedOK ==
    ASSUME DirInv, NEW t \in Tasks, job[t].cmd = "delete", job[t].pc \in {"remove", "rmdir"}, NEW i
    PROVE  JobOK(Deleted(t, i), tree.kind, contents)
<1> DEFINE j == job[t]
<1>3. CASE j.items # {i}
  <2>1. j.items \ {i} \in SUBSET (j.all \cup j.items) OBVIOUS
  <2>2. Goes(t, "remove").items = j.items BY GoesTo
  <2>3. JobOK([Goes(t, "remove") EXCEPT !.items = j.items \ {i}], tree.kind, contents) BY <2>1, FewerItems
  <2> QED BY <1>3, <2>2, <2>3 DEF Deleted
<1>4. CASE j.items = {i} /\ e2ee
  <2>1. j.all \in SUBSET (j.all \cup j.items) OBVIOUS
  <2>2. JobOK([Goes(t, "edit") EXCEPT !.items = j.all], tree.kind, contents) BY <2>1, FewerItems
  <2> QED BY <1>4, <2>2 DEF Deleted
<1>5. CASE j.items = {i} /\ ~e2ee BY <1>5, IdleJob DEF Deleted
<1> QED BY <1>3, <1>4, <1>5

\* The walk down an entry, or the end of a file.
LEMMA UnlinkedOK ==
    ASSUME NEW n, TreeOK(tree, n), tree.kind # "s3", NEW i, NEW o \in Unlinked(i)
    PROVE  TreeOK(o.tree, n) /\ o.tree.kind = tree.kind
<1>1. CASE i.is_dir
  <2>1. o \in sweep(tree, i.key) BY <1>1 DEF Unlinked
  <2> QED BY <2>1, SweepOK DEF Unlinks
<1>2. CASE ~i.is_dir
  <2>1. o \in remove_file(tree, i.key) BY <1>2 DEF Unlinked
  <2> QED BY <2>1, RemoveFileOK DEF Unlinks
<1> QED BY <1>1, <1>2

\* A request to S3 to delete keys, some of which it may keep.
S3Gone(t, keys, j, kept, away) ==
    /\ kept \subseteq keys /\ away = keys \ kept
    /\ tree'.obj = Without(tree.obj, away) /\ tree'.dirs = tree.dirs \ away
    /\ tree'.refused = tree.refused \cup kept /\ tree.unheard \subseteq tree'.unheard
    /\ job' = [job EXCEPT ![t] = j] \/ job' = [job EXCEPT ![t] = Goes(t, "failed")]

LEMMA S3DeletesEnd ==
    ASSUME NEW n, TreeOK(tree, n), tree.kind = "s3", NEW t, NEW keys, <<>> \notin keys, NEW j, s3_deletes(t, keys, j)
    PROVE  /\ TreeOK(tree', n) /\ tree'.kind = tree.kind /\ tree'.known = tree.known
           /\ \/ /\ tree' = tree /\ job' = [job EXCEPT ![t] = Goes(t, "failed")]
              \/ \E kept, away : S3Gone(t, keys, j, kept, away)
           /\ call' = call \/ call' = [call EXCEPT ![t] = NoCall]
<1>0. ASSUME NEW kept, NEW away, away = keys \ kept, NEW o \in s3_delete(tree, keys, kept)
      PROVE  /\ TreeOK(o.tree, n) /\ o.tree.kind = tree.kind /\ o.ok
             /\ o.tree.obj = Without(tree.obj, away) /\ o.tree.dirs = tree.dirs \ away
             /\ o.tree.refused = tree.refused \cup kept /\ o.tree.known = tree.known /\ o.tree.unheard = tree.unheard
  BY <1>0, S3DeleteOK
<1>1. CASE Request(t, s3_delete(tree, keys, {}), j)
  <2> DEFINE kept == {}
             away == keys \ kept
             outcomes == s3_delete(tree, keys, kept)
  <2>1. Asks(t, outcomes, j, NoCall) BY <1>1 DEF Request
  <2>5. kept \subseteq keys /\ away = keys \ kept OBVIOUS
  <2> HIDE DEF outcomes, kept, away
  <2>0. \A o \in outcomes : /\ TreeOK(o.tree, n) /\ o.tree.kind = tree.kind /\ o.ok
                            /\ o.tree.obj = Without(tree.obj, away) /\ o.tree.dirs = tree.dirs \ away
                            /\ o.tree.refused = tree.refused \cup kept /\ o.tree.known = tree.known /\ o.tree.unheard = tree.unheard
    BY <1>0, <2>5 DEF outcomes
  <2>2. PICK o \in outcomes : TreeOK(tree', n) /\ (Heard(t, o, j, NoCall) \/ Unanswered(t, o)) BY <2>0, <2>1, AsksEnds
  <2>3. CASE Heard(t, o, j, NoCall)
    <3>1. /\ tree'.kind = tree.kind /\ tree'.known = tree.known /\ tree'.unheard = tree.unheard /\ tree'.refused = tree.refused \cup kept
          /\ tree'.obj = Without(tree.obj, away) /\ tree'.dirs = tree.dirs \ away
      BY <2>0, <2>3 DEF Heard, Like
    <3>2. job' = [job EXCEPT ![t] = j] BY <2>0, <2>3 DEF Heard
    <3>3. call' = [call EXCEPT ![t] = NoCall]
      <4>1. o.tree.known \ tree.known = {} /\ tree.known \ o.tree.known = {} BY <2>0
      <4> DEFINE x == [NoCall EXCEPT !.add = {}, !.drop = {}]
      <4>2. x = [way |-> 0, left |-> {}, add |-> {}, drop |-> {}]
        <5> DEFINE c == NoCall
        <5>1. IsCall(c) /\ c.way = 0 /\ c.left = {} /\ x = [c EXCEPT !.add = {}, !.drop = {}] BY DEF IsCall, NoCall
        <5> HIDE DEF c, x
        <5>2. x = [way |-> c.way, left |-> c.left, add |-> {}, drop |-> {}] BY <5>1 DEF IsCall
        <5> QED BY <5>1, <5>2
      <4> QED BY <2>3, <4>1, <4>2 DEF Heard, NoCall
    <3>4. S3Gone(t, keys, j, kept, away) BY <2>5, <3>1, <3>2 DEF S3Gone
    <3> QED BY <2>2, <3>1, <3>3, <3>4
  <2>4. CASE Unanswered(t, o)
    <3>1. call' = call /\ job' = [job EXCEPT ![t] = Goes(t, "failed")] BY <2>4 DEF Unanswered
    <3>2. CASE tree' = tree BY <2>2, <3>1, <3>2
    <3>3. CASE tree' # tree
      <4>1. /\ tree'.kind = tree.kind /\ tree'.known = tree.known /\ tree.unheard \subseteq tree'.unheard
            /\ tree'.refused = tree.refused \cup kept
            /\ tree'.obj = Without(tree.obj, away) /\ tree'.dirs = tree.dirs \ away
        BY <2>0, <2>4, <3>3 DEF Unanswered, Like
      <4>2. S3Gone(t, keys, j, kept, away) BY <2>5, <3>1, <4>1 DEF S3Gone
      <4> QED BY <2>2, <3>1, <4>1, <4>2
    <3> QED BY <3>2, <3>3
  <2> QED BY <2>2, <2>3, <2>4
<1>2. CASE ~Request(t, s3_delete(tree, keys, {}), j)
  <2>0. PICK kept, away : /\ kept \subseteq keys /\ away = keys \ kept
                          /\ (\E o \in s3_delete(tree, keys, kept) : tree' = o.tree) /\ Becomes(t, j) /\ call' = call
    BY <1>2, Zenon DEF s3_deletes
  <2>1. PICK o \in s3_delete(tree, keys, kept) : tree' = o.tree BY <2>0
  <2>3. kept \subseteq keys /\ away = keys \ kept BY <2>0
  <2> DEFINE outcomes == s3_delete(tree, keys, kept)
  <2>4. o \in outcomes BY <2>1
  <2>6. \A x \in outcomes : /\ TreeOK(x.tree, n) /\ x.tree.kind = tree.kind /\ x.tree.known = tree.known
                            /\ x.tree.unheard = tree.unheard /\ x.tree.refused = tree.refused \cup kept
                            /\ x.tree.obj = Without(tree.obj, away) /\ x.tree.dirs = tree.dirs \ away
    <3> SUFFICES ASSUME NEW x \in outcomes
                 PROVE  /\ TreeOK(x.tree, n) /\ x.tree.kind = tree.kind /\ x.tree.known = tree.known
                        /\ x.tree.unheard = tree.unheard /\ x.tree.refused = tree.refused \cup kept
                        /\ x.tree.obj = Without(tree.obj, away) /\ x.tree.dirs = tree.dirs \ away
      OBVIOUS
    <3>1. away = keys \ kept BY <2>3
    <3> QED BY <3>1, S3DeleteOK
  <2> HIDE DEF outcomes
  <2>2. /\ TreeOK(o.tree, n) /\ o.tree.kind = tree.kind /\ o.tree.known = tree.known /\ o.tree.unheard = tree.unheard
        /\ o.tree.refused = tree.refused \cup kept
        /\ o.tree.obj = Without(tree.obj, away) /\ o.tree.dirs = tree.dirs \ away
    BY <2>4, <2>6
  <2>5. S3Gone(t, keys, j, kept, away) BY <2>0, <2>1, <2>2, <2>3 DEF S3Gone, Becomes
  <2> QED BY <2>0, <2>1, <2>2, <2>5
<1> QED BY <1>1, <1>2

LEMMA S3DeletesOK ==
    ASSUME DirInv, NEW t \in Tasks, tree.kind = "s3", NEW keys, <<>> \notin keys, NEW j, s3_deletes(t, keys, j),
           JobOK(j, tree.kind, contents), job[t].cmd # "upload", DOMAIN buf' \subseteq Dirs, contents' = contents, e2ee' = e2ee
    PROVE  DirInv'
<1>0. TreeOK(tree, contents) BY DEF DirInv
<1>1. /\ TreeOK(tree', contents) /\ tree'.kind = tree.kind /\ (call' = call \/ call' = [call EXCEPT ![t] = NoCall])
      /\ job' = [job EXCEPT ![t] = j] \/ job' = [job EXCEPT ![t] = Goes(t, "failed")]
  BY <1>0, S3DeletesEnd DEF S3Gone
<1>2. OwnCall(t) BY <1>1, NoCallOK DEF OwnCall
<1>3. JobOK(Goes(t, "failed"), tree.kind, contents) BY FailedJob
<1> QED BY <1>1, <1>2, <1>3, TaskStepOK

LEMMA DeleteRemoveOK == ASSUME DirInv, NEW t \in Tasks, DeleteRemove(t) PROVE DirInv'
<1> DEFINE j == job[t]
<1>1. JobOK(j, tree.kind, contents) /\ TreeOK(tree, contents) /\ DOMAIN buf \subseteq Dirs BY TheJob
<1>2. j.pc = "remove" /\ j.cmd = "delete" /\ e2ee' = e2ee /\ buf' = buf /\ contents' = contents
  BY DEF DeleteRemove
<1>3. CASE tree.kind = "s3"
  <2> DEFINE next == IF e2ee THEN Goes(t, "edit") ELSE Answered("ok")
  <2>1. s3_deletes(t, j.got, next) BY <1>3 DEF DeleteRemove
  <2>2. <<>> \notin j.got BY <1>1, <1>2 DEF JobOK, UnderWay
  <2>4. JobOK(Goes(t, "edit"), tree.kind, contents)
    <3> DEFINE r == Goes(t, "edit")
    <3>1. r.pc = "edit" /\ r.cmd = j.cmd BY GoesTo
    <3> HIDE DEF r
    <3>2. PcOK(r, tree.kind) /\ UnderWay(r) /\ UploadOK(r, contents)
      BY <1>2, <3>1 DEF PcOK, Pcs, Cmds, UnderWay, UploadOK
    <3>3. JobOK(r, tree.kind, contents) BY <3>2, GoesOK DEF r
    <3> QED BY <3>3 DEF r
  <2>5. JobOK(next, tree.kind, contents) BY <2>4, IdleJob
  <2> HIDE DEF next
  <2> QED BY <1>1, <1>2, <1>3, <2>1, <2>2, <2>5, S3DeletesOK
<1>4. CASE tree.kind # "s3"
  <2>1. PICK i \in j.items :
            Asks(t, Unlinked(i), IF i.is_dir THEN [Goes(t, "rmdir") EXCEPT !.item = i] ELSE Deleted(t, i),
                 [NoCall EXCEPT !.left = Found(i)])
    BY <1>4 DEF DeleteRemove
  <2> DEFINE r == [Goes(t, "rmdir") EXCEPT !.item = i]
             next == IF i.is_dir THEN r ELSE Deleted(t, i)
  <2>2. \A o \in Unlinked(i) : TreeOK(o.tree, contents) /\ o.tree.kind = tree.kind BY <1>1, <1>4, UnlinkedOK
  <2>3. JobOK(Deleted(t, i), tree.kind, contents) BY <1>2, DeletedOK
  <2>4. JobOK(r, tree.kind, contents)
    <3> DEFINE g == Goes(t, "rmdir")
    <3>1. /\ IsJob(g) /\ g.pc = "rmdir" /\ g.cmd = j.cmd /\ g.all = j.all /\ g.items = j.items /\ g.dest = j.dest
          /\ g.name = j.name /\ g.rel = j.rel /\ g.content = j.content /\ g.got = j.got
      BY GoesTo
    <3> HIDE DEF g, j
    <3>2. IsJob(r) /\ SameBut(r, g) /\ r.items = g.items /\ r.got = g.got /\ r.item = i BY <3>1, JobItem DEF g
    <3>3. EntryOK(i) BY <1>1, <2>1 DEF JobOK, ItemsOK
    <3> HIDE DEF r
    <3>4. PcOK(r, tree.kind) /\ UnderWay(r) /\ UploadOK(r, contents)
      BY <1>1, <1>2, <1>4, <3>1, <3>2, <3>3 DEF SameBut, JobOK, PcOK, Pcs, UnderWay, UploadOK
    <3> QED BY <1>1, <1>2, <3>1, <3>2, <3>4, SameCommand DEF SameBut
  <2>5. JobOK(next, tree.kind, contents) BY <2>3, <2>4
  <2> DEFINE c == [NoCall EXCEPT !.left = Found(i)]
  <2>6. Asks(t, Unlinked(i), next, c) BY <2>1
  <2>7. CallOK(c)
    <3>1. EntryOK(i) BY <1>1, <2>1 DEF JobOK, ItemsOK
    <3> QED BY <1>1, <3>1, FoundOK, LeftCall
  <2> HIDE DEF next, c
  <2> QED BY <1>1, <1>2, <2>2, <2>5, <2>6, <2>7, AsksOK
<1> QED BY <1>3, <1>4

LEMMA DeleteRmdirOK == ASSUME DirInv, NEW t \in Tasks, DeleteRmdir(t) PROVE DirInv'
<1> DEFINE j == job[t]
<1>1. JobOK(j, tree.kind, contents) /\ TreeOK(tree, contents) /\ DOMAIN buf \subseteq Dirs BY TheJob
<1>2. /\ j.pc = "rmdir" /\ j.cmd = "delete" /\ e2ee' = e2ee /\ buf' = buf /\ contents' = contents
      /\ Rmdir(t) \/ Leaves(t, Deleted(t, j.item))
  BY DEF DeleteRmdir
<1>3. tree.kind # "s3" BY <1>1, <1>2 DEF JobOK, PcOK
<1>5. JobOK(Deleted(t, j.item), tree.kind, contents) BY <1>2, DeletedOK
<1> QED BY <1>1, <1>2, <1>3, <1>5, RmdirStepOK, LeavesOK

LEMMA MoveNextOK == ASSUME DirInv, NEW t \in Tasks, MoveNext(t) PROVE DirInv'
<1> DEFINE j == job[t]
<1>1. JobOK(j, tree.kind, contents) /\ TreeOK(tree, contents) /\ DOMAIN buf \subseteq Dirs BY TheJob
<1>2. /\ j.pc = "start" /\ j.cmd = "move" /\ e2ee' = e2ee /\ buf' = buf /\ contents' = contents /\ tree' = tree /\ OwnCall(t)
  BY Zenon DEF MoveNext, OwnCall
<1>3. CASE j.items = {}
  <2> DEFINE next == IF e2ee THEN Goes(t, "flush") ELSE Answered("ok")
  <2>1. job' = [job EXCEPT ![t] = next] BY <1>3 DEF MoveNext, Becomes
  <2>2. JobOK(Goes(t, "flush"), tree.kind, contents) BY <1>1, PlainPc DEF Goes
  <2>3. JobOK(next, tree.kind, contents) BY <2>2, IdleJob
  <2> HIDE DEF next
  <2> QED BY <1>1, <1>2, <2>1, <2>3, SameTree
<1>4. CASE j.items # {}
  <2>1. PICK i \in j.items :
            LET to == Append(job[t].dest, leaf_of(i.key))
                skip == to = i.key \/ (i.is_dir /\ Beneath(i.key, job[t].dest))
            IN Becomes(t, [job[t] EXCEPT !.items = @ \ {i}, !.item = i, !.to = to,
                                         !.pc = IF skip THEN "start" ELSE "list"])
    BY <1>4, Zenon DEF MoveNext
  <2> DEFINE to == Append(j.dest, leaf_of(i.key))
             skip == to = i.key \/ (i.is_dir /\ Beneath(i.key, j.dest))
             p == IF skip THEN "start" ELSE "list"
             r == [j EXCEPT !.items = j.items \ {i}, !.item = i, !.to = to, !.pc = p]
  <2>2. job' = [job EXCEPT ![t] = r] BY <2>1 DEF Becomes
  <2>3. EntryOK(i) /\ (i.is_dir => Fits(i.key, to) \/ Beneath(i.key, j.dest)) /\ j.dest \in Dirs
    BY <1>1, <1>2 DEF JobOK, ItemsOK, CommandOK
  <2>4. p = "list" => TargetOK(i, to) /\ to # i.key /\ (i.is_dir => ~Beneath(i.key, j.dest))
    <3>1. i.key \in Path /\ i.key # <<>> /\ j.dest \in Path BY <2>3, DirsClosed DEF EntryOK
    <3>2. leaf_of(i.key) \in Segs BY <3>1, ParentLeaf DEF Path
    <3>3. parent_prefix(to) = j.dest /\ leaf_of(to) = leaf_of(i.key) /\ to # <<>> /\ to \in Path
      BY <3>1, <3>2, AppendParent DEF Path
    <3> HIDE DEF to
    <3> QED BY <2>3, <3>3 DEF TargetOK, EntryOK
  <2>5. p \in {"start", "list"} OBVIOUS
  <2>6. to = Append(j.dest, leaf_of(i.key)) OBVIOUS
  <2> HIDE DEF to, p
  <2>7. /\ IsJob(r) /\ r.pc = p /\ r.cmd = j.cmd /\ r.all = j.all /\ r.items = j.items \ {i} /\ r.item = i
        /\ r.dest = j.dest /\ r.name = j.name /\ r.to = to
    <3>1. IsJob(j) BY <1>1 DEF JobOK
    <3> DEFINE its == j.items \ {i}
    <3> HIDE DEF j, its
    <3>2. r = [j EXCEPT !.items = its, !.item = i, !.to = to, !.pc = p] BY DEF its
    <3> HIDE DEF r
    <3>3. r = [pc |-> p, cmd |-> j.cmd, all |-> j.all, items |-> its, item |-> i,
               dest |-> j.dest, name |-> j.name, rel |-> j.rel, at |-> j.at, content |-> j.content,
               to |-> to, got |-> j.got, taken |-> j.taken, began |-> j.began, tried |-> j.tried,
               result |-> j.result]
      BY <3>1, <3>2 DEF IsJob
    <3>4. IsJob(r) /\ r.items = its BY <3>3 DEF IsJob
    <3> QED BY <3>3, <3>4 DEF its
  <2> HIDE DEF r
  <2>8. PcOK(r, tree.kind) /\ UploadOK(r, contents) BY <1>2, <2>5, <2>7 DEF PcOK, Pcs, Cmds, UploadOK
  <2>9. UnderWay(r) BY <1>2, <2>3, <2>4, <2>5, <2>6, <2>7 DEF UnderWay
  <2>10. r.items \subseteq j.all \cup j.items BY <2>7
  <2>11. JobOK(r, tree.kind, contents) BY <1>1, <1>2, <2>7, <2>8, <2>9, <2>10, SameCommand
  <2> QED BY <1>1, <1>2, <2>2, <2>11, SameTree
<1> QED BY <1>3, <1>4

\* A manifest that is loaded or edited is that of a directory.
LEMMA BufferOK ==
    ASSUME DOMAIN buf \subseteq Dirs, NEW dir \in Dirs, NEW m
    PROVE  DOMAIN load(dir) \subseteq Dirs /\ DOMAIN edit(dir, m) \subseteq Dirs
BY DEF load, edit, With

LEMMA RenameCheckOK == ASSUME DirInv, NEW t \in Tasks, RenameCheck(t) PROVE DirInv'
<1> DEFINE j == job[t]
           dir == parent_prefix(j.item.key)
           next == IF j.to = j.item.key THEN Answered("ok") ELSE Goes(t, "list")
<1>1. JobOK(j, tree.kind, contents) /\ TreeOK(tree, contents) /\ DOMAIN buf \subseteq Dirs BY TheJob
<1>2. j.pc = "start" /\ j.cmd = "rename" /\ e2ee' = e2ee /\ contents' = contents BY Zenon DEF RenameCheck
<1>3. /\ buf' = load(dir) \/ buf' = buf
      /\ \E ok : Request(t, {Outcome(tree, ok)}, next)
  BY Zenon DEF RenameCheck
<1>4. EntryOK(j.item) /\ TargetOK(j.item, j.to) BY <1>1, <1>2 DEF JobOK, CommandOK
<1>5. DOMAIN buf' \subseteq Dirs BY <1>1, <1>3, <1>4, BufferOK DEF EntryOK
<1>6. JobOK(next, tree.kind, contents)
  <2>1. CASE j.to = j.item.key BY <2>1, IdleJob
  <2>2. CASE j.to # j.item.key
    <3> DEFINE r == Goes(t, "list")
    <3>1. r.pc = "list" /\ r.cmd = j.cmd /\ r.item = j.item /\ r.to = j.to BY GoesTo
    <3> HIDE DEF r
    <3>2. PcOK(r, tree.kind) /\ UnderWay(r) /\ UploadOK(r, contents)
      BY <1>2, <1>4, <2>2, <3>1 DEF PcOK, Pcs, Cmds, UnderWay, UploadOK
    <3>3. JobOK(r, tree.kind, contents) BY <3>2, GoesOK DEF r
    <3> QED BY <2>2, <3>3 DEF r
  <2> QED BY <2>1, <2>2
<1> HIDE DEF next
<1> QED BY <1>2, <1>3, <1>5, <1>6, AskOK

LEMMA RenameListOK == ASSUME DirInv, NEW t \in Tasks, RenameList(t) PROVE DirInv'
<1> DEFINE j == job[t]
           i == j.item
           got == IF i.is_dir THEN list_recursive(tree, i.key) ELSE {i.key}
           next == [Goes(t, "copy") EXCEPT !.began = TRUE, !.got = got]
<1>1. JobOK(j, tree.kind, contents) /\ TreeOK(tree, contents) /\ DOMAIN buf \subseteq Dirs BY TheJob
<1>2. j.pc = "list" /\ j.cmd \in {"move", "rename"} /\ e2ee' = e2ee /\ contents' = contents /\ buf' = buf
  BY Zenon DEF RenameList, Moving
<1>3. IF i.is_dir /\ tree.kind # "s3"
      THEN Prepare(t, j.to) \/ Request(t, {Outcome(tree, i.key \in tree.dirs)}, next)
      ELSE Leaves(t, next)
  BY Zenon DEF RenameList
<1>4. EntryOK(i) /\ TargetOK(i, j.to) /\ j.to # i.key BY <1>1, <1>2 DEF JobOK, UnderWay
<1>5. Within(i, got) /\ (~i.is_dir => got = {i.key})
  <2>1. CASE i.is_dir
    <3>1. \A d \in list_recursive(tree, i.key) : Beneath(i.key, d) BY DEF list_recursive
    <3> QED BY <2>1, <3>1 DEF Within
  <2>2. CASE ~i.is_dir
    <3>1. Beneath(i.key, i.key) BY <1>4, SwappedSelf DEF EntryOK, Path
    <3> QED BY <2>2, <3>1 DEF Within
  <2> QED BY <2>1, <2>2
<1>6. JobOK(next, tree.kind, contents)
  <2> HIDE DEF got
  <2> DEFINE g == Goes(t, "copy")
             g2 == [g EXCEPT !.began = TRUE]
  <2>1. /\ IsJob(g) /\ g.pc = "copy" /\ g.cmd = j.cmd /\ g.all = j.all /\ g.items = j.items /\ g.dest = j.dest
        /\ g.name = j.name /\ g.rel = j.rel /\ g.content = j.content /\ g.item = i /\ g.to = j.to /\ g.at = j.at
    BY GoesTo
  <2> HIDE DEF g, j, i
  <2>2. next = [g EXCEPT !.began = TRUE, !.got = got] BY DEF g
  <2> HIDE DEF next
  <2>3. next = [pc |-> g.pc, cmd |-> g.cmd, all |-> g.all, items |-> g.items, item |-> g.item,
                dest |-> g.dest, name |-> g.name, rel |-> g.rel, at |-> g.at, content |-> g.content,
                to |-> g.to, got |-> got, taken |-> g.taken, began |-> TRUE, tried |-> g.tried,
                result |-> g.result]
    BY <2>1, <2>2 DEF IsJob
  <2>4. IsJob(next) /\ next.got = got /\ next.items = g.items BY <2>3 DEF IsJob
  <2>5. /\ next.pc = "copy" /\ next.cmd = j.cmd /\ next.all = j.all /\ next.dest = j.dest /\ next.items = j.items
        /\ next.name = j.name /\ next.item = i /\ next.to = j.to /\ next.rel = j.rel
    BY <2>1, <2>3
  <2>6. PcOK(next, tree.kind) /\ UploadOK(next, contents) BY <1>2, <2>5 DEF PcOK, Pcs, Cmds, UploadOK
  <2>7. UnderWay(next) BY <1>1, <1>2, <1>4, <1>5, <2>4, <2>5 DEF JobOK, UnderWay, i
  <2> QED BY <1>1, <1>2, <2>4, <2>5, <2>6, <2>7, SameCommand DEF i
<1>7. CASE i.is_dir /\ tree.kind # "s3"
  <2>1. j.to \in Dirs BY <1>4, <1>7, TargetIsDir
  <2>2. j.cmd # "upload" BY <1>2
  <2> HIDE DEF next
  <2> QED BY <1>1, <1>2, <1>3, <1>6, <1>7, <2>1, <2>2, PrepareStepOK, AskOK DEF j
<1>8. CASE ~(i.is_dir /\ tree.kind # "s3")
  <2> HIDE DEF next
  <2> QED BY <1>1, <1>2, <1>3, <1>6, <1>8, LeavesOK
<1> QED BY <1>7, <1>8

\* A copy that breaks off: what it has made is noted all the same.
Broken(t, o) ==
    /\ tree' = Unnoted(o.tree)
    /\ call' = [call EXCEPT ![t].add = o.tree.known \ tree.known]
CopyBreaks(t) ==
    /\ \E some \in SUBSET job[t].got : \E o \in copy(tree, job[t].item.key, job[t].to, some) : Broken(t, o)
    /\ job' = [job EXCEPT ![t] = Goes(t, "failed")]

LEMMA CopyEnds ==
    ASSUME NEW t, RenameCopy(t)
    PROVE  Request(t, copy(tree, job[t].item.key, job[t].to, job[t].got), Goes(t, "remove")) \/ CopyBreaks(t)
BY Zenon DEF RenameCopy, CopyBreaks, Broken, Becomes

LEMMA BrokenOK ==
    ASSUME NEW n, TreeOK(tree, n), CallsOK(call), NEW t \in Tasks, NEW o, TreeOK(o.tree, n), o.tree.kind = tree.kind, Broken(t, o)
    PROVE  /\ TreeOK(tree', n) /\ Like(o.tree, tree') /\ tree'.kind = tree.kind /\ tree'.known = tree.known
           /\ tree'.unheard = o.tree.unheard /\ OwnCall(t)
           /\ call' = [call EXCEPT ![t] = [way |-> call[t].way, left |-> call[t].left, add |-> o.tree.known \ tree.known,
                                           drop |-> call[t].drop]]
<1>1. TreeOK(tree', n) /\ Like(o.tree, tree') /\ tree'.known = tree.known /\ tree'.unheard = o.tree.unheard
  <2>1. tree.known \in SUBSET Dirs BY DEF TreeOK
  <2>2. tree' = [o.tree EXCEPT !.known = tree.known] BY DEF Broken, Unnoted
  <2> QED BY <2>1, <2>2, TreeKnown
<1> DEFINE add == o.tree.known \ tree.known
           b == call[t]
           c == [b EXCEPT !.add = add]
<1>2. call' = [call EXCEPT ![t] = c] /\ CallOK(b) BY DEF Broken, CallsOK
<1>3. add \subseteq Dirs BY DEF TreeOK
<1> HIDE DEF add, b
<1>4. c = [way |-> b.way, left |-> b.left, add |-> add, drop |-> b.drop] BY <1>2 DEF CallOK, IsCall
<1> HIDE DEF c
<1>5. CallOK(c) BY <1>2, <1>3, <1>4 DEF CallOK, IsCall
<1>6. OwnCall(t) BY <1>2, <1>5 DEF OwnCall
<1> QED BY <1>1, <1>2, <1>4, <1>6 DEF add, b, Like

LEMMA RenameCopyOK == ASSUME DirInv, NEW t \in Tasks, RenameCopy(t) PROVE DirInv'
<1> DEFINE j == job[t]
           i == j.item
<1>1. JobOK(j, tree.kind, contents) /\ TreeOK(tree, contents) /\ DOMAIN buf \subseteq Dirs /\ CallsOK(call) BY TheJob DEF DirInv
<1>2. j.pc = "copy" /\ j.cmd \in {"move", "rename"} /\ e2ee' = e2ee /\ contents' = contents /\ buf' = buf
  BY DEF RenameCopy, Moving
<1>3. EntryOK(i) /\ TargetOK(i, j.to) /\ Within(i, j.got) BY <1>1, <1>2 DEF JobOK, UnderWay
<1>4. ASSUME NEW some \in SUBSET j.got, NEW o \in copy(tree, i.key, j.to, some)
      PROVE  TreeOK(o.tree, contents) /\ o.tree.kind = tree.kind
  <2>1. Within(i, some) BY <1>3 DEF Within
  <2> QED BY <1>1, <1>3, <2>1, CopyOK
<1>5. CASE Request(t, copy(tree, i.key, j.to, j.got), Goes(t, "remove"))
  <2> DEFINE r == Goes(t, "remove")
  <2>1. /\ r.pc = "remove" /\ r.cmd = j.cmd /\ r.item = i /\ r.to = j.to /\ r.got = j.got /\ r.dest = j.dest
    BY GoesTo
  <2> HIDE DEF r, j, i
  <2>2. PcOK(r, tree.kind) /\ UploadOK(r, contents) BY <1>2, <2>1 DEF PcOK, Pcs, Cmds, UploadOK
  <2>3. UnderWay(r) BY <1>1, <1>2, <2>1 DEF JobOK, UnderWay, i
  <2>4. JobOK(r, tree.kind, contents) BY <2>2, <2>3, GoesOK DEF r
  <2>5. \A o \in copy(tree, i.key, j.to, j.got) : TreeOK(o.tree, contents) /\ o.tree.kind = tree.kind BY <1>4
  <2> QED BY <1>1, <1>2, <1>5, <2>4, <2>5, RequestOK DEF r, j
<1>6. CASE CopyBreaks(t)
  <2>0. PICK some \in SUBSET j.got : \E o \in copy(tree, i.key, j.to, some) : Broken(t, o) BY <1>6, Zenon DEF CopyBreaks
  <2>1. PICK o \in copy(tree, i.key, j.to, some) : Broken(t, o) BY <2>0
  <2>2. TreeOK(tree', contents) /\ tree'.kind = tree.kind /\ OwnCall(t)
    BY <1>1, <1>4, <2>1, BrokenOK
  <2>3. JobOK(Goes(t, "failed"), tree.kind, contents) BY <1>2, FailedJob
  <2> QED BY <1>1, <1>2, <1>6, <2>2, <2>3, TaskStepOK DEF CopyBreaks
<1> QED BY <1>5, <1>6, CopyEnds

LEMMA AfterRenameOK ==
    ASSUME DirInv, NEW t \in Tasks, Moving(t), job[t].pc \in {"remove", "rmdir"}
    PROVE  JobOK(AfterRename(t), tree.kind, contents)
<1> DEFINE j == job[t]
<1>1. JobOK(j, tree.kind, contents) BY TheJob
<1>2. JobOK(Goes(t, "start"), tree.kind, contents) BY <1>1, PlainPc DEF Goes, Moving
<1>3. CASE j.cmd = "move" /\ e2ee
  <2> DEFINE r == Goes(t, "take")
  <2>1. r.pc = "take" /\ r.cmd = j.cmd /\ r.item = j.item /\ r.to = j.to /\ r.got = j.got /\ r.dest = j.dest BY GoesTo
  <2> HIDE DEF r, j
  <2>2. PcOK(r, tree.kind) /\ UploadOK(r, contents) BY <1>3, <2>1 DEF PcOK, Pcs, Cmds, UploadOK
  <2>3. UnderWay(r) BY <1>1, <1>3, <2>1 DEF JobOK, UnderWay, j
  <2>4. JobOK(r, tree.kind, contents) BY <2>2, <2>3, GoesOK DEF r
  <2> QED BY <1>3, <2>4 DEF r, j, AfterRename
<1>4. CASE j.cmd = "move" /\ ~e2ee BY <1>2, <1>4 DEF AfterRename
<1>5. CASE j.cmd = "rename" /\ j.item.encrypted
  <2> DEFINE r == Goes(t, "edit")
  <2>1. r.pc = "edit" /\ r.cmd = j.cmd BY GoesTo
  <2> HIDE DEF r, j
  <2>2. PcOK(r, tree.kind) /\ UploadOK(r, contents) /\ UnderWay(r) BY <1>5, <2>1 DEF PcOK, Pcs, Cmds, UploadOK, UnderWay
  <2>4. JobOK(r, tree.kind, contents) BY <2>2, GoesOK DEF r
  <2> QED BY <1>5, <2>4 DEF r, j, AfterRename
<1>6. CASE j.cmd = "rename" /\ ~j.item.encrypted BY <1>6, IdleJob DEF AfterRename
<1> QED BY <1>3, <1>4, <1>5, <1>6 DEF Moving

LEMMA RenameRemoveOK == ASSUME DirInv, NEW t \in Tasks, RenameRemove(t) PROVE DirInv'
<1> DEFINE j == job[t]
           i == j.item
           next == IF i.is_dir THEN Goes(t, "rmdir") ELSE AfterRename(t)
           c == [NoCall EXCEPT !.left = Found(i)]
<1>1. JobOK(j, tree.kind, contents) /\ TreeOK(tree, contents) /\ DOMAIN buf \subseteq Dirs BY TheJob
<1>2. /\ j.pc = "remove" /\ Moving(t) /\ j.cmd \in {"move", "rename"} /\ e2ee' = e2ee /\ contents' = contents /\ buf' = buf
      /\ IF tree.kind = "s3" THEN s3_deletes(t, Removes(t), AfterRename(t)) ELSE Asks(t, Unlinked(i), next, c)
  BY DEF RenameRemove, Moving
<1>3. EntryOK(i) /\ Within(i, j.got) BY <1>1, <1>2 DEF JobOK, UnderWay
<1>4. CASE tree.kind = "s3"
  <2>1. <<>> \notin Removes(t)
    <3>1. i.key # <<>> /\ i.key \in Path BY <1>3 DEF EntryOK
    <3>2. ~Beneath(i.key, <<>>) BY <3>1, LenProperties, EmptySeq DEF Beneath, Path
    <3> QED BY <1>3, <3>1, <3>2 DEF Within, Removes
  <2>2. JobOK(AfterRename(t), tree.kind, contents) BY <1>2, AfterRenameOK
  <2>3. j.cmd # "upload" BY <1>2
  <2> QED BY <1>1, <1>2, <1>4, <2>1, <2>2, <2>3, S3DeletesOK DEF j
<1>5. CASE tree.kind # "s3"
  <2>1. JobOK(next, tree.kind, contents)
    <3>1. CASE i.is_dir
      <4> DEFINE r == Goes(t, "rmdir")
      <4>1. /\ r.pc = "rmdir" /\ r.cmd = j.cmd /\ r.item = i /\ r.to = j.to /\ r.got = j.got /\ r.dest = j.dest BY GoesTo
      <4> HIDE DEF r, j
      <4>2. PcOK(r, tree.kind) /\ UploadOK(r, contents) BY <1>2, <1>5, <4>1 DEF PcOK, Pcs, Cmds, UploadOK
      <4>3. UnderWay(r) BY <1>1, <1>2, <4>1 DEF JobOK, UnderWay, j
      <4>4. JobOK(r, tree.kind, contents) BY <4>2, <4>3, GoesOK DEF r
      <4> QED BY <3>1, <4>4 DEF r
    <3>2. CASE ~i.is_dir BY <1>2, <3>2, AfterRenameOK
    <3> QED BY <3>1, <3>2
  <2>2. CallOK(c) BY <1>1, <1>3, FoundOK, LeftCall
  <2>3. \A o \in Unlinked(i) : TreeOK(o.tree, contents) /\ o.tree.kind = tree.kind BY <1>1, <1>5, UnlinkedOK
  <2>4. j.cmd # "upload" BY <1>2
  <2> HIDE DEF next, c
  <2> QED BY <1>1, <1>2, <1>5, <2>1, <2>2, <2>3, <2>4, AsksOK DEF j
<1> QED BY <1>4, <1>5

LEMMA RenameRmdirOK == ASSUME DirInv, NEW t \in Tasks, RenameRmdir(t) PROVE DirInv'
<1> DEFINE j == job[t]
<1>1. JobOK(j, tree.kind, contents) /\ TreeOK(tree, contents) /\ DOMAIN buf \subseteq Dirs BY TheJob
<1>2. /\ j.pc = "rmdir" /\ Moving(t) /\ j.cmd \in {"move", "rename"} /\ e2ee' = e2ee /\ contents' = contents /\ buf' = buf
      /\ Rmdir(t) \/ Leaves(t, AfterRename(t))
  BY DEF RenameRmdir, Moving
<1>3. tree.kind # "s3" BY <1>1, <1>2 DEF JobOK, PcOK
<1>4. JobOK(AfterRename(t), tree.kind, contents) BY <1>2, AfterRenameOK
<1> QED BY <1>1, <1>2, <1>3, <1>4, RmdirStepOK, LeavesOK

\* The task of a move after take_entry and insert_entry.
LEMMA TakenOK ==
    ASSUME DirInv, NEW t \in Tasks, job[t].cmd = "move", job[t].pc \in {"take", "insert"}, NEW p \in {"start", "insert"}, NEW x
    PROVE  JobOK([Goes(t, p) EXCEPT !.taken = x], tree.kind, contents)
<1> DEFINE j == job[t]
           g == Goes(t, p)
           r == [g EXCEPT !.taken = x]
<1>1. JobOK(j, tree.kind, contents) BY TheJob
<1>2. /\ IsJob(g) /\ g.pc = p /\ g.cmd = j.cmd /\ g.all = j.all /\ g.items = j.items /\ g.dest = j.dest /\ g.name = j.name
      /\ g.item = j.item /\ g.to = j.to
  BY GoesTo
<1> HIDE DEF g
<1>3. IsJob(r) /\ SameBut(r, g) /\ r.item = g.item /\ r.items = g.items /\ r.to = g.to BY <1>2, JobTaken
<1> HIDE DEF r, j
<1>4. PcOK(r, tree.kind) /\ UploadOK(r, contents) BY <1>2, <1>3 DEF SameBut, PcOK, Pcs, Cmds, UploadOK, j
<1>5. UnderWay(r) BY <1>1, <1>2, <1>3 DEF SameBut, JobOK, UnderWay, j
<1>6. JobOK(r, tree.kind, contents) BY <1>1, <1>2, <1>3, <1>4, <1>5, SameCommand DEF SameBut, j
<1> QED BY <1>6 DEF r, g

LEMMA MoveTakeOK == ASSUME DirInv, NEW t \in Tasks, MoveTake(t) PROVE DirInv'
<1> DEFINE j == job[t]
           dir == parent_prefix(j.item.key)
           got == take_entry(View(dir), j.item.name)
           next == [Goes(t, IF got.entry = {} THEN "start" ELSE "insert") EXCEPT !.taken = got.entry]
<1>1. JobOK(j, tree.kind, contents) /\ TreeOK(tree, contents) /\ DOMAIN buf \subseteq Dirs BY TheJob
<1>2. /\ j.pc = "take" /\ e2ee' = e2ee /\ contents' = contents /\ tree' = tree /\ OwnCall(t)
      /\ \/ buf' = edit(dir, got.rest) /\ Becomes(t, next)
         \/ Becomes(t, Goes(t, "start")) /\ buf' = buf
  BY Zenon DEF MoveTake, OwnCall
<1>3. j.cmd = "move" /\ dir \in Dirs BY <1>1, <1>2 DEF JobOK, PcOK, UnderWay, EntryOK
<1>4. JobOK(next, tree.kind, contents) BY <1>2, <1>3, TakenOK
<1>5. JobOK(Goes(t, "start"), tree.kind, contents) BY <1>1, <1>3, PlainPc DEF Goes
<1>6. DOMAIN buf' \subseteq Dirs BY <1>1, <1>2, <1>3, BufferOK
<1> HIDE DEF next
<1> QED BY <1>2, <1>4, <1>5, <1>6, SameTree DEF Becomes

LEMMA MoveInsertOK == ASSUME DirInv, NEW t \in Tasks, MoveInsert(t) PROVE DirInv'
<1> DEFINE j == job[t]
           next == [Goes(t, "start") EXCEPT !.taken = {}]
<1>1. JobOK(j, tree.kind, contents) /\ TreeOK(tree, contents) /\ DOMAIN buf \subseteq Dirs BY TheJob
<1>2. /\ j.pc = "insert" /\ e2ee' = e2ee /\ contents' = contents /\ tree' = tree /\ Becomes(t, next) /\ OwnCall(t)
      /\ (\E m : buf' = edit(j.dest, m)) \/ buf' = buf
  BY Zenon DEF MoveInsert, OwnCall
<1>3. j.cmd = "move" /\ j.dest \in Dirs BY <1>1, <1>2 DEF JobOK, PcOK, CommandOK
<1>4. JobOK(next, tree.kind, contents) BY <1>2, <1>3, TakenOK
<1>6. DOMAIN buf' \subseteq Dirs BY <1>1, <1>2, <1>3, BufferOK
<1> HIDE DEF next
<1> QED BY <1>2, <1>4, <1>6, SameTree DEF Becomes

LEMMA SizeListOK == ASSUME DirInv, NEW t \in Tasks, SizeList(t) PROVE DirInv'
<1> DEFINE j == job[t]
           next == IF j.item.encrypted THEN Goes(t, "edit") ELSE Answered("ok")
<1>1. JobOK(j, tree.kind, contents) /\ TreeOK(tree, contents) /\ DOMAIN buf \subseteq Dirs BY TheJob
<1>2. /\ j.pc = "start" /\ j.cmd = "size" /\ e2ee' = e2ee /\ contents' = contents /\ buf' = buf
      /\ \E ok : Request(t, {Outcome(tree, ok)}, next)
  BY DEF SizeList
<1>3. JobOK(Goes(t, "edit"), tree.kind, contents)
  <2> DEFINE r == Goes(t, "edit")
  <2>1. r.pc = "edit" /\ r.cmd = j.cmd BY GoesTo
  <2> HIDE DEF r
  <2>2. PcOK(r, tree.kind) /\ UnderWay(r) /\ UploadOK(r, contents) BY <1>2, <2>1 DEF PcOK, Pcs, Cmds, UnderWay, UploadOK
  <2>3. JobOK(r, tree.kind, contents) BY <2>2, GoesOK DEF r
  <2> QED BY <2>3 DEF r
<1>4. JobOK(next, tree.kind, contents) BY <1>3, IdleJob
<1> HIDE DEF next
<1> QED BY <1>1, <1>2, <1>4, AskOK

LEMMA UploadPrepareOK == ASSUME DirInv, NEW t \in Tasks, UploadPrepare(t) PROVE DirInv'
<1> DEFINE j == job[t]
           r == Goes(t, "put")
<1>1. JobOK(j, tree.kind, contents) /\ TreeOK(tree, contents) /\ DOMAIN buf \subseteq Dirs BY TheJob
<1>2. /\ j.pc = "start" /\ j.cmd = "upload" /\ e2ee' = e2ee /\ contents' = contents /\ buf' = buf
      /\ Prepare(t, parent_prefix(j.to)) \/ Leaves(t, r)
  BY DEF UploadPrepare
<1>3. parent_prefix(j.to) \in Dirs /\ j.at = 0 BY <1>1, <1>2 DEF JobOK, UploadOK
<1>5. JobOK(r, tree.kind, contents)
  <2>1. /\ r.pc = "put" /\ r.cmd = j.cmd /\ r.rel = j.rel /\ r.dest = j.dest /\ r.to = j.to /\ r.at = j.at
        /\ r.content = j.content
    BY GoesTo
  <2> HIDE DEF r, j
  <2>2. PcOK(r, tree.kind) /\ UnderWay(r) BY <1>2, <2>1 DEF PcOK, Pcs, Cmds, UnderWay
  <2>3. UploadOK(r, contents) BY <1>1, <1>2, <1>3, <2>1 DEF JobOK, UploadOK
  <2> QED BY <2>2, <2>3, GoesOK DEF r
<1> HIDE DEF r
<1> QED BY <1>1, <1>2, <1>3, <1>5, PrepareStepOK, LeavesOK

\* Where an upload puts its file, and the directories whose manifests record_upload edits.
LEMMA UploadPaths ==
    ASSUME NEW rel \in Rels, NEW dest \in Dirs, NEW to, to = dest \o on_disk_path(e2ee, rel), parent_prefix(to) \in Dirs
    PROVE  /\ KeyOK(to) /\ leaf_of(to) \in FileSegs
           /\ \A n \in 1 .. Len(rel) : dest \o on_disk_path(e2ee, SubSeq(rel, 1, n - 1)) \in Dirs
<1> DEFINE Names == FolderNames \cup FileNames
           p == on_disk_path(e2ee, rel)
<1>1. rel \in Seq(Names) /\ Len(rel) > 0 /\ rel[Len(rel)] \in FileNames /\ Len(rel) \in Nat
  <2>1. rel \in Seq(Names) /\ Len(rel) > 0 /\ \A n \in 1 .. Len(rel) : rel[n] \in FileNames <=> n = Len(rel)
    BY DirOpsAssumption DEF DirOpsAssumption
  <2>2. Len(rel) \in Nat BY <2>1, LenProperties
  <2> QED BY <2>1, <2>2
<1>2. \A n \in Names : on_disk_segment(e2ee, n) \in Segs BY SegTypes
<1>3. p \in Path /\ Len(p) = Len(rel) /\ \A i \in 1 .. Len(rel) : p[i] = on_disk_segment(e2ee, rel[i])
  BY <1>1, <1>2, PathOf
<1>4. dest \in Path /\ Len(dest) \in Nat BY DirsClosed, LenProperties DEF Path
<1> HIDE DEF p
<1>5. /\ to \in Path /\ Len(to) = Len(dest) + Len(rel)
      /\ \A i \in 1 .. Len(dest) + Len(rel) : to[i] = IF i <= Len(dest) THEN dest[i] ELSE p[i - Len(dest)]
  <2>1. to = dest \o p BY DEF p
  <2>2. p \in Seq(Segs) /\ dest \in Seq(Segs) BY <1>3, <1>4 DEF Path
  <2>3. dest \o p \in Seq(Segs) /\ Len(dest \o p) = Len(dest) + Len(p)
        /\ \A i \in 1 .. Len(dest) + Len(p) : (dest \o p)[i] = IF i <= Len(dest) THEN dest[i] ELSE p[i - Len(dest)]
    BY <2>2, ConcatProperties
  <2> QED BY <1>3, <2>1, <2>3 DEF Path
<1>6. to # <<>> BY <1>1, <1>4, <1>5
<1>7. leaf_of(to) \in FileSegs
  <2>1. Len(to) \in 1 .. Len(dest) + Len(rel) /\ ~(Len(to) <= Len(dest)) /\ Len(to) - Len(dest) = Len(rel) BY <1>1, <1>4, <1>5
  <2>2. leaf_of(to) = p[Len(rel)] BY <1>5, <2>1 DEF leaf_of
  <2>3. p[Len(rel)] = on_disk_segment(e2ee, rel[Len(rel)]) BY <1>1, <1>3
  <2> QED BY <1>1, <2>2, <2>3, SegTypes
<1>8. ASSUME NEW n \in 1 .. Len(rel) PROVE dest \o on_disk_path(e2ee, SubSeq(rel, 1, n - 1)) \in Dirs
  <2> DEFINE q == SubSeq(rel, 1, n - 1)
             h == on_disk_path(e2ee, q)
             x == dest \o h
             up == parent_prefix(to)
             m == Len(dest) + n - 1
             y == SubSeq(up, 1, m)
  <2>1. n - 1 \in 0 .. Len(rel) /\ n - 1 \in Nat /\ n \in Nat /\ n <= Len(rel) BY <1>1
  <2>2. q \in Seq(Names) /\ Len(q) = n - 1 /\ \A i \in 1 .. n - 1 : q[i] = rel[i] BY <1>1, <2>1, PrefixOf
  <2> HIDE DEF q
  <2>3. h \in Path /\ Len(h) = n - 1 /\ \A i \in 1 .. n - 1 : h[i] = on_disk_segment(e2ee, q[i]) BY <1>2, <2>2, PathOf
  <2> HIDE DEF h
  <2>4. /\ x \in Path /\ Len(x) = Len(dest) + (n - 1)
        /\ \A i \in 1 .. Len(dest) + (n - 1) : x[i] = IF i <= Len(dest) THEN dest[i] ELSE h[i - Len(dest)]
    <3>1. h \in Seq(Segs) /\ dest \in Seq(Segs) BY <1>4, <2>3 DEF Path
    <3>2. x \in Seq(Segs) /\ Len(x) = Len(dest) + Len(h)
          /\ \A i \in 1 .. Len(dest) + Len(h) : x[i] = IF i <= Len(dest) THEN dest[i] ELSE h[i - Len(dest)]
      BY <3>1, ConcatProperties
    <3> HIDE DEF x
    <3> QED BY <2>3, <3>2 DEF Path
  <2> HIDE DEF x
  <2>5. up \in Path /\ Len(up) = Len(dest) + Len(rel) - 1 /\ \A i \in 1 .. Len(to) - 1 : up[i] = to[i]
    <3>1. to \in Seq(Segs) BY <1>5 DEF Path
    <3>2. up \in Seq(Segs) /\ Len(up) = Len(to) - 1 /\ \A i \in 1 .. Len(to) - 1 : up[i] = to[i] BY <1>6, <3>1, ParentLeaf
    <3> HIDE DEF up
    <3> QED BY <1>5, <3>2, SMTT(30) DEF Path
  <2> HIDE DEF up
  <2>6. m \in 0 .. Len(up) /\ m \in Nat /\ m <= Len(to) - 1 BY <1>4, <1>5, <1>1, <2>1, <2>5
  <2>7. y \in Path /\ Len(y) = m /\ \A i \in 1 .. m : y[i] = up[i] BY <2>5, <2>6, PrefixOf DEF Path
  <2>8. y \in Dirs BY <2>6, DirsClosed DEF up
  <2> HIDE DEF y
  <2>9. ASSUME NEW i \in 1 .. m PROVE x[i] = y[i]
    <3>1. i \in 1 .. Len(to) - 1 /\ i \in 1 .. Len(dest) + Len(rel) /\ i \in 1 .. Len(dest) + (n - 1) /\ i \in Nat
      BY <1>1, <1>4, <1>5, <2>1, SMTT(30)
    <3>2. y[i] = IF i <= Len(dest) THEN dest[i] ELSE p[i - Len(dest)] BY <1>5, <2>5, <2>7, <3>1
    <3>3. x[i] = IF i <= Len(dest) THEN dest[i] ELSE h[i - Len(dest)] BY <2>4, <3>1
    <3>4. CASE i <= Len(dest) BY <3>2, <3>3, <3>4
    <3>5. CASE ~(i <= Len(dest))
      <4> DEFINE k == i - Len(dest)
      <4>1. k \in 1 .. n - 1 /\ k \in 1 .. Len(rel) BY <1>1, <1>4, <2>1, <3>5, SMTT(30)
      <4> HIDE DEF k
      <4>2. h[k] = p[k] BY <1>3, <2>2, <2>3, <4>1
      <4> QED BY <3>2, <3>3, <3>5, <4>2 DEF k
    <3> QED BY <3>4, <3>5
  <2>10. Len(x) = Len(y) /\ \A i \in 1 .. Len(x) : x[i] = y[i] BY <1>4, <2>1, <2>4, <2>7, <2>9
  <2>11. x = y BY <2>4, <2>7, <2>10, SeqEqual DEF Path
  <2> QED BY <2>8, <2>11 DEF x, h, q
<1> QED BY <1>5, <1>6, <1>7, <1>8 DEF KeyOK

LEMMA UploadPutOK == ASSUME DirInv, NEW t \in Tasks, UploadPut(t) PROVE DirInv'
<1> DEFINE j == job[t]
           p == IF e2ee THEN "edit" ELSE "flush"
           next == [Goes(t, p) EXCEPT !.at = 1]
<1>1. JobOK(j, tree.kind, contents) /\ TreeOK(tree, contents) /\ DOMAIN buf \subseteq Dirs BY TheJob
<1>2. /\ j.pc = "put" /\ e2ee' = e2ee /\ contents' = contents /\ buf' = buf
      /\ Request(t, put(tree, j.to, j.content), next)
  BY DEF UploadPut
<1>3. j.cmd = "upload" BY <1>1, <1>2 DEF JobOK, PcOK
<1>4. j.at = 0 /\ j.content \in 1 .. contents BY <1>1, <1>2, <1>3 DEF JobOK, UploadOK
<1>5. KeyOK(j.to) BY <1>1, <1>3, UploadPaths DEF JobOK, UploadOK
<1>6. \A o \in put(tree, j.to, j.content) : TreeOK(o.tree, contents) /\ o.tree.kind = tree.kind
  BY <1>1, <1>4, <1>5, PutOK
<1>7. JobOK(next, tree.kind, contents)
  <2> DEFINE g == Goes(t, p)
  <2>1. /\ IsJob(g) /\ g.pc = p /\ g.cmd = j.cmd /\ g.all = j.all /\ g.items = j.items /\ g.dest = j.dest
        /\ g.name = j.name /\ g.rel = j.rel /\ g.content = j.content /\ g.item = j.item /\ g.to = j.to
    BY GoesTo
  <2>2. p \in {"edit", "flush"} /\ (p = "edit" => e2ee) OBVIOUS
  <2> HIDE DEF g, j, p
  <2>3. IsJob(next) /\ SameBut(next, g) /\ next.at = 1 /\ next.item = g.item /\ next.items = g.items /\ next.to = g.to
    BY <2>1, JobAt DEF g
  <2> HIDE DEF next
  <2>4. PcOK(next, tree.kind) /\ UnderWay(next) BY <1>3, <2>1, <2>2, <2>3 DEF SameBut, PcOK, Pcs, Cmds, UnderWay
  <2>5. 1 \in 0 .. Len(j.rel)
    <3>1. j.rel \in Rels BY <1>1, <1>3 DEF JobOK, UploadOK
    <3>2. j.rel \in Seq(FolderNames \cup FileNames) /\ Len(j.rel) > 0 BY <3>1, DirOpsAssumption DEF DirOpsAssumption
    <3> QED BY <3>2, LenProperties
  <2>6. UploadOK(next, contents)
    <3>1. /\ next.rel \in Rels /\ next.dest \in Dirs /\ next.to = next.dest \o on_disk_path(e2ee, next.rel)
          /\ parent_prefix(next.to) \in Dirs /\ next.content \in 1 .. contents /\ next.at \in 0 .. Len(next.rel)
      BY <1>1, <1>3, <2>1, <2>3, <2>5, Zenon DEF SameBut, JobOK, UploadOK
    <3>2. next.pc \in {"edit", "flush"} /\ (next.pc = "edit" => next.at > 0 /\ e2ee) BY <2>1, <2>2, <2>3 DEF SameBut
    <3>3. ~(next.pc \in {"start", "put", "failed"}) BY <3>2
    <3> QED BY <3>1, <3>2, <3>3, Zenon DEF UploadOK
  <2> QED BY <1>1, <1>3, <2>1, <2>3, <2>4, <2>6, SameCommand DEF SameBut
<1> HIDE DEF next
<1> QED BY <1>1, <1>2, <1>4, <1>6, <1>7, RequestOK

LEMMA GoesFlush == ASSUME DirInv, NEW t \in Tasks PROVE JobOK(Goes(t, "flush"), tree.kind, contents)
BY TheJob, PlainPc DEF Goes

\* An edit is of the manifest of a directory.
LEMMA EditsOK ==
    ASSUME DirInv, NEW t \in Tasks, job[t].pc = "edit", NEW e \in EditsOf(t)
    PROVE  e[1] \in Dirs /\ JobOK(e[3], tree.kind, contents)
<1> DEFINE j == job[t]
           parent == parent_prefix(j.item.key)
           n == j.rel[j.at]
           dir == j.dest \o on_disk_path(TRUE, SubSeq(j.rel, 1, j.at - 1))
<1>1. JobOK(j, tree.kind, contents) BY TheJob
<1>2. j.cmd \in {"create", "rename", "size", "delete", "upload"} BY <1>1 DEF JobOK, PcOK
<1>3. JobOK(Goes(t, "flush"), tree.kind, contents) BY GoesFlush
<1>4. CASE j.cmd = "create"
  <2>1. e = <<j.dest, upsert_folder(View(j.dest), j.name), Goes(t, "flush"), {}>> BY <1>4 DEF EditsOf
  <2>2. e[1] = j.dest /\ e[3] = Goes(t, "flush") BY <2>1
  <2> QED BY <1>1, <1>3, <1>4, <2>2 DEF JobOK, CommandOK
<1>5. CASE j.cmd = "rename"
  <2>1. e = <<parent, rename_entry(View(parent), j.item.name, j.name), Goes(t, "flush"), FolderOf(j.item)>>
    BY <1>5 DEF EditsOf
  <2>2. e[1] = parent /\ e[3] = Goes(t, "flush") BY <2>1
  <2> QED BY <1>1, <1>3, <1>5, <2>2 DEF JobOK, CommandOK, EntryOK
<1>6. CASE j.cmd = "size"
  <2>1. e = <<parent, set_folder_size(View(parent), j.item.name, 1), Goes(t, "flush"), {}>> BY <1>6 DEF EditsOf
  <2>2. e[1] = parent /\ e[3] = Goes(t, "flush") BY <2>1
  <2> QED BY <1>1, <1>3, <1>6, <2>2 DEF JobOK, CommandOK, EntryOK
<1>7. CASE j.cmd = "delete"
  <2>1. PICK i \in j.items : e = <<parent_prefix(i.key), remove(View(parent_prefix(i.key)), i.name),
                                   [Goes(t, IF j.items = {i} THEN "flush" ELSE "edit") EXCEPT !.items = @ \ {i}], FolderOf(i)>>
    BY <1>7 DEF EditsOf
  <2> DEFINE p == IF j.items = {i} THEN "flush" ELSE "edit"
  <2>2. e[1] = parent_prefix(i.key) /\ e[3] = [Goes(t, p) EXCEPT !.items = @ \ {i}] BY <2>1
  <2>3. Goes(t, p).items = j.items BY GoesTo
  <2>4. e[3] = [Goes(t, p) EXCEPT !.items = j.items \ {i}] BY <2>2, <2>3
  <2>5. p \in {"remove", "edit", "flush"} /\ p # "remove" OBVIOUS
  <2>6. j.items \ {i} \in SUBSET (j.all \cup j.items) OBVIOUS
  <2> HIDE DEF p
  <2>7. JobOK(e[3], tree.kind, contents)
    <3> DEFINE its == j.items \ {i}
    <3> HIDE DEF its
    <3>1. its \in SUBSET (job[t].all \cup job[t].items) BY <2>6 DEF its
    <3>2. JobOK([Goes(t, p) EXCEPT !.items = its], tree.kind, contents) BY <1>7, <2>5, <3>1, FewerItems
    <3> QED BY <2>4, <3>2 DEF its
  <2>8. EntryOK(i) BY <1>1 DEF JobOK, ItemsOK
  <2> QED BY <2>2, <2>7, <2>8 DEF EntryOK
<1>8. CASE j.cmd = "upload"
  <2>1. /\ j.rel \in Rels /\ j.dest \in Dirs /\ j.to = j.dest \o on_disk_path(e2ee, j.rel) /\ parent_prefix(j.to) \in Dirs
        /\ j.at \in 0 .. Len(j.rel) /\ j.at > 0
    BY <1>1, <1>8 DEF JobOK, UploadOK
  <2>2. e2ee BY <1>1, <1>8, Zenon DEF JobOK, UploadOK
  <2>3. Len(j.rel) \in Nat
    <3>1. j.rel \in Seq(FolderNames \cup FileNames) BY <2>1, DirOpsAssumption DEF DirOpsAssumption
    <3> QED BY <3>1, LenProperties
  <2>4. j.at \in 1 .. Len(j.rel) BY <2>1, <2>3
  <2>5. j.dest \o on_disk_path(e2ee, SubSeq(j.rel, 1, j.at - 1)) \in Dirs BY <2>1, <2>4, UploadPaths
  <2>6. \A s : on_disk_path(e2ee, s) = on_disk_path(TRUE, s) BY <2>2 DEF on_disk_path, on_disk_segment
  <2>7. dir \in Dirs BY <2>5, <2>6
  <2>8. CASE j.at = Len(j.rel)
    <3>1. e = <<dir, upsert_file(View(dir), n, j.content), Goes(t, "flush"), {}>> BY <1>8, <2>8 DEF EditsOf
    <3> HIDE DEF dir
    <3> QED BY <1>3, <2>7, <3>1
  <2>9. CASE j.at # Len(j.rel)
    <3>1. e = <<dir, upsert_folder(View(dir), n), [j EXCEPT !.at = @ + 1], {}>> BY <1>8, <2>9 DEF EditsOf
    <3> DEFINE r == [j EXCEPT !.at = j.at + 1]
    <3>2. e[1] = dir /\ e[3] = r BY <3>1
    <3> HIDE DEF dir, j
    <3>3. IsJob(r) /\ SameBut(r, j) /\ r.at = j.at + 1 /\ r.item = j.item /\ r.items = j.items /\ r.to = j.to
      BY <1>1, JobAt DEF JobOK
    <3> HIDE DEF r
    <3>4. PcOK(r, tree.kind) /\ UnderWay(r) BY <1>1, <1>8, <3>3 DEF j, SameBut, JobOK, PcOK, Pcs, Cmds, UnderWay
    <3>5. r.at \in 0 .. Len(j.rel) /\ r.at > 0 BY <2>3, <2>4, <2>9, <3>3
    <3>6. r.pc = "edit" /\ ~(r.pc \in {"start", "put", "failed"}) BY <3>3 DEF SameBut, j
    <3>7. UploadOK(r, contents) BY <1>1, <1>8, <2>2, <3>3, <3>5, <3>6, Zenon DEF SameBut, JobOK, UploadOK
    <3>8. JobOK(r, tree.kind, contents) BY <1>1, <1>8, <3>3, <3>4, <3>7, SameCommand DEF SameBut
    <3> QED BY <2>7, <3>2, <3>8
  <2> QED BY <2>8, <2>9
<1> QED BY <1>2, <1>4, <1>5, <1>6, <1>7, <1>8

LEMMA EditStepOK == ASSUME DirInv, NEW t \in Tasks, EditStep(t) PROVE DirInv'
<1> DEFINE j == job[t]
<1>1. JobOK(j, tree.kind, contents) /\ TreeOK(tree, contents) /\ DOMAIN buf \subseteq Dirs BY TheJob
<1>2. PICK e \in EditsOf(t) :
         \/ buf' = forget(edit(e[1], e[2]), e[4]) /\ Becomes(t, e[3])
         \/ Becomes(t, Unedited(t, e[3])) /\ buf' = forget(buf, e[4])
  BY Zenon DEF EditStep
<1>3. j.pc = "edit" /\ e2ee' = e2ee /\ contents' = contents /\ tree' = tree /\ OwnCall(t) BY Zenon DEF EditStep, OwnCall
<1>4. e[1] \in Dirs /\ JobOK(e[3], tree.kind, contents) BY <1>3, EditsOK
<1>5. DOMAIN buf' \subseteq Dirs
  <2>1. DOMAIN edit(e[1], e[2]) \subseteq Dirs BY <1>1, <1>4, BufferOK
  <2>2. \A map, dirs : DOMAIN forget(map, dirs) \subseteq DOMAIN map BY DEF forget, Without
  <2> QED BY <1>1, <1>2, <2>1, <2>2
<1>6. JobOK(Unedited(t, e[3]), tree.kind, contents)
  <2>1. JobOK(Goes(t, "flush"), tree.kind, contents) BY GoesFlush
  <2>2. j.cmd # "upload" => JobOK(Goes(t, "failed"), tree.kind, contents) BY FailedJob
  <2>3. CASE j.cmd \in {"create", "rename"} BY <2>2, <2>3 DEF Unedited
  <2>4. CASE j.cmd = "upload" BY <2>1, <2>4 DEF Unedited
  <2>5. CASE j.cmd \notin {"create", "rename", "upload"} BY <1>4, <2>5 DEF Unedited
  <2> QED BY <2>3, <2>4, <2>5
<1> QED BY <1>2, <1>3, <1>4, <1>5, <1>6, SameTree DEF Becomes

\* A flush, complete or not, of directories that are buffered.
LEMMA FlushedOK ==
    ASSUME DirInv, NEW some \in SUBSET Unsaved, NEW more \in SUBSET Unsaved, tree' = FlushedTree(more), buf' = FlushedBuf(some)
    PROVE  TreeOK(tree', contents) /\ tree'.kind = tree.kind /\ DOMAIN buf' \subseteq Dirs /\ SameFiles(tree, tree')
<1>1. Unsaved \subseteq Dirs BY DEF Unsaved, DirInv
<1>2. TreeOK(tree, contents) /\ DOMAIN buf \subseteq Dirs BY DEF DirInv
<1>3. DOMAIN buf' \subseteq Dirs BY <1>2 DEF FlushedBuf
<1> QED BY <1>1, <1>2, <1>3, FlushOK

LEMMA FlushFailsOK ==
    ASSUME DirInv, NEW wanted \in SUBSET Unsaved, FlushFails(wanted)
    PROVE  TreeOK(tree', contents) /\ tree'.kind = tree.kind /\ DOMAIN buf' \subseteq Dirs /\ SameFiles(tree, tree')
<1>1. PICK some \in SUBSET {d \in wanted : CanPut(d)}, more \in SUBSET {d \in wanted : CanPut(d)} :
         tree' = FlushedTree(more) /\ buf' = FlushedBuf(some)
  BY Zenon DEF FlushFails
<1>2. some \in SUBSET Unsaved /\ more \in SUBSET Unsaved OBVIOUS
<1> QED BY <1>1, <1>2, FlushedOK

LEMMA FlushStepOK == ASSUME DirInv, NEW t \in Tasks, FlushStep(t) PROVE DirInv' /\ SameFiles(tree, tree')
<1> DEFINE j == job[t]
           next == IF j.cmd \in {"create", "rename"} THEN Goes(t, "failed") ELSE Done(t)
<1>1. JobOK(j, tree.kind, contents) BY TheJob
<1>2. e2ee' = e2ee /\ contents' = contents /\ OwnCall(t) BY DEF FlushStep, OwnCall
<1>3. JobOK(Done(t), tree.kind, contents) BY IdleJob DEF Done
<1>4. JobOK(next, tree.kind, contents) BY <1>3, FailedJob
<1>5. TreeOK(tree', contents) /\ tree'.kind = tree.kind /\ DOMAIN buf' \subseteq Dirs /\ SameFiles(tree, tree')
  BY FlushedOK, FlushFailsOK DEF FlushStep
<1>6. Becomes(t, Done(t)) \/ Becomes(t, next) BY DEF FlushStep
<1> HIDE DEF next
<1> QED BY <1>2, <1>3, <1>4, <1>5, <1>6, TaskStepOK DEF Becomes

LEMMA FlushTimerOK == ASSUME DirInv, FlushTimer PROVE DirInv' /\ SameFiles(tree, tree')
<1>1. e2ee' = e2ee /\ contents' = contents /\ job' = job /\ call' = call BY DEF FlushTimer, tasks
<1>2. TreeOK(tree', contents) /\ tree'.kind = tree.kind /\ DOMAIN buf' \subseteq Dirs /\ SameFiles(tree, tree')
  BY FlushedOK, FlushFailsOK DEF FlushTimer
<1> QED BY <1>1, <1>2, StepOK DEF DirInv, IsFun

\* A backend that is connected anew knows nothing.
LEMMA NothingKnown ==
    ASSUME NEW n, TreeOK(tree, n), NEW new, new = [tree EXCEPT !.known = {}]
    PROVE  TreeOK(new, n) /\ Like(tree, new) /\ new.kind = tree.kind /\ new.obj = tree.obj /\ new.known = {} /\ new.unheard = tree.unheard
<1>1. {} \in SUBSET Dirs OBVIOUS
<1> QED BY <1>1, TreeKnown DEF Like

LEMMA RetryOK == ASSUME DirInv, NEW t \in Tasks, Retry(t) PROVE DirInv' /\ tree'.obj = tree.obj
<1> DEFINE j == job[t]
           r == [j EXCEPT !.pc = "start", !.tried = TRUE, !.items = j.all]
<1>1. JobOK(j, tree.kind, contents) /\ TreeOK(tree, contents) /\ DOMAIN buf \subseteq Dirs BY TheJob
<1>2. /\ j.pc = "failed" /\ job' = [job EXCEPT ![t] = r] /\ tree' \in {tree, [tree EXCEPT !.known = {}]}
      /\ e2ee' = e2ee /\ contents' = contents /\ buf' = buf /\ call' = [call EXCEPT ![t] = NoCall]
  BY Zenon DEF Retry, Becomes
<1>5. OwnCall(t) BY <1>2, NoCallOK DEF OwnCall
<1>3. TreeOK(tree', contents') /\ tree'.kind = tree.kind /\ tree'.obj = tree.obj BY <1>1, <1>2, NothingKnown
<1>4. JobOK(r, tree.kind, contents)
  <2>1. IsJob(j) /\ r = [j EXCEPT !.pc = "start", !.tried = TRUE, !.items = j.all] BY <1>1 DEF JobOK
  <2> HIDE DEF j, r
  <2>2. r = [pc |-> "start", cmd |-> j.cmd, all |-> j.all, items |-> j.all, item |-> j.item,
             dest |-> j.dest, name |-> j.name, rel |-> j.rel, at |-> j.at, content |-> j.content,
             to |-> j.to, got |-> j.got, taken |-> j.taken, began |-> j.began, tried |-> TRUE,
             result |-> j.result]
    BY <2>1 DEF IsJob
  <2>3. IsJob(r) /\ r.items = j.all BY <2>2 DEF IsJob
  <2>4. PcOK(r, tree.kind) /\ UnderWay(r) BY <1>1, <2>2 DEF JobOK, PcOK, Pcs, UnderWay
  <2>5. UploadOK(r, contents)
    <3>1. j.cmd = "upload" => j.at = 0 BY <1>1, <1>2 DEF JobOK, UploadOK
    <3>2. r.rel = j.rel /\ r.dest = j.dest /\ r.to = j.to /\ r.content = j.content /\ r.at = j.at /\ r.cmd = j.cmd
          /\ r.pc = "start"
      BY <2>2
    <3>3. r.pc # "edit" BY <3>2
    <3> QED BY <1>1, <3>1, <3>2, <3>3, Zenon DEF JobOK, UploadOK
  <2> QED BY <1>1, <2>2, <2>3, <2>4, <2>5, SameCommand
<1> HIDE DEF r
<1> QED BY <1>1, <1>2, <1>3, <1>4, <1>5, TaskStepOK

LEMMA GiveUpOK == ASSUME DirInv, NEW t \in Tasks, GiveUp(t) PROVE DirInv'
<1> DEFINE j == job[t]
           next == IF j.cmd = "upload" /\ e2ee THEN Goes(t, "flush") ELSE Answered("err")
<1>1. e2ee' = e2ee /\ contents' = contents /\ buf' = buf /\ tree' = tree /\ Becomes(t, next)
      /\ call' = [call EXCEPT ![t] = NoCall]
  BY Zenon DEF GiveUp
<1>4. OwnCall(t) BY <1>1, NoCallOK DEF OwnCall
<1>2. JobOK(next, tree.kind, contents) BY GoesFlush, IdleJob
<1>3. DOMAIN buf' \subseteq Dirs BY <1>1 DEF DirInv
<1> HIDE DEF next
<1> QED BY <1>1, <1>2, <1>3, <1>4, SameTree DEF Becomes

-----------------------------------------------------------------------------
(* The commands *)

\* A command that has not begun.
Started(t) == /\ job' = [job EXCEPT ![t] = job'[t]] /\ job'[t].pc = "start"
              /\ Like(tree, tree') /\ tree'.unheard = tree.unheard /\ tree'.known \subseteq tree.known \cup tree.dirs
              /\ call' = [call EXCEPT ![t] = NoCall] /\ UNCHANGED <<acked, gone, strayed>>

LEMMA DispatchOK ==
    ASSUME DirInv, NEW t \in Tasks, NEW dir \in Dirs, NEW j, Dispatch(t, dir, j), IsJob(j), j.cmd \in Cmds,
           ItemsOK(j), CommandOK(j), contents' \in {contents, contents + 1},
           j.cmd = "upload" => /\ j.rel \in Rels /\ j.dest \in Dirs /\ j.to = j.dest \o on_disk_path(e2ee, j.rel)
                               /\ parent_prefix(j.to) \in Dirs /\ j.content \in 1 .. contents' /\ j.at = 0
    PROVE  DirInv' /\ Started(t)
<1> DEFINE r == [j EXCEPT !.pc = "start"]
<1>1. job' = [job EXCEPT ![t] = r] /\ tree' = resolve_dir(tree, {dir}) /\ e2ee' = e2ee /\ call' = [call EXCEPT ![t] = NoCall]
  BY DEF Dispatch
<1>7. OwnCall(t) BY <1>1, NoCallOK DEF OwnCall
<1>2. TreeOK(tree, contents) /\ DOMAIN buf \subseteq Dirs /\ contents \in Nat BY DEF DirInv
<1>3. DOMAIN buf' \subseteq Dirs
  <2>1. DOMAIN LoadAll({dir}) \subseteq Dirs BY <1>2 DEF LoadAll
  <2>2. buf' = LoadAll({dir}) \/ buf' = buf BY DEF Dispatch
  <2> QED BY <1>2, <2>1, <2>2
<1>8. TreeOK(tree', contents) /\ Like(tree, tree') /\ tree'.unheard = tree.unheard /\ tree'.known \subseteq tree.known \cup tree.dirs
  BY <1>1, <1>2, ResolveOK
<1>4. TreeOK(tree', contents') /\ tree'.kind = tree.kind BY <1>2, <1>8 DEF TreeOK, Like
<1>5. JobOK(r, tree.kind, contents')
  <2>1. /\ IsJob(r) /\ r.pc = "start" /\ r.cmd = j.cmd /\ r.all = j.all /\ r.items = j.items /\ r.item = j.item
        /\ r.dest = j.dest /\ r.name = j.name /\ r.rel = j.rel /\ r.at = j.at /\ r.content = j.content
        /\ r.to = j.to /\ r.got = j.got
    BY JobPc
  <2> HIDE DEF r
  <2>2. PcOK(r, tree.kind) BY <2>1 DEF PcOK, Pcs
  <2>3. ItemsOK(r) BY <2>1 DEF ItemsOK
  <2>4. CommandOK(r) BY <2>1 DEF CommandOK
  <2>5. UnderWay(r) BY <2>1 DEF UnderWay
  <2>6. UploadOK(r, contents')
    <3>1. j.cmd = "upload" => 0 \in 0 .. Len(j.rel)
      <4> SUFFICES ASSUME j.cmd = "upload" PROVE 0 \in 0 .. Len(j.rel) OBVIOUS
      <4>1. j.rel \in Seq(FolderNames \cup FileNames) BY DirOpsAssumption DEF DirOpsAssumption
      <4> QED BY <4>1, LenProperties
    <3> QED BY <2>1, <3>1 DEF UploadOK
  <2> QED BY <2>1, <2>2, <2>3, <2>4, <2>5, <2>6 DEF JobOK
<1>6. Started(t)
  <2>1. r.pc = "start" BY JobPc
  <2> HIDE DEF r
  <2>2. job'[t] = r BY <1>1 DEF DirInv, IsFun
  <2>3. UNCHANGED <<acked, gone, strayed>> BY DEF Dispatch
  <2> QED BY <1>1, <1>8, <2>1, <2>2, <2>3 DEF Started
<1> HIDE DEF r
<1> QED BY <1>1, <1>3, <1>4, <1>5, <1>6, <1>7, TaskStepOK

LEMMA NewJobOK ==
    ASSUME NEW cmd, NEW j, j = NewJob(cmd)
    PROVE  IsJob(j) /\ j.cmd = cmd /\ j.all = {} /\ j.items = {} /\ j.at = 0
<1> DEFINE a == Answered("none")
<1>1. IsJob(a) /\ a.all = {} /\ a.items = {} /\ a.at = 0 BY DEF Answered, IsJob
<1> HIDE DEF a
<1>2. j = [a EXCEPT !.cmd = cmd] BY DEF NewJob, a
<1>3. j = [pc |-> a.pc, cmd |-> cmd, all |-> a.all, items |-> a.items, item |-> a.item,
           dest |-> a.dest, name |-> a.name, rel |-> a.rel, at |-> a.at, content |-> a.content,
           to |-> a.to, got |-> a.got, taken |-> a.taken, began |-> a.began, tried |-> a.tried,
           result |-> a.result]
  BY <1>1, <1>2 DEF IsJob
<1> QED BY <1>1, <1>3 DEF IsJob

\* The jobs of the commands.
CreateJob(dir, n) == [NewJob("create") EXCEPT !.dest = dir, !.name = n]
LEMMA NewCreate ==
    ASSUME NEW dir, NEW n
    PROVE  LET j == CreateJob(dir, n) IN
           IsJob(j) /\ j.cmd = "create" /\ j.all = {} /\ j.items = {} /\ j.dest = dir /\ j.name = n
<1> DEFINE j == CreateJob(dir, n)
           n0 == NewJob("create")
<1>1. IsJob(n0) /\ n0.cmd = "create" /\ n0.all = {} /\ n0.items = {} /\ n0.at = 0 BY NewJobOK
<1>2. j = [n0 EXCEPT !.dest = dir, !.name = n] BY DEF CreateJob
<1> HIDE DEF n0, j
<1>3. j = [pc |-> n0.pc, cmd |-> n0.cmd, all |-> n0.all, items |-> n0.items, item |-> n0.item,
          dest |-> dir, name |-> n, rel |-> n0.rel, at |-> n0.at, content |-> n0.content,
          to |-> n0.to, got |-> n0.got, taken |-> n0.taken, began |-> n0.began,
          tried |-> n0.tried, result |-> n0.result]
  BY <1>1, <1>2 DEF IsJob
<1>4. IsJob(j) /\ j.cmd = "create" /\ j.all = {} /\ j.items = {} /\ j.dest = dir /\ j.name = n
  BY <1>1, <1>3 DEF IsJob
<1> QED BY <1>4 DEF j

DeleteJob(s) == [NewJob("delete") EXCEPT !.all = s, !.items = s]
LEMMA NewDelete ==
    ASSUME NEW s
    PROVE  LET j == DeleteJob(s) IN
           IsJob(j) /\ j.cmd = "delete" /\ j.all = s /\ j.items = s
<1> DEFINE j == DeleteJob(s)
           n0 == NewJob("delete")
<1>1. IsJob(n0) /\ n0.cmd = "delete" /\ n0.all = {} /\ n0.items = {} /\ n0.at = 0 BY NewJobOK
<1>2. j = [n0 EXCEPT !.all = s, !.items = s] BY DEF DeleteJob
<1> HIDE DEF n0, j
<1>3. j = [pc |-> n0.pc, cmd |-> n0.cmd, all |-> s, items |-> s, item |-> n0.item,
          dest |-> n0.dest, name |-> n0.name, rel |-> n0.rel, at |-> n0.at,
          content |-> n0.content, to |-> n0.to, got |-> n0.got, taken |-> n0.taken,
          began |-> n0.began, tried |-> n0.tried, result |-> n0.result]
  BY <1>1, <1>2 DEF IsJob
<1>4. IsJob(j) /\ j.cmd = "delete" /\ j.all = s /\ j.items = s
  BY <1>1, <1>3 DEF IsJob
<1> QED BY <1>4 DEF j

MoveJob(s, dest) == [NewJob("move") EXCEPT !.all = s, !.items = s, !.dest = dest]
LEMMA NewMove ==
    ASSUME NEW s, NEW dest
    PROVE  LET j == MoveJob(s, dest) IN
           IsJob(j) /\ j.cmd = "move" /\ j.all = s /\ j.items = s /\ j.dest = dest
<1> DEFINE j == MoveJob(s, dest)
           n0 == NewJob("move")
<1>1. IsJob(n0) /\ n0.cmd = "move" /\ n0.all = {} /\ n0.items = {} /\ n0.at = 0 BY NewJobOK
<1>2. j = [n0 EXCEPT !.all = s, !.items = s, !.dest = dest] BY DEF MoveJob
<1> HIDE DEF n0, j
<1>3. j = [pc |-> n0.pc, cmd |-> n0.cmd, all |-> s, items |-> s, item |-> n0.item,
          dest |-> dest, name |-> n0.name, rel |-> n0.rel, at |-> n0.at, content |-> n0.content,
          to |-> n0.to, got |-> n0.got, taken |-> n0.taken, began |-> n0.began,
          tried |-> n0.tried, result |-> n0.result]
  BY <1>1, <1>2 DEF IsJob
<1>4. IsJob(j) /\ j.cmd = "move" /\ j.all = s /\ j.items = s /\ j.dest = dest
  BY <1>1, <1>3 DEF IsJob
<1> QED BY <1>4 DEF j

SizeJob(i) == [NewJob("size") EXCEPT !.item = i]
LEMMA NewSize ==
    ASSUME NEW i
    PROVE  LET j == SizeJob(i) IN
           IsJob(j) /\ j.cmd = "size" /\ j.all = {} /\ j.items = {} /\ j.item = i
<1> DEFINE j == SizeJob(i)
           n0 == NewJob("size")
<1>1. IsJob(n0) /\ n0.cmd = "size" /\ n0.all = {} /\ n0.items = {} /\ n0.at = 0 BY NewJobOK
<1>2. j = [n0 EXCEPT !.item = i] BY DEF SizeJob
<1> HIDE DEF n0, j
<1>3. j = [pc |-> n0.pc, cmd |-> n0.cmd, all |-> n0.all, items |-> n0.items, item |-> i,
          dest |-> n0.dest, name |-> n0.name, rel |-> n0.rel, at |-> n0.at,
          content |-> n0.content, to |-> n0.to, got |-> n0.got, taken |-> n0.taken,
          began |-> n0.began, tried |-> n0.tried, result |-> n0.result]
  BY <1>1, <1>2 DEF IsJob
<1>4. IsJob(j) /\ j.cmd = "size" /\ j.all = {} /\ j.items = {} /\ j.item = i
  BY <1>1, <1>3 DEF IsJob
<1> QED BY <1>4 DEF j

RenameJob(i, n, to) == [NewJob("rename") EXCEPT !.item = i, !.name = n, !.to = to]
LEMMA NewRename ==
    ASSUME NEW i, NEW n, NEW to
    PROVE  LET j == RenameJob(i, n, to) IN
           IsJob(j) /\ j.cmd = "rename" /\ j.all = {} /\ j.items = {} /\ j.item = i /\ j.to = to
<1> DEFINE j == RenameJob(i, n, to)
           n0 == NewJob("rename")
<1>1. IsJob(n0) /\ n0.cmd = "rename" /\ n0.all = {} /\ n0.items = {} /\ n0.at = 0 BY NewJobOK
<1>2. j = [n0 EXCEPT !.item = i, !.name = n, !.to = to] BY DEF RenameJob
<1> HIDE DEF n0, j
<1>3. j = [pc |-> n0.pc, cmd |-> n0.cmd, all |-> n0.all, items |-> n0.items, item |-> i,
          dest |-> n0.dest, name |-> n, rel |-> n0.rel, at |-> n0.at, content |-> n0.content,
          to |-> to, got |-> n0.got, taken |-> n0.taken, began |-> n0.began, tried |-> n0.tried,
          result |-> n0.result]
  BY <1>1, <1>2 DEF IsJob
<1>4. IsJob(j) /\ j.cmd = "rename" /\ j.all = {} /\ j.items = {} /\ j.item = i /\ j.to = to
  BY <1>1, <1>3 DEF IsJob
<1> QED BY <1>4 DEF j

UploadJob(dir, rel, c, to) == [NewJob("upload") EXCEPT !.dest = dir, !.rel = rel, !.content = c, !.to = to]
LEMMA NewUpload ==
    ASSUME NEW dir, NEW rel, NEW c, NEW to
    PROVE  LET j == UploadJob(dir, rel, c, to) IN
           /\ IsJob(j) /\ j.cmd = "upload" /\ j.all = {} /\ j.items = {} /\ j.dest = dir
           /\ j.rel = rel /\ j.content = c /\ j.to = to /\ j.at = 0
<1> DEFINE j == UploadJob(dir, rel, c, to)
           n0 == NewJob("upload")
<1>1. IsJob(n0) /\ n0.cmd = "upload" /\ n0.all = {} /\ n0.items = {} /\ n0.at = 0 BY NewJobOK
<1>2. j = [n0 EXCEPT !.dest = dir, !.rel = rel, !.content = c, !.to = to] BY DEF UploadJob
<1> HIDE DEF n0, j
<1>3. j = [pc |-> n0.pc, cmd |-> n0.cmd, all |-> n0.all, items |-> n0.items, item |-> n0.item,
          dest |-> dir, name |-> n0.name, rel |-> rel, at |-> n0.at, content |-> c, to |-> to,
          got |-> n0.got, taken |-> n0.taken, began |-> n0.began, tried |-> n0.tried,
          result |-> n0.result]
  BY <1>1, <1>2 DEF IsJob
<1>4. /\ IsJob(j) /\ j.cmd = "upload" /\ j.all = {} /\ j.items = {} /\ j.dest = dir
      /\ j.rel = rel /\ j.content = c /\ j.to = to /\ j.at = 0
  BY <1>1, <1>3 DEF IsJob
<1> QED BY <1>4 DEF j

LEMMA CreateOK == ASSUME DirInv, NEW t \in Tasks, Create(t) PROVE DirInv' /\ Started(t)
<1>1. PICK dir \in Shown, n \in FolderNames :
         Append(dir, Seg(n)) \in Dirs /\ Dispatch(t, dir, [NewJob("create") EXCEPT !.dest = dir, !.name = n])
  BY Zenon DEF Create
<1> DEFINE j == CreateJob(dir, n)
<1>2. contents' = contents BY DEF Create
<1>3. dir \in Dirs BY ShownDirs DEF DirInv
<1>4. IsJob(j) /\ j.cmd = "create" /\ j.all = {} /\ j.items = {} /\ j.dest = dir /\ j.name = n BY NewCreate
<1>5. Dispatch(t, dir, j) BY <1>1 DEF CreateJob
<1> HIDE DEF j
<1>6. ItemsOK(j) /\ CommandOK(j) /\ j.cmd \in Cmds /\ j.cmd # "upload" BY <1>1, <1>3, <1>4 DEF ItemsOK, CommandOK, Cmds
<1> QED BY <1>2, <1>3, <1>4, <1>5, <1>6, DispatchOK

LEMMA PickedOK == ASSUME DirInv, NEW dir \in Shown, NEW s \in Picked(dir) PROVE dir \in Dirs /\ \A i \in s : EntryOK(i)
BY ShownDirs, EntriesOK DEF Picked, DirInv

LEMMA DeleteOK == ASSUME DirInv, NEW t \in Tasks, Delete(t) PROVE DirInv' /\ Started(t)
<1>1. PICK dir \in Shown : \E s \in Picked(dir) : Dispatch(t, dir, [NewJob("delete") EXCEPT !.all = s, !.items = s])
  BY Zenon DEF Delete
<1>2. PICK s \in Picked(dir) : Dispatch(t, dir, [NewJob("delete") EXCEPT !.all = s, !.items = s]) BY <1>1, Zenon
<1> DEFINE j == DeleteJob(s)
<1>3. contents' = contents BY DEF Delete
<1>4. dir \in Dirs /\ \A i \in s : EntryOK(i) BY PickedOK
<1>5. IsJob(j) /\ j.cmd = "delete" /\ j.all = s /\ j.items = s BY NewDelete
<1>6. Dispatch(t, dir, j) BY <1>2 DEF DeleteJob
<1> HIDE DEF j
<1>7. ItemsOK(j) /\ CommandOK(j) /\ j.cmd \in Cmds /\ j.cmd # "upload" BY <1>4, <1>5 DEF ItemsOK, CommandOK, Cmds
<1> QED BY <1>3, <1>4, <1>5, <1>6, <1>7, DispatchOK

LEMMA MoveOK == ASSUME DirInv, NEW t \in Tasks, Move(t) PROVE DirInv' /\ Started(t)
<1>1. PICK dir \in Shown, dest \in Shown : \E s \in Picked(dir) :
         /\ \A i \in s : i.is_dir => Fits(i.key, Append(dest, leaf_of(i.key))) \/ Beneath(i.key, dest)
         /\ Dispatch(t, dir, [NewJob("move") EXCEPT !.all = s, !.items = s, !.dest = dest])
  BY Zenon DEF Move
<1>2. PICK s \in Picked(dir) :
         /\ \A i \in s : i.is_dir => Fits(i.key, Append(dest, leaf_of(i.key))) \/ Beneath(i.key, dest)
         /\ Dispatch(t, dir, [NewJob("move") EXCEPT !.all = s, !.items = s, !.dest = dest])
  BY <1>1, Zenon
<1> DEFINE j == MoveJob(s, dest)
<1>3. contents' = contents BY DEF Move
<1>4. dir \in Dirs /\ dest \in Dirs /\ \A i \in s : EntryOK(i) BY PickedOK, ShownDirs DEF DirInv
<1>5. IsJob(j) /\ j.cmd = "move" /\ j.all = s /\ j.items = s /\ j.dest = dest BY NewMove
<1>6. Dispatch(t, dir, j) BY <1>2 DEF MoveJob
<1> HIDE DEF j
<1>7. ItemsOK(j) /\ CommandOK(j) /\ j.cmd \in Cmds /\ j.cmd # "upload" BY <1>2, <1>4, <1>5 DEF ItemsOK, CommandOK, Cmds
<1> QED BY <1>3, <1>4, <1>5, <1>6, <1>7, DispatchOK

\* An entry of a directory is its child.
LEMMA EntryOf == ASSUME DirInv, NEW dir \in Shown, NEW i \in Entries(dir)
                 PROVE  EntryOK(i) /\ dir \in Dirs /\ parent_prefix(i.key) = dir
BY ShownDirs, EntriesOK DEF DirInv

LEMMA CalculateSizeOK == ASSUME DirInv, NEW t \in Tasks, CalculateSize(t) PROVE DirInv' /\ Started(t)
<1>1. PICK dir \in Shown : \E i \in Entries(dir) : Dispatch(t, dir, [NewJob("size") EXCEPT !.item = i])
  BY DEF CalculateSize
<1>2. PICK i \in Entries(dir) : Dispatch(t, dir, [NewJob("size") EXCEPT !.item = i]) BY <1>1
<1> DEFINE j == SizeJob(i)
<1>3. contents' = contents BY DEF CalculateSize
<1>4. dir \in Dirs /\ EntryOK(i) BY EntryOf
<1>5. IsJob(j) /\ j.cmd = "size" /\ j.all = {} /\ j.items = {} /\ j.item = i BY NewSize
<1>6. Dispatch(t, dir, j) BY <1>2 DEF SizeJob
<1> HIDE DEF j
<1>7. ItemsOK(j) /\ CommandOK(j) /\ j.cmd \in Cmds /\ j.cmd # "upload" BY <1>4, <1>5 DEF ItemsOK, CommandOK, Cmds
<1> QED BY <1>3, <1>4, <1>5, <1>6, <1>7, DispatchOK

LEMMA RenameOK == ASSUME DirInv, NEW t \in Tasks, Rename(t) PROVE DirInv' /\ Started(t)
<1>1. PICK dir \in Shown : \E i \in Entries(dir), n \in FolderNames \cup FileNames :
         /\ IF i.is_dir THEN n \in FolderNames /\ Fits(i.key, Append(dir, on_disk_segment(i.encrypted, n))) ELSE n \in FileNames
         /\ Dispatch(t, dir, [NewJob("rename") EXCEPT !.item = i, !.name = n, !.to = Append(dir, on_disk_segment(i.encrypted, n))])
  BY Zenon DEF Rename
<1>2. PICK i \in Entries(dir), n \in FolderNames \cup FileNames :
         /\ IF i.is_dir THEN n \in FolderNames /\ Fits(i.key, Append(dir, on_disk_segment(i.encrypted, n))) ELSE n \in FileNames
         /\ Dispatch(t, dir, [NewJob("rename") EXCEPT !.item = i, !.name = n, !.to = Append(dir, on_disk_segment(i.encrypted, n))])
  BY <1>1, Zenon
<1> DEFINE seg == on_disk_segment(i.encrypted, n)
           to == Append(dir, seg)
           j == RenameJob(i, n, to)
<1>3. contents' = contents BY Zenon DEF Rename
<1>4. dir \in Dirs /\ EntryOK(i) /\ parent_prefix(i.key) = dir BY EntryOf
<1>5. dir \in Path /\ seg \in Segs BY <1>4, DirsClosed, SegTypes
<1>6. parent_prefix(to) = dir /\ leaf_of(to) = seg /\ to # <<>> /\ to \in Path BY <1>5, AppendParent DEF Path
<1>7. n \in FileNames => seg \in FileSegs BY SegTypes
<1>8. Dispatch(t, dir, j) /\ (IF i.is_dir THEN n \in FolderNames /\ Fits(i.key, to) ELSE n \in FileNames) BY <1>2, Zenon DEF RenameJob
<1> HIDE DEF to, seg
<1>9. TargetOK(i, to) BY <1>4, <1>6, <1>7, <1>8 DEF TargetOK
<1>10. IsJob(j) /\ j.cmd = "rename" /\ j.all = {} /\ j.items = {} /\ j.item = i /\ j.to = to BY NewRename
<1> HIDE DEF j
<1>11. ItemsOK(j) /\ CommandOK(j) /\ j.cmd \in Cmds /\ j.cmd # "upload"
  BY <1>4, <1>6, <1>9, <1>10 DEF ItemsOK, CommandOK, Cmds
<1> QED BY <1>3, <1>4, <1>8, <1>10, <1>11, DispatchOK

LEMMA CommandUploadOK == ASSUME DirInv, NEW t \in Tasks, Upload(t) PROVE DirInv' /\ Started(t)
<1>1. PICK dir \in Shown, rel \in Rels :
         /\ parent_prefix(dir \o on_disk_path(e2ee, rel)) \in Dirs
         /\ Dispatch(t, dir, [NewJob("upload") EXCEPT !.dest = dir, !.rel = rel, !.content = contents + 1,
                                                      !.to = dir \o on_disk_path(e2ee, rel)])
  BY Zenon DEF Upload
<1> DEFINE to == dir \o on_disk_path(e2ee, rel)
           c == contents + 1
           j == UploadJob(dir, rel, c, to)
<1>2. contents' = c /\ contents \in Nat BY Zenon DEF Upload, DirInv
<1>3. dir \in Dirs BY ShownDirs DEF DirInv
<1>4. Dispatch(t, dir, j) /\ parent_prefix(to) \in Dirs BY <1>1, Zenon DEF UploadJob
<1>5. c \in 1 .. contents' /\ contents' \in {contents, contents + 1} BY <1>2
<1>6. to = dir \o on_disk_path(e2ee, rel) OBVIOUS
<1> HIDE DEF to, c
<1>7. /\ IsJob(j) /\ j.cmd = "upload" /\ j.all = {} /\ j.items = {} /\ j.dest = dir /\ j.rel = rel
      /\ j.content = c /\ j.to = to /\ j.at = 0
  BY NewUpload
<1> HIDE DEF j
<1>8. ItemsOK(j) /\ CommandOK(j) /\ j.cmd \in Cmds BY <1>7 DEF ItemsOK, CommandOK, Cmds
<1> QED BY <1>3, <1>4, <1>5, <1>6, <1>7, <1>8, DispatchOK

\* What a reader leaves as it is.
Walked == Like(tree, tree') /\ tree'.unheard = tree.unheard /\ tree'.known \subseteq tree.known \cup tree.dirs

LEMMA WalkOK == ASSUME DirInv, NEW dirs \in SUBSET Dirs, Walk(dirs) PROVE DirInv' /\ Walked
<1>1. /\ e2ee' = e2ee /\ contents' = contents /\ job' = job /\ call' = call /\ tree' = resolve_dir(tree, dirs)
      /\ buf' = LoadAll(dirs) \/ buf' = buf
  BY DEF Walk
<1>2. DOMAIN buf' \subseteq Dirs BY <1>1 DEF LoadAll, DirInv
<1>3. TreeOK(tree', contents) /\ Walked BY <1>1, ResolveOK DEF DirInv, Walked
<1>4. TreeOK(tree', contents') /\ tree'.kind = tree.kind BY <1>1, <1>3 DEF Walked, Like
<1>5. CallsOK(call') /\ IsFun' /\ contents' \in Nat /\ \A u \in Tasks : JobOK(job'[u], tree.kind, contents')
  BY <1>1 DEF DirInv, IsFun
<1> QED BY <1>1, <1>2, <1>3, <1>4, <1>5, StepOK

LEMMA ReadersOK == ASSUME DirInv, expand_folder \/ collect_folder_info PROVE DirInv' /\ Walked
<1>1. Shown \subseteq Dirs BY ShownDirs DEF DirInv
<1>2. \A dir \in Shown \ {<<>>} : parent_prefix(dir) \in Dirs BY <1>1, DirParent
<1>3. CASE expand_folder
  <2>1. PICK dir \in Shown : Walk({d \in Shown : Beneath(dir, d)}) BY <1>3 DEF expand_folder
  <2> QED BY <1>1, <2>1, WalkOK
<1>4. CASE collect_folder_info
  <2>1. PICK dir \in Shown \ {<<>>} : Walk({parent_prefix(dir)} \cup {d \in Shown : Beneath(dir, d)})
    BY <1>4 DEF collect_folder_info
  <2>2. {parent_prefix(dir)} \cup {d \in Shown : Beneath(dir, d)} \in SUBSET Dirs BY <1>1, <1>2
  <2> QED BY <2>1, <2>2, WalkOK
<1> QED BY <1>3, <1>4

LEMMA CrashOK == ASSUME DirInv, Crash PROVE DirInv' /\ tree'.obj = tree.obj
<1>1. /\ e2ee' = e2ee /\ contents' = contents /\ job' = [t \in Tasks |-> Answered("none")]
      /\ tree' = [tree EXCEPT !.known = {}] /\ buf' = <<>> /\ call' = [t \in Tasks |-> NoCall]
  BY Zenon DEF Crash
<1>5. CallsOK(call') BY <1>1, NoCallOK DEF CallsOK
<1>2. TreeOK(tree', contents') /\ tree'.kind = tree.kind /\ tree'.obj = tree.obj /\ contents' \in Nat
  BY <1>1, NothingKnown DEF DirInv
<1>3. DOMAIN buf' \subseteq Dirs BY <1>1
<1>4. IsFun' /\ \A t \in Tasks : JobOK(job'[t], tree.kind, contents') BY <1>1, IdleJob DEF IsFun
<1> QED BY <1>1, <1>2, <1>3, <1>4, <1>5, StepOK

LEMMA DirStep == ASSUME DirInv, [Next]_vars PROVE DirInv'
<1>1. CASE UNCHANGED vars
  <2>1. e2ee' = e2ee /\ contents' = contents /\ job' = job /\ tree' = tree /\ buf' = buf /\ call' = call BY <1>1 DEF vars, tasks
  <2> QED BY <2>1, StepOK DEF DirInv, IsFun
<1>2. ASSUME NEW t \in Tasks, Command(t) PROVE DirInv'
  BY <1>2, CreateOK, DeleteOK, MoveOK, RenameOK, CalculateSizeOK, CommandUploadOK DEF Command
<1>3. ASSUME NEW t \in Tasks, Step(t) PROVE DirInv'
  BY <1>3, CreateMakeOK, DeleteListOK, DeleteRemoveOK, DeleteRmdirOK, MoveNextOK, RenameCheckOK, RenameListOK,
     RenameCopyOK, RenameRemoveOK, RenameRmdirOK, MoveTakeOK, MoveInsertOK, SizeListOK, UploadPrepareOK,
     UploadPutOK, EditStepOK, FlushStepOK, RetryOK, GiveUpOK, NoteOK, Zenon
     DEF Step
<1>4. CASE FlushTimer BY <1>4, FlushTimerOK
<1>5. CASE expand_folder \/ collect_folder_info BY <1>5, ReadersOK
<1>6. CASE Crash BY <1>6, CrashOK
<1> QED BY <1>1, <1>2, <1>3, <1>4, <1>5, <1>6 DEF Next

LEMMA DirInit == Init => DirInv
<1> SUFFICES ASSUME Init PROVE DirInv OBVIOUS
<1>1. PICK kind \in Kinds, enc \in Modes, d \in OldFolder, f \in FileNames :
         LET dir == on_disk_path(enc, <<d>>)
             manifests == With(With(<<>>, manifest_object_key(<<>>), upsert_folder(Default, d)),
                               manifest_object_key(dir), upsert_file(Default, f, 1))
         IN /\ e2ee = enc
            /\ tree = [kind |-> kind, dirs |-> {<<>>, dir}, known |-> {}, refused |-> {}, unheard |-> {},
                       obj |-> With(IF enc THEN manifests ELSE <<>>, Append(dir, on_disk_segment(enc, f)), 1)]
            /\ buf = <<>> /\ job = [t \in Tasks |-> Answered("none")] /\ contents = 1
            /\ call = [t \in Tasks |-> NoCall]
  BY Zenon DEF Init
<1> DEFINE dir == on_disk_path(e2ee, <<d>>)
           key == Append(dir, Seg(f))
           manifests == With(With(<<>>, manifest_object_key(<<>>), upsert_folder(Default, d)),
                             manifest_object_key(dir), upsert_file(Default, f, 1))
           obj == With(IF e2ee THEN manifests ELSE <<>>, key, 1)
<1>2. /\ tree = [kind |-> kind, dirs |-> {<<>>, dir}, known |-> {}, refused |-> {}, unheard |-> {}, obj |-> obj]
      /\ call = [t \in Tasks |-> NoCall]
      /\ buf = <<>> /\ job = [t \in Tasks |-> Answered("none")] /\ contents = 1
  BY <1>1 DEF Seg
<1>3. dir \in Dirs /\ <<>> \in Dirs BY RootIsDir, DirOpsAssumption DEF DirOpsAssumption, Dirs
<1> HIDE DEF dir
<1>4. KeyOK(manifest_object_key(<<>>)) /\ KeyOK(manifest_object_key(dir)) /\
      leaf_of(manifest_object_key(<<>>)) = MANIFEST_KEY /\ leaf_of(manifest_object_key(dir)) = MANIFEST_KEY
  BY <1>3, ManifestKey
<1>5. KeyOK(key)
  <2>1. dir \in Path /\ Seg(f) \in Segs /\ Seg(f) \in FileSegs BY <1>3, DirsClosed, SegTypes DEF Seg
  <2> QED BY <1>3, <2>1, AppendParent DEF KeyOK, Path
<1>6. ASSUME NEW k \in DOMAIN obj PROVE KeyOK(k) /\ (leaf_of(k) # MANIFEST_KEY => obj[k] \in 1 .. 1)
  <2> HIDE DEF key
  <2>1. k = key \/ (e2ee /\ k \in DOMAIN manifests) BY DEF With
  <2>2. DOMAIN manifests = {manifest_object_key(<<>>), manifest_object_key(dir)} BY DEF With
  <2>3. obj[key] = 1 BY DEF With
  <2> QED BY <1>4, <1>5, <2>1, <2>2, <2>3
<1> HIDE DEF obj
<1>7. IsTree(tree) /\ tree.kind = kind /\ tree.dirs = {<<>>, dir} /\ tree.known = {} /\ tree.obj = obj BY <1>2 DEF IsTree
<1>8. TreeOK(tree, contents) BY <1>2, <1>3, <1>6, <1>7 DEF TreeOK, Keys, FilesIn, is_manifest_key
<1>9. IsFun /\ \A t \in Tasks : JobOK(job[t], tree.kind, contents) BY <1>2, IdleJob DEF IsFun
<1>10. CallsOK(call) BY <1>2, NoCallOK DEF CallsOK
<1> QED BY <1>2, <1>8, <1>9, <1>10 DEF DirInv

-----------------------------------------------------------------------------

\* DirInv is an invariant of every behaviour.
THEOREM DirInvariant == Spec => []DirInv
<1>1. Init => DirInv BY DirInit
<1>2. DirInv /\ [Next]_vars => DirInv' BY DirStep
<1> QED BY <1>1, <1>2, PTL DEF Spec

\* Type correctness of the tree, the buffer and the tasks: every file is in a directory
\* there may be, and every content is one that was uploaded.
THEOREM DirTypes == Spec => []TypeOK
<1>1. DirInv => TypeOK
  <2> SUFFICES ASSUME DirInv PROVE TypeOK OBVIOUS
  <2>1. /\ tree.kind \in Kinds /\ tree.dirs \subseteq Dirs /\ <<>> \in tree.dirs /\ tree.known \subseteq Dirs
        /\ DOMAIN buf \subseteq Dirs
    BY DEF DirInv, TreeOK
  <2>2. \A k \in Files : parent_prefix(k) \in Dirs /\ tree.obj[k] \in 1 .. contents
    BY DEF DirInv, TreeOK, Files, FilesIn, KeyOK
  <2>3. \A t \in Tasks : job[t].pc \in Pcs BY DEF DirInv, JobOK, PcOK
  <2> QED BY <2>1, <2>2, <2>3 DEF TypeOK, Pcs
<1> QED BY <1>1, DirInvariant, PTL

-----------------------------------------------------------------------------
(* No file is lost *)

\* No directory there may be has a name twice on its path.  run_move is not safe
\* without this: <<"a", "a">> moved to the root goes to <<"a">>, which it is in.
NoneNested == \A d \in DirNames : \A m, n \in 1 .. Len(d) : d[m] = d[n] => m = n

LEMMA NoneNestedDirs ==
    ASSUME NoneNested, NEW d \in Dirs, NEW m \in 1 .. Len(d), NEW n \in 1 .. Len(d), d[m] = d[n]
    PROVE  m = n
<1>1. PICK p \in DirNames : d = on_disk_path(e2ee, p) BY DEF Dirs
<1>2. p \in Seq(FolderNames) BY DirOpsAssumption DEF DirOpsAssumption
<1>3. \A x \in FolderNames : on_disk_segment(e2ee, x) \in Segs /\ on_disk_segment(e2ee, x)[2] = x BY SegTypes
<1>4. Len(d) = Len(p) /\ \A i \in 1 .. Len(p) : d[i] = on_disk_segment(e2ee, p[i]) BY <1>1, <1>2, <1>3, PathOf
<1>5. p[m] \in FolderNames /\ p[n] \in FolderNames BY <1>2, <1>4, ElementOfSeq
<1>6. p[m] = p[n] BY <1>3, <1>4, <1>5
<1> QED BY <1>4, <1>6 DEF NoneNested

\* Of two keys of one length, neither is beneath the other.
LEMMA SameLength ==
    ASSUME NEW S, NEW a \in Seq(S), NEW b \in Seq(S), Len(a) = Len(b), Beneath(a, b)
    PROVE  a = b
BY BeneathIff, SeqEqual

\* Where a folder goes is not in it, and it is not in there.
LEMMA GoesApart ==
    ASSUME NoneNested, NEW j, NEW kind, NEW n, JobOK(j, kind, n), j.cmd \in {"move", "rename"},
           j.pc \in {"list", "copy", "remove", "rmdir", "take", "insert"}, j.item.is_dir
    PROVE  ~Beneath(j.item.key, j.to) /\ ~Beneath(j.to, j.item.key)
<1> DEFINE key == j.item.key
           to == j.to
<1>1. EntryOK(j.item) /\ TargetOK(j.item, to) /\ to # key BY DEF JobOK, UnderWay
<1>2. key \in Seq(Segs) /\ to \in Seq(Segs) /\ key # <<>> /\ to # <<>> /\ key \in Dirs BY <1>1 DEF EntryOK, TargetOK, Path
<1>3. Len(key) \in Nat /\ Len(to) \in Nat /\ Len(key) = Len(parent_prefix(key)) + 1 /\ Len(to) = Len(parent_prefix(to)) + 1
  <2>1. Len(parent_prefix(key)) = Len(key) - 1 /\ Len(key) \in Nat \ {0} BY <1>2, ParentLeaf
  <2>2. Len(parent_prefix(to)) = Len(to) - 1 /\ Len(to) \in Nat \ {0} BY <1>2, ParentLeaf
  <2> QED BY <2>1, <2>2
<1>4. CASE j.cmd = "rename"
  <2>1. parent_prefix(to) = parent_prefix(key) BY <1>4 DEF JobOK, CommandOK
  <2>2. Len(to) = Len(key) BY <1>3, <2>1
  <2> QED BY <1>1, <1>2, <2>2, SameLength
<1>5. CASE j.cmd = "move"
  <2>1. to = Append(j.dest, leaf_of(key)) /\ ~Beneath(key, j.dest) /\ j.dest \in Dirs
    BY <1>5 DEF JobOK, UnderWay, CommandOK
  <2>2. j.dest \in Seq(Segs) BY <2>1, DirsClosed DEF Path
  <2>3. leaf_of(key) \in Segs BY <1>2, ParentLeaf
  <2>4. parent_prefix(to) = j.dest /\ leaf_of(to) = leaf_of(key) BY <2>1, <2>2, <2>3, AppendParent
  <2>5. \A i \in 1 .. Len(to) - 1 : j.dest[i] = to[i] BY <1>2, <2>4, ParentLeaf, SMTT(30)
  <2>6. Len(j.dest) = Len(to) - 1 /\ Len(j.dest) \in Nat BY <1>3, <2>2, <2>4, LenProperties
  <2> HIDE DEF key, to
  <2>7. ~Beneath(key, to)
    <3> SUFFICES ASSUME Beneath(key, to) PROVE FALSE OBVIOUS
    <3>1. Len(key) <= Len(to) /\ \A i \in 1 .. Len(key) : to[i] = key[i] BY <1>2, BeneathIff
    <3>2. CASE Len(key) = Len(to) BY <1>1, <1>2, <3>2, SameLength DEF key, to
    <3>3. CASE Len(key) # Len(to)
      <4>1. Len(key) <= Len(j.dest) /\ \A i \in 1 .. Len(key) : i \in 1 .. Len(to) - 1 BY <1>3, <2>6, <3>1, <3>3
      <4>2. \A i \in 1 .. Len(key) : j.dest[i] = key[i] BY <2>5, <3>1, <4>1
      <4>3. Beneath(key, j.dest) BY <1>2, <2>2, <4>1, <4>2, BeneathIff
      <4> QED BY <2>1, <4>3
    <3> QED BY <3>2, <3>3
  <2>8. ~Beneath(to, key)
    <3> SUFFICES ASSUME Beneath(to, key) PROVE FALSE OBVIOUS
    <3>1. Len(to) <= Len(key) /\ \A i \in 1 .. Len(to) : key[i] = to[i] BY <1>2, BeneathIff
    <3>2. CASE Len(key) = Len(to) BY <1>1, <1>2, <3>2, SameLength DEF key, to
    <3>3. CASE Len(key) # Len(to)
      <4>1. Len(to) \in 1 .. Len(key) /\ Len(key) \in 1 .. Len(key) /\ Len(to) \in 1 .. Len(to) BY <1>3, <2>6, <3>1
      <4>2. key[Len(to)] = key[Len(key)] BY <2>4, <3>1, <4>1 DEF leaf_of
      <4>3. Len(to) = Len(key) BY <1>2, <4>1, <4>2, NoneNestedDirs
      <4> QED BY <3>3, <4>3
    <3> QED BY <3>2, <3>3
  <2> QED BY <2>7, <2>8 DEF key, to
<1> QED BY <1>4, <1>5

IsMove(j) == j.cmd \in {"move", "rename"}

\* What the removing half of a rename is about to take away.
Doomed(j, kind, k) ==
    /\ IsMove(j) /\ j.pc = "remove"
    /\ IF kind = "s3" THEN k \in j.got \cup {j.item.key}
       ELSE IF j.item.is_dir THEN Beneath(j.item.key, k) ELSE k = j.item.key

\* What is in a folder that is being copied, and came after it was listed.
Late(j, kind, k) == /\ IsMove(j) /\ j.pc = "copy" /\ kind # "s3" /\ j.item.is_dir
                    /\ Beneath(j.item.key, k) /\ k \notin j.got

Safe(k) == \A t \in Tasks : ~Doomed(job[t], tree.kind, k)

\* Every content has a key that no rename is about to take away.
Sheltered == \A c \in acked : c \in gone \cup strayed \/ \E k \in Files : tree.obj[k] = c /\ Safe(k)
LateComers == \A t \in Tasks : \A k \in Files : Late(job[t], tree.kind, k) => tree.obj[k] \in gone \cup strayed

LostInv == Sheltered /\ LateComers

Calm(j) == ~(IsMove(j) /\ j.pc \in {"copy", "remove"})
Kept1 == UNCHANGED <<acked, gone, strayed>>

\* A step that leaves the files alone and begins no copy and no removal.
LEMMA CalmStep ==
    ASSUME LostInv, SameFiles(tree, tree'), tree'.kind = tree.kind, Kept1,
           \A u \in Tasks : job'[u] = job[u] \/ Calm(job'[u])
    PROVE  LostInv'
<1>1. Files' = Files /\ \A k \in Files : tree'.obj[k] = tree.obj[k] BY DEF SameFiles, Files, FilesIn, Keys
<1>2. \A u \in Tasks : \A k : /\ Doomed(job'[u], tree.kind, k) => Doomed(job[u], tree.kind, k)
                              /\ Late(job'[u], tree.kind, k) => Late(job[u], tree.kind, k)
  BY DEF Calm, Doomed, Late
<1>3. \A k : Safe(k) => Safe(k)' BY <1>2 DEF Safe, Doomed, IsMove
<1>4. Sheltered' BY <1>1, <1>3 DEF LostInv, Sheltered, Kept1
<1>5. LateComers'
  <2> SUFFICES ASSUME NEW t \in Tasks, NEW k \in Files', Late(job[t], tree.kind, k)' PROVE (tree.obj[k] \in gone \cup strayed)'
    BY DEF LateComers
  <2>1. Late(job'[t], tree.kind, k) BY DEF Late, IsMove
  <2>2. tree.obj[k] \in gone \cup strayed BY <1>1, <1>2, <2>1 DEF LostInv, LateComers
  <2> QED BY <1>1, <2>2 DEF Kept1
<1> QED BY <1>4, <1>5 DEF LostInv

LEMMA SameObjects == ASSUME NEW tr, NEW new, new.obj = tr.obj PROVE SameFiles(tr, new)
BY DEF SameFiles, FilesIn, Keys

LEMMA CalmTask ==
    ASSUME DirInv, LostInv, NEW t \in Tasks, NEW j, job' = [job EXCEPT ![t] = j], Calm(j),
           SameFiles(tree, tree'), tree'.kind = tree.kind, Kept1
    PROVE  LostInv'
<1>1. \A u \in Tasks : job'[u] = job[u] \/ job'[u] = j BY DEF DirInv, IsFun
<1>2. \A u \in Tasks : job'[u] = job[u] \/ Calm(job'[u]) BY <1>1
<1> QED BY <1>2, CalmStep

LEMMA CalmPlaces ==
    ASSUME DirInv, NEW t \in Tasks
    PROVE  /\ \A p : p \notin {"copy", "remove"} => Calm(Goes(t, p))
           /\ \A x : Calm(Answered(x))
<1>1. ASSUME NEW p, p \notin {"copy", "remove"} PROVE Calm(Goes(t, p))
  <2>1. Goes(t, p).pc = p BY GoesTo
  <2> QED BY <1>1, <2>1 DEF Calm
<1>2. ASSUME NEW x PROVE Calm(Answered(x)) BY DEF Calm, IsMove, Answered
<1> QED BY <1>1, <1>2

LEMMA CalmAsks ==
    ASSUME DirInv, LostInv, NEW t \in Tasks, NEW outcomes, NEW j, NEW c, Asks(t, outcomes, j, c), Calm(j),
           \A o \in outcomes : TreeOK(o.tree, contents) /\ o.tree.obj = tree.obj /\ o.tree.kind = tree.kind, Kept1
    PROVE  LostInv'
<1>0. TreeOK(tree, contents) BY DEF DirInv
<1>1. PICK o \in outcomes : Heard(t, o, j, c) \/ Unanswered(t, o) BY <1>0, AsksEnds
<1>2. tree'.obj = tree.obj /\ tree'.kind = tree.kind BY <1>1 DEF Heard, Unanswered, Like
<1>3. PICK r \in {j, Goes(t, "failed")} : job' = [job EXCEPT ![t] = r] BY <1>1, Zenon DEF Heard, Unanswered
<1>4. Calm(r) BY <1>3, CalmPlaces
<1> QED BY <1>2, <1>3, <1>4, CalmTask, SameObjects

LEMMA CalmRequest ==
    ASSUME DirInv, LostInv, NEW t \in Tasks, NEW outcomes, NEW j, Request(t, outcomes, j), Calm(j),
           \A o \in outcomes : TreeOK(o.tree, contents) /\ o.tree.obj = tree.obj /\ o.tree.kind = tree.kind, Kept1
    PROVE  LostInv'
BY CalmAsks DEF Request

LEMMA CalmLeaves ==
    ASSUME DirInv, LostInv, NEW t \in Tasks, NEW j, Leaves(t, j), Calm(j), Kept1
    PROVE  LostInv'
BY CalmTask, SameObjects DEF Leaves, Becomes

\* The turns of the two loops, and what is noted in between.
LEMMA CalmPrepare ==
    ASSUME DirInv, LostInv, NEW t \in Tasks, NEW dir \in Dirs, Prepare(t, dir), Calm(job[t]), Kept1
    PROVE  LostInv'
<1>1. PICK n \in 1 .. Len(dir) :
         /\ SubSeq(dir, 1, n) \in Dirs /\ tree.kind # "s3"
         /\ Asks(t, prepare_parents(tree, SubSeq(dir, 1, n)), job[t], [NoCall EXCEPT !.way = n])
  BY WayOf
<1> DEFINE d == SubSeq(dir, 1, n)
           c == [NoCall EXCEPT !.way = n]
<1>2. TreeOK(tree, contents) BY DEF DirInv
<1>3. \A o \in prepare_parents(tree, d) : TreeOK(o.tree, contents) /\ o.tree.obj = tree.obj /\ o.tree.kind = tree.kind
  BY <1>1, <1>2, PrepareOK
<1>4. Asks(t, prepare_parents(tree, d), job[t], c) BY <1>1
<1> HIDE DEF c, d
<1> QED BY <1>3, <1>4, CalmAsks

LEMMA CalmRmdir ==
    ASSUME DirInv, LostInv, NEW t \in Tasks, Rmdir(t), tree.kind # "s3", Calm(job[t]), Kept1
    PROVE  LostInv'
<1> DEFINE left == call[t].left
<1>1. PICK d \in left : Asks(t, rmdir(tree, d), job[t], [NoCall EXCEPT !.left = left \ {d}]) BY Zenon DEF Rmdir
<1> DEFINE c == [NoCall EXCEPT !.left = left \ {d}]
<1>2. TreeOK(tree, contents) BY DEF DirInv
<1>3. d # <<>> BY <1>1 DEF DirInv, CallsOK, CallOK
<1>4. \A o \in rmdir(tree, d) : TreeOK(o.tree, contents) /\ o.tree.obj = tree.obj /\ o.tree.kind = tree.kind
  BY <1>2, <1>3, RmdirOK
<1> HIDE DEF c
<1> QED BY <1>1, <1>4, CalmAsks DEF c

LEMMA NoteKeeps == ASSUME DirInv, LostInv, NEW t \in Tasks, Note(t) PROVE LostInv'
<1>1. job' = job /\ Kept1 BY DEF Note, Kept1, history
<1>2. tree'.obj = tree.obj /\ tree'.kind = tree.kind BY NoteOK DEF Like
<1> QED BY <1>1, <1>2, CalmStep, SameObjects

LEMMA CalmAsk ==
    ASSUME DirInv, LostInv, NEW t \in Tasks, NEW ok, NEW j, Request(t, {Outcome(tree, ok)}, j), Calm(j), Kept1
    PROVE  LostInv'
<1>1. \A o \in {Outcome(tree, ok)} : TreeOK(o.tree, contents) /\ o.tree.obj = tree.obj /\ o.tree.kind = tree.kind
  BY DEF Outcome, DirInv
<1> HIDE DEF Outcome
<1> QED BY <1>1, CalmRequest

LEMMA CreateMakeKeeps == ASSUME DirInv, LostInv, NEW t \in Tasks, CreateMake(t) PROVE LostInv'
<1> DEFINE j == job[t]
           key == Append(j.dest, Seg(j.name))
           next == IF e2ee THEN Goes(t, "edit") ELSE Answered("ok")
<1>1. JobOK(j, tree.kind, contents) /\ TreeOK(tree, contents) BY TheJob
<1>2. /\ j.pc = "start" /\ j.cmd = "create" /\ Kept1
      /\ \/ Request(t, Ok([tree EXCEPT !.dirs = @ \cup {key}]), next)
         \/ Prepare(t, key) \/ Leaves(t, next)
  BY Zenon DEF CreateMake, Kept1, history
<1>3. key \in Dirs BY <1>1, <1>2 DEF JobOK, CommandOK
<1>4. Calm(next) BY CalmPlaces
<1>5. Calm(j) BY <1>2 DEF Calm
<1> HIDE DEF next, key
<1>6. CASE Request(t, Ok([tree EXCEPT !.dirs = @ \cup {key}]), next)
  <2> DEFINE outcomes == Ok([tree EXCEPT !.dirs = @ \cup {key}])
  <2>1. \A o \in outcomes : TreeOK(o.tree, contents) /\ o.tree.obj = tree.obj /\ o.tree.kind = tree.kind
    BY <1>1, <1>3, MarkerOK
  <2> HIDE DEF outcomes
  <2> QED BY <1>2, <1>4, <1>6, <2>1, CalmRequest DEF outcomes
<1>7. CASE Prepare(t, key) BY <1>2, <1>3, <1>5, <1>7, CalmPrepare
<1>8. CASE Leaves(t, next) BY <1>2, <1>4, <1>8, CalmLeaves
<1> QED BY <1>2, <1>6, <1>7, <1>8

LEMMA DeleteListKeeps == ASSUME DirInv, LostInv, NEW t \in Tasks, DeleteList(t) PROVE LostInv'
<1> DEFINE j == job[t]
           dirs == {i.key : i \in {x \in j.items : x.is_dir}}
           got == (UNION {list_recursive(tree, d) : d \in dirs}) \cup {i.key : i \in j.items}
           next == [Goes(t, "remove") EXCEPT !.got = got]
<1>1. /\ j.cmd = "delete" /\ Request(t, {Outcome(tree, \A d \in dirs : Listable(tree, d))}, next) /\ Kept1
  BY DEF DeleteList, Kept1, history
<1>2. IsJob(Goes(t, "remove")) /\ Goes(t, "remove").cmd = "delete" BY <1>1, GoesTo
<1> HIDE DEF got
<1>3. SameBut(next, Goes(t, "remove")) BY <1>2, JobGot
<1>4. Calm(next) BY <1>2, <1>3 DEF SameBut, Calm, IsMove
<1> HIDE DEF next
<1> QED BY <1>1, <1>4, CalmAsk

\* The task of a delete stays one.
LEMMA CalmDeleted == ASSUME DirInv, NEW t \in Tasks, job[t].cmd = "delete", NEW i PROVE Calm(Deleted(t, i))
<1> DEFINE j == job[t]
<1>1. ASSUME NEW p, NEW its PROVE Calm([Goes(t, p) EXCEPT !.items = its])
  <2>1. IsJob(Goes(t, p)) /\ Goes(t, p).cmd = "delete" BY GoesTo
  <2>2. SameBut([Goes(t, p) EXCEPT !.items = its], Goes(t, p)) BY <2>1, JobItems
  <2> QED BY <2>1, <2>2 DEF SameBut, Calm, IsMove
<1>2. CASE j.items # {i}
  <2>1. Goes(t, "remove").items = j.items BY GoesTo
  <2>2. Calm([Goes(t, "remove") EXCEPT !.items = j.items \ {i}]) BY <1>1
  <2> QED BY <1>2, <2>1, <2>2 DEF Deleted
<1>3. CASE j.items = {i} /\ e2ee
  <2>1. Calm([Goes(t, "edit") EXCEPT !.items = j.all]) BY <1>1
  <2> QED BY <1>3, <2>1 DEF Deleted
<1>4. CASE j.items = {i} /\ ~e2ee BY <1>4, CalmPlaces DEF Deleted
<1> QED BY <1>2, <1>3, <1>4

LEMMA DeleteRmdirKeeps == ASSUME DirInv, LostInv, NEW t \in Tasks, DeleteRmdir(t) PROVE LostInv'
<1> DEFINE j == job[t]
<1>1. JobOK(j, tree.kind, contents) /\ TreeOK(tree, contents) BY TheJob
<1>2. j.pc = "rmdir" /\ j.cmd = "delete" /\ Kept1 /\ (Rmdir(t) \/ Leaves(t, Deleted(t, j.item)))
  BY DEF DeleteRmdir, Kept1, history
<1>3. tree.kind # "s3" BY <1>1, <1>2 DEF JobOK, PcOK
<1>4. Calm(Deleted(t, j.item)) /\ Calm(j) BY <1>2, CalmDeleted DEF Calm
<1> QED BY <1>2, <1>3, <1>4, CalmRmdir, CalmLeaves

LEMMA MoveNextKeeps == ASSUME DirInv, LostInv, NEW t \in Tasks, MoveNext(t) PROVE LostInv'
<1> DEFINE j == job[t]
<1>1. tree' = tree /\ Kept1 BY Zenon DEF MoveNext, Kept1, history
<1>2. IsJob(j) BY TheJob DEF JobOK
<1>3. CASE j.items = {}
  <2> DEFINE next == IF e2ee THEN Goes(t, "flush") ELSE Answered("ok")
  <2>1. job' = [job EXCEPT ![t] = next] BY <1>3 DEF MoveNext, Becomes
  <2>2. Calm(next) BY CalmPlaces
  <2> HIDE DEF next
  <2> QED BY <1>1, <2>1, <2>2, CalmTask, SameObjects
<1>4. CASE j.items # {}
  <2>1. PICK i \in j.items :
            LET to == Append(job[t].dest, leaf_of(i.key))
                skip == to = i.key \/ (i.is_dir /\ Beneath(i.key, job[t].dest))
            IN Becomes(t, [job[t] EXCEPT !.items = @ \ {i}, !.item = i, !.to = to,
                                         !.pc = IF skip THEN "start" ELSE "list"])
    BY <1>4, Zenon DEF MoveNext
  <2> DEFINE to == Append(j.dest, leaf_of(i.key))
             p == IF to = i.key \/ (i.is_dir /\ Beneath(i.key, j.dest)) THEN "start" ELSE "list"
             r == [j EXCEPT !.items = j.items \ {i}, !.item = i, !.to = to, !.pc = p]
  <2>2. job' = [job EXCEPT ![t] = r] BY <2>1 DEF Becomes
  <2>3. p \in {"start", "list"} OBVIOUS
  <2> HIDE DEF to, p, j
  <2>4. r.pc = p BY <1>2 DEF IsJob
  <2> HIDE DEF r
  <2>5. Calm(r) BY <2>3, <2>4 DEF Calm
  <2> QED BY <1>1, <2>2, <2>5, CalmTask, SameObjects
<1> QED BY <1>3, <1>4

LEMMA RenameCheckKeeps == ASSUME DirInv, LostInv, NEW t \in Tasks, RenameCheck(t) PROVE LostInv'
<1> DEFINE j == job[t]
           next == IF j.to = j.item.key THEN Answered("ok") ELSE Goes(t, "list")
<1>1. Kept1 /\ \E ok : Request(t, {Outcome(tree, ok)}, next) BY Zenon DEF RenameCheck, Kept1, history
<1>2. Calm(next) BY CalmPlaces
<1> HIDE DEF next
<1> QED BY <1>1, <1>2, CalmAsk

LEMMA CalmAfterRename == ASSUME DirInv, NEW t \in Tasks, Moving(t) PROVE Calm(AfterRename(t))
<1>1. CASE job[t].cmd = "move" BY <1>1, CalmPlaces DEF AfterRename
<1>2. CASE job[t].cmd = "rename" BY <1>2, CalmPlaces DEF AfterRename
<1> QED BY <1>1, <1>2 DEF Moving

LEMMA RenameRmdirKeeps == ASSUME DirInv, LostInv, NEW t \in Tasks, RenameRmdir(t) PROVE LostInv'
<1> DEFINE j == job[t]
<1>1. JobOK(j, tree.kind, contents) /\ TreeOK(tree, contents) BY TheJob
<1>2. j.pc = "rmdir" /\ Moving(t) /\ Kept1 /\ (Rmdir(t) \/ Leaves(t, AfterRename(t)))
  BY DEF RenameRmdir, Kept1, history
<1>3. tree.kind # "s3" BY <1>1, <1>2 DEF JobOK, PcOK
<1>4. Calm(AfterRename(t)) /\ Calm(j) BY <1>2, CalmAfterRename DEF Calm
<1> QED BY <1>2, <1>3, <1>4, CalmRmdir, CalmLeaves

LEMMA CalmTaken ==
    ASSUME DirInv, NEW t \in Tasks, NEW p \in {"start", "insert"}, NEW x
    PROVE  Calm([Goes(t, p) EXCEPT !.taken = x])
<1>1. IsJob(Goes(t, p)) /\ Goes(t, p).pc = p BY GoesTo
<1>2. SameBut([Goes(t, p) EXCEPT !.taken = x], Goes(t, p)) BY <1>1, JobTaken
<1> QED BY <1>1, <1>2 DEF SameBut, Calm

LEMMA MoveTakeKeeps == ASSUME DirInv, LostInv, NEW t \in Tasks, MoveTake(t) PROVE LostInv'
<1> DEFINE got == take_entry(View(parent_prefix(job[t].item.key)), job[t].item.name)
           next == [Goes(t, IF got.entry = {} THEN "start" ELSE "insert") EXCEPT !.taken = got.entry]
<1>1. tree' = tree /\ Kept1 /\ (Becomes(t, next) \/ Becomes(t, Goes(t, "start"))) BY Zenon DEF MoveTake, Kept1
<1>2. Calm(next) /\ Calm(Goes(t, "start")) BY CalmTaken, CalmPlaces
<1> HIDE DEF next
<1> QED BY <1>1, <1>2, CalmTask, SameObjects DEF Becomes

LEMMA MoveInsertKeeps == ASSUME DirInv, LostInv, NEW t \in Tasks, MoveInsert(t) PROVE LostInv'
<1> DEFINE next == [Goes(t, "start") EXCEPT !.taken = {}]
<1>1. tree' = tree /\ Kept1 /\ Becomes(t, next) BY Zenon DEF MoveInsert, Kept1
<1>2. Calm(next) BY CalmTaken
<1> HIDE DEF next
<1> QED BY <1>1, <1>2, CalmTask, SameObjects DEF Becomes

LEMMA SizeListKeeps == ASSUME DirInv, LostInv, NEW t \in Tasks, SizeList(t) PROVE LostInv'
<1> DEFINE next == IF job[t].item.encrypted THEN Goes(t, "edit") ELSE Answered("ok")
<1>1. Kept1 /\ \E ok : Request(t, {Outcome(tree, ok)}, next) BY DEF SizeList, Kept1, history
<1>2. Calm(next) BY CalmPlaces
<1> HIDE DEF next
<1> QED BY <1>1, <1>2, CalmAsk

LEMMA UploadPrepareKeeps == ASSUME DirInv, LostInv, NEW t \in Tasks, UploadPrepare(t) PROVE LostInv'
<1> DEFINE j == job[t]
           dir == parent_prefix(j.to)
<1>1. JobOK(j, tree.kind, contents) BY TheJob
<1>2. j.pc = "start" /\ j.cmd = "upload" /\ Kept1 /\ (Prepare(t, dir) \/ Leaves(t, Goes(t, "put")))
  BY DEF UploadPrepare, Kept1, history
<1>3. dir \in Dirs BY <1>1, <1>2 DEF JobOK, UploadOK
<1>4. Calm(Goes(t, "put")) /\ Calm(j) BY <1>2, CalmPlaces DEF Calm
<1> QED BY <1>2, <1>3, <1>4, CalmPrepare, CalmLeaves

LEMMA EditStepKeeps == ASSUME DirInv, LostInv, NEW t \in Tasks, EditStep(t) PROVE LostInv'
<1> DEFINE j == job[t]
<1>1. PICK e \in EditsOf(t) : Becomes(t, e[3]) \/ Becomes(t, Unedited(t, e[3])) BY Zenon DEF EditStep
<1>2. j.pc = "edit" /\ tree' = tree /\ Kept1 BY Zenon DEF EditStep, Kept1
<1>3. JobOK(j, tree.kind, contents) BY TheJob
<1>4. j.cmd \in {"create", "rename", "size", "delete", "upload"} /\ IsJob(j) BY <1>2, <1>3 DEF JobOK, PcOK
<1>5. Calm(Goes(t, "flush")) /\ Calm(Goes(t, "failed")) BY CalmPlaces
<1>6. Calm(e[3])
  <2>1. CASE j.cmd \in {"create", "rename", "size"}
    <3> DEFINE parent == parent_prefix(j.item.key)
    <3>1. CASE j.cmd = "create"
      <4>1. e = <<j.dest, upsert_folder(View(j.dest), j.name), Goes(t, "flush"), {}>> BY <3>1 DEF EditsOf
      <4> QED BY <1>5, <4>1
    <3>2. CASE j.cmd = "rename"
      <4>1. e = <<parent, rename_entry(View(parent), j.item.name, j.name), Goes(t, "flush"), FolderOf(j.item)>>
        BY <3>2 DEF EditsOf
      <4> QED BY <1>5, <4>1
    <3>3. CASE j.cmd = "size"
      <4>1. e = <<parent, set_folder_size(View(parent), j.item.name, 1), Goes(t, "flush"), {}>> BY <3>3 DEF EditsOf
      <4> QED BY <1>5, <4>1
    <3> QED BY <2>1, <3>1, <3>2, <3>3
  <2>2. CASE j.cmd = "delete"
    <3>1. PICK i \in j.items : e = <<parent_prefix(i.key), remove(View(parent_prefix(i.key)), i.name),
                                     [Goes(t, IF j.items = {i} THEN "flush" ELSE "edit") EXCEPT !.items = @ \ {i}], FolderOf(i)>>
      BY <2>2 DEF EditsOf
    <3> DEFINE p == IF j.items = {i} THEN "flush" ELSE "edit"
    <3>2. e[3] = [Goes(t, p) EXCEPT !.items = @ \ {i}] BY <3>1
    <3> HIDE DEF p
    <3> DEFINE its == Goes(t, p).items \ {i}
    <3>3. e[3] = [Goes(t, p) EXCEPT !.items = its] BY <3>2
    <3>4. IsJob(Goes(t, p)) /\ Goes(t, p).cmd = "delete" BY <2>2, GoesTo
    <3> HIDE DEF its
    <3>5. SameBut(e[3], Goes(t, p)) BY <3>3, <3>4, JobItems
    <3> QED BY <3>4, <3>5 DEF SameBut, Calm, IsMove
  <2>3. CASE j.cmd = "upload"
    <3> DEFINE n == j.rel[j.at]
               dir == j.dest \o on_disk_path(TRUE, SubSeq(j.rel, 1, j.at - 1))
    <3>0. \/ e = <<dir, upsert_file(View(dir), n, j.content), Goes(t, "flush"), {}>>
          \/ e = <<dir, upsert_folder(View(dir), n), [j EXCEPT !.at = @ + 1], {}>>
      BY <2>3 DEF EditsOf
    <3> HIDE DEF dir, n
    <3>1. e[3] = Goes(t, "flush") \/ e[3] = [j EXCEPT !.at = j.at + 1] BY <3>0
    <3>2. SameBut([j EXCEPT !.at = j.at + 1], j) BY <1>4, JobAt
    <3> QED BY <1>5, <2>3, <3>1, <3>2 DEF SameBut, Calm, IsMove
  <2> QED BY <1>4, <2>1, <2>2, <2>3
<1>7. Calm(Unedited(t, e[3]))
  <2>1. CASE j.cmd \in {"create", "rename"} BY <1>5, <2>1 DEF Unedited
  <2>2. CASE j.cmd = "upload" BY <1>5, <2>2 DEF Unedited
  <2>3. CASE j.cmd \notin {"create", "rename", "upload"} BY <1>6, <2>3 DEF Unedited
  <2> QED BY <2>1, <2>2, <2>3
<1> QED BY <1>1, <1>2, <1>6, <1>7, CalmTask, SameObjects DEF Becomes

LEMMA FlushStepKeeps == ASSUME DirInv, LostInv, NEW t \in Tasks, FlushStep(t) PROVE LostInv'
<1> DEFINE next == IF job[t].cmd \in {"create", "rename"} THEN Goes(t, "failed") ELSE Done(t)
<1>1. Kept1 /\ (Becomes(t, Done(t)) \/ Becomes(t, next)) BY DEF FlushStep, Kept1, history
<1>2. Calm(Done(t)) /\ Calm(Goes(t, "failed")) BY CalmPlaces DEF Done
<1>3. Calm(next) BY <1>2
<1>4. SameFiles(tree, tree') /\ tree'.kind = tree.kind BY FlushedOK, FlushFailsOK DEF FlushStep
<1> HIDE DEF next
<1> QED BY <1>1, <1>2, <1>3, <1>4, CalmTask DEF Becomes

LEMMA FlushTimerKeeps == ASSUME DirInv, LostInv, FlushTimer PROVE LostInv'
<1>1. Kept1 /\ job' = job BY DEF FlushTimer, tasks, Kept1, history
<1>2. SameFiles(tree, tree') /\ tree'.kind = tree.kind BY FlushedOK, FlushFailsOK DEF FlushTimer
<1> QED BY <1>1, <1>2, CalmStep

LEMMA RetryKeeps == ASSUME DirInv, LostInv, NEW t \in Tasks, Retry(t) PROVE LostInv'
<1> DEFINE j == job[t]
           r == [j EXCEPT !.pc = "start", !.tried = TRUE, !.items = j.all]
<1>1. /\ job' = [job EXCEPT ![t] = r] /\ tree' \in {tree, [tree EXCEPT !.known = {}]} /\ Kept1
  BY Zenon DEF Retry, Becomes, Kept1, history
<1>2. tree'.kind = tree.kind /\ tree'.obj = tree.obj BY <1>1, TheJob, NothingKnown
<1>3. IsJob(j) BY TheJob DEF JobOK
<1> HIDE DEF j
<1>4. r.pc = "start" BY <1>3 DEF IsJob
<1> HIDE DEF r
<1>5. Calm(r) BY <1>4 DEF Calm
<1> QED BY <1>1, <1>2, <1>5, CalmTask, SameObjects

LEMMA GiveUpKeeps == ASSUME DirInv, LostInv, NEW t \in Tasks, GiveUp(t) PROVE LostInv'
<1> DEFINE next == IF job[t].cmd = "upload" /\ e2ee THEN Goes(t, "flush") ELSE Answered("err")
<1>1. tree' = tree /\ Kept1 /\ Becomes(t, next) BY Zenon DEF GiveUp, Kept1
<1>2. Calm(next) BY CalmPlaces
<1> HIDE DEF next
<1> QED BY <1>1, <1>2, CalmTask, SameObjects DEF Becomes

LEMMA CommandKeeps == ASSUME DirInv, LostInv, NEW t \in Tasks, Command(t) PROVE LostInv'
<1>1. Started(t) BY CreateOK, DeleteOK, MoveOK, RenameOK, CalculateSizeOK, CommandUploadOK DEF Command
<1>2. Calm(job'[t]) /\ job' = [job EXCEPT ![t] = job'[t]] /\ tree'.obj = tree.obj /\ tree'.kind = tree.kind /\ Kept1
  BY <1>1 DEF Started, Calm, Kept1, Like
<1> QED BY <1>2, CalmTask, SameObjects

LEMMA ReadersKeep == ASSUME DirInv, LostInv, expand_folder \/ collect_folder_info PROVE LostInv'
<1>1. job' = job /\ Kept1 BY DEF expand_folder, collect_folder_info, Walk, Kept1, history
<1>2. tree'.obj = tree.obj /\ tree'.kind = tree.kind BY ReadersOK DEF Walked, Like
<1> QED BY <1>1, <1>2, CalmStep, SameObjects

LEMMA CrashKeeps == ASSUME DirInv, LostInv, Crash PROVE LostInv'
<1>1. job' = [t \in Tasks |-> Answered("none")] /\ tree' = [tree EXCEPT !.known = {}] /\ Kept1
  BY Zenon DEF Crash, Kept1
<1>2. tree'.kind = tree.kind /\ tree'.obj = tree.obj BY <1>1, NothingKnown DEF DirInv
<1>3. \A u \in Tasks : Calm(job'[u]) BY <1>1 DEF Calm, IsMove, Answered
<1> QED BY <1>1, <1>2, <1>3, CalmStep, SameObjects

\* A listing has everything that is in the folder when it is made.
LEMMA RenameListKeeps == ASSUME DirInv, LostInv, NEW t \in Tasks, RenameList(t) PROVE LostInv'
<1> DEFINE j == job[t]
           i == j.item
           got == IF i.is_dir THEN list_recursive(tree, i.key) ELSE {i.key}
           next == [Goes(t, "copy") EXCEPT !.began = TRUE, !.got = got]
<1>1. JobOK(j, tree.kind, contents) /\ TreeOK(tree, contents) BY TheJob
<1>2. j.pc = "list" /\ j.cmd \in {"move", "rename"} /\ Kept1 BY Zenon DEF RenameList, Moving, Kept1, history
<1>3. (i.is_dir /\ Prepare(t, j.to)) \/ Request(t, {Outcome(tree, i.key \in tree.dirs)}, next) \/ Leaves(t, next)
  BY Zenon DEF RenameList
<1>4. next.pc = "copy" /\ next.got = got /\ next.item = i
  <2>1. IsJob(Goes(t, "copy")) /\ Goes(t, "copy").pc = "copy" /\ Goes(t, "copy").item = i BY GoesTo
  <2> HIDE DEF got
  <2> QED BY <2>1 DEF IsJob
<1>8. CASE i.is_dir /\ Prepare(t, j.to)
  <2>1. EntryOK(i) /\ TargetOK(i, j.to) BY <1>1, <1>2 DEF JobOK, UnderWay
  <2>2. j.to \in Dirs BY <1>8, <2>1, TargetIsDir
  <2>3. Calm(j) BY <1>2 DEF Calm
  <2> QED BY <1>2, <1>8, <2>2, <2>3, CalmPrepare
<1>5. ASSUME Request(t, {Outcome(tree, i.key \in tree.dirs)}, next) \/ Leaves(t, next) PROVE LostInv'
  <2> HIDE DEF next, i
  <2>1. /\ tree'.obj = tree.obj /\ tree'.kind = tree.kind
        /\ job' = [job EXCEPT ![t] = next] \/ job' = [job EXCEPT ![t] = Goes(t, "failed")]
    BY <1>1, <1>5, AskEnds DEF Leaves, Becomes, Like
  <2>2. CASE job' = [job EXCEPT ![t] = Goes(t, "failed")]
    <3>1. Calm(Goes(t, "failed")) BY CalmPlaces
    <3> QED BY <1>2, <2>1, <2>2, <3>1, CalmTask, SameObjects
  <2>3. CASE job' = [job EXCEPT ![t] = next]
    <3>1. job'[t] = next /\ \A u \in Tasks \ {t} : job'[u] = job[u] BY <2>3 DEF DirInv, IsFun
    <3>2. \A k \in Files : ~Late(next, tree.kind, k) BY <1>4 DEF Late, list_recursive, Files, FilesIn, i
    <3>3. \A k : ~Doomed(next, tree.kind, k) BY <1>4 DEF Doomed
    <3>4. Files' = Files BY <2>1 DEF Files, FilesIn, Keys
    <3>5. \A k : Safe(k) => Safe(k)' BY <2>1, <3>1, <3>3, SMTT(30) DEF Safe, Doomed, IsMove
    <3>6. Sheltered' BY <1>2, <2>1, <3>4, <3>5 DEF LostInv, Sheltered, Kept1
    <3>7. LateComers' BY <1>2, <2>1, <3>1, <3>2, <3>4 DEF LostInv, LateComers, Kept1, Late, IsMove
    <3> QED BY <3>6, <3>7 DEF LostInv
  <2> QED BY <2>1, <2>2, <2>3
<1> QED BY <1>3, <1>5, <1>8

\* Of the files of a tree some are left, as they were.
Thinned(old, new) == FilesIn(new) \subseteq FilesIn(old) /\ \A k \in FilesIn(new) : new.obj[k] = old.obj[k]

LEMMA WithoutFiles ==
    ASSUME NEW old, NEW new, NEW keys, new.obj = Without(old.obj, keys)
    PROVE  Thinned(old, new) /\ \A k \in FilesIn(old) : k \notin keys => k \in FilesIn(new)
BY DEF Thinned, FilesIn, Keys, Without

\* Files go: those that are dropped are accounted for, or were doomed by task t, which is done with them.
LEMMA FewerFilesStep ==
    ASSUME DirInv, LostInv, NEW t \in Tasks, NEW j, job' = [job EXCEPT ![t] = j], Calm(j),
           Thinned(tree, tree'), tree'.kind = tree.kind, acked' = acked, gone \subseteq gone', strayed' = strayed,
           \A k \in Files : k \in Files' \/ tree.obj[k] \in gone' \/ Doomed(job[t], tree.kind, k)
    PROVE  LostInv'
<1>1. Files' = FilesIn(tree') BY DEF Files, FilesIn, Keys, is_manifest_key, MANIFEST_KEY, literal, leaf_of
<1>2. job'[t] = j /\ \A u \in Tasks \ {t} : job'[u] = job[u] BY DEF DirInv, IsFun
<1>3. \A k : Safe(k) => Safe(k)' BY <1>2 DEF Safe, Doomed, IsMove, Calm
<1>4. \A k \in Files' : k \in Files /\ tree'.obj[k] = tree.obj[k] BY <1>1 DEF Thinned, Files
<1>5. Sheltered'
  <2> SUFFICES ASSUME NEW c \in acked, c \notin gone' \cup strayed' PROVE \E k \in Files' : tree'.obj[k] = c /\ Safe(k)'
    BY DEF Sheltered
  <2>1. PICK k \in Files : tree.obj[k] = c /\ Safe(k) BY DEF LostInv, Sheltered
  <2>2. k \in Files' BY <2>1 DEF Safe
  <2> QED BY <1>3, <1>4, <2>1, <2>2
<1>6. LateComers'
  <2> SUFFICES ASSUME NEW u \in Tasks, NEW k \in Files', Late(job[u], tree.kind, k)' PROVE tree'.obj[k] \in gone' \cup strayed'
    BY DEF LateComers
  <2>1. Late(job'[u], tree.kind, k) BY DEF Late, IsMove
  <2>2. Late(job[u], tree.kind, k) BY <1>2, <2>1 DEF Late, Calm
  <2>3. tree.obj[k] \in gone \cup strayed BY <1>4, <2>2 DEF LostInv, LateComers
  <2> QED BY <1>4, <2>3
<1> QED BY <1>5, <1>6 DEF LostInv

LEMMA UnlinkedThins ==
    ASSUME NEW n, TreeOK(tree, n), tree.kind # "s3", NEW i, NEW o \in Unlinked(i)
    PROVE  /\ o.tree.kind = tree.kind
           /\ \/ o.tree = tree
              \/ \E keys : o.tree.obj = Without(tree.obj, keys) /\ \A k \in keys : IF i.is_dir THEN Beneath(i.key, k) ELSE k = i.key
<1>1. CASE i.is_dir
  <2> DEFINE keys == {k \in Keys(tree) : Beneath(i.key, k)}
  <2>1. o \in sweep(tree, i.key) BY <1>1 DEF Unlinked
  <2>2. \A k \in keys : Beneath(i.key, k) OBVIOUS
  <2>3. o.tree = tree \/ Unlinks(tree, o.tree, keys) BY <2>1, SweepOK
  <2> HIDE DEF keys
  <2> QED BY <1>1, <2>2, <2>3 DEF Unlinks
<1>2. CASE ~i.is_dir
  <2> DEFINE keys == {i.key}
  <2>1. o \in remove_file(tree, i.key) BY <1>2 DEF Unlinked
  <2>2. \A k \in keys : k = i.key OBVIOUS
  <2>3. o.tree = tree \/ Unlinks(tree, o.tree, keys) BY <2>1, RemoveFileOK
  <2> HIDE DEF keys
  <2> QED BY <1>2, <2>2, <2>3 DEF Unlinks
<1> QED BY <1>1, <1>2

\* After a request of a task to remove something.
LEMMA AsksThins ==
    ASSUME DirInv, NEW t, tree.kind # "s3", NEW i, NEW j, NEW c, Asks(t, Unlinked(i), j, c)
    PROVE  /\ tree'.kind = tree.kind /\ (job' = [job EXCEPT ![t] = j] \/ job' = [job EXCEPT ![t] = Goes(t, "failed")])
           /\ \/ tree'.obj = tree.obj
              \/ \E keys : tree'.obj = Without(tree.obj, keys) /\ \A k \in keys : IF i.is_dir THEN Beneath(i.key, k) ELSE k = i.key
<1>0. TreeOK(tree, contents) BY DEF DirInv
<1>1. \A o \in Unlinked(i) : TreeOK(o.tree, contents) /\ o.tree.kind = tree.kind BY <1>0, UnlinkedOK
<1>2. PICK o \in Unlinked(i) : Heard(t, o, j, c) \/ Unanswered(t, o) BY <1>0, <1>1, AsksEnds
<1>3. tree'.kind = tree.kind /\ (tree'.obj = tree.obj \/ tree'.obj = o.tree.obj) BY <1>1, <1>2 DEF Heard, Unanswered, Like
<1>4. job' = [job EXCEPT ![t] = j] \/ job' = [job EXCEPT ![t] = Goes(t, "failed")] BY <1>2 DEF Heard, Unanswered
<1>5. \/ o.tree = tree
      \/ \E keys : o.tree.obj = Without(tree.obj, keys) /\ \A k \in keys : IF i.is_dir THEN Beneath(i.key, k) ELSE k = i.key
  BY <1>0, <1>2, UnlinkedThins
<1> QED BY <1>3, <1>4, <1>5

LEMMA DeleteRemoveKeeps == ASSUME DirInv, LostInv, NEW t \in Tasks, DeleteRemove(t) PROVE LostInv'
<1> DEFINE j == job[t]
<1>1. JobOK(j, tree.kind, contents) /\ TreeOK(tree, contents) BY TheJob
<1>2. /\ j.pc = "remove" /\ j.cmd = "delete" /\ acked' = acked /\ strayed' = strayed
      /\ gone' = gone \cup Dropped(tree, tree')
  BY DEF DeleteRemove
<1>3. PICK r : /\ job' = [job EXCEPT ![t] = r] /\ Calm(r) /\ tree'.kind = tree.kind
               /\ tree'.obj = tree.obj \/ \E keys : tree'.obj = Without(tree.obj, keys)
  <2>0. Calm(Goes(t, "failed")) BY CalmPlaces
  <2>1. CASE tree.kind = "s3"
    <3> DEFINE next == IF e2ee THEN Goes(t, "edit") ELSE Answered("ok")
    <3>1. s3_deletes(t, j.got, next) BY <2>1 DEF DeleteRemove
    <3>2. <<>> \notin j.got BY <1>1, <1>2 DEF JobOK, UnderWay
    <3>3. Calm(next) BY CalmPlaces
    <3> HIDE DEF next
    <3>4. /\ tree'.kind = tree.kind
          /\ \/ tree' = tree /\ job' = [job EXCEPT ![t] = Goes(t, "failed")]
             \/ \E kept, away : S3Gone(t, j.got, next, kept, away)
      BY <1>1, <2>1, <3>1, <3>2, S3DeletesEnd
    <3>5. CASE tree' = tree /\ job' = [job EXCEPT ![t] = Goes(t, "failed")] BY <2>0, <3>5
    <3>6. ASSUME NEW kept, NEW away, S3Gone(t, j.got, next, kept, away)
          PROVE  \E r : /\ job' = [job EXCEPT ![t] = r] /\ Calm(r) /\ tree'.kind = tree.kind
                        /\ tree'.obj = tree.obj \/ \E keys : tree'.obj = Without(tree.obj, keys)
      <4>1. tree'.obj = Without(tree.obj, away) BY <3>6 DEF S3Gone
      <4>2. job' = [job EXCEPT ![t] = next] \/ job' = [job EXCEPT ![t] = Goes(t, "failed")] BY <3>6 DEF S3Gone
      <4> QED BY <2>0, <3>3, <3>4, <4>1, <4>2
    <3> QED BY <3>4, <3>5, <3>6
  <2>2. CASE tree.kind # "s3"
    <3>1. PICK i \in j.items :
            Asks(t, Unlinked(i), IF i.is_dir THEN [Goes(t, "rmdir") EXCEPT !.item = i] ELSE Deleted(t, i),
                 [NoCall EXCEPT !.left = Found(i)])
      BY <2>2 DEF DeleteRemove
    <3> DEFINE r == [Goes(t, "rmdir") EXCEPT !.item = i]
               next == IF i.is_dir THEN r ELSE Deleted(t, i)
               c == [NoCall EXCEPT !.left = Found(i)]
    <3>2. Calm(Deleted(t, i)) BY <1>2, CalmDeleted
    <3>3. Calm(r)
      <4>1. IsJob(Goes(t, "rmdir")) /\ Goes(t, "rmdir").cmd = "delete" BY <1>2, GoesTo
      <4>2. SameBut(r, Goes(t, "rmdir")) BY <4>1, JobItem
      <4> QED BY <4>1, <4>2 DEF SameBut, Calm, IsMove
    <3>4. Calm(next) BY <3>2, <3>3
    <3>5. Asks(t, Unlinked(i), next, c) BY <3>1
    <3> HIDE DEF next, c
    <3>6. /\ tree'.kind = tree.kind /\ (job' = [job EXCEPT ![t] = next] \/ job' = [job EXCEPT ![t] = Goes(t, "failed")])
          /\ tree'.obj = tree.obj \/ \E keys : tree'.obj = Without(tree.obj, keys)
      BY <2>2, <3>5, AsksThins
    <3> QED BY <2>0, <3>4, <3>6
  <2> QED BY <2>1, <2>2
<1>5. Thinned(tree, tree')
  <2>2. CASE tree'.obj = tree.obj BY <2>2 DEF Thinned, FilesIn, Keys
  <2>3. CASE \E keys : tree'.obj = Without(tree.obj, keys) BY <2>3, WithoutFiles
  <2> QED BY <1>3, <2>2, <2>3
<1>8. Files' = FilesIn(tree') BY DEF Files, FilesIn, Keys, is_manifest_key, MANIFEST_KEY, literal, leaf_of
<1>9. \A k \in Files : k \in Files' \/ tree.obj[k] \in gone' BY <1>2, <1>8 DEF Dropped, Files
<1> QED BY <1>2, <1>3, <1>5, <1>9, FewerFilesStep

\* What a rename removes was doomed.
LEMMA RenameRemoveKeeps == ASSUME DirInv, LostInv, NEW t \in Tasks, RenameRemove(t) PROVE LostInv'
<1> DEFINE j == job[t]
           i == j.item
<1>1. JobOK(j, tree.kind, contents) /\ TreeOK(tree, contents) BY TheJob
<1>2. j.pc = "remove" /\ Moving(t) /\ j.cmd \in {"move", "rename"} /\ Kept1 BY DEF RenameRemove, Kept1, history, Moving
<1>3. EntryOK(i) /\ Within(i, j.got) BY <1>1, <1>2 DEF JobOK, UnderWay
<1>4. Calm(AfterRename(t)) /\ Calm(Goes(t, "failed")) /\ Calm(Goes(t, "rmdir")) BY <1>2, CalmPlaces, CalmAfterRename
<1>5. PICK r : /\ job' = [job EXCEPT ![t] = r] /\ Calm(r) /\ tree'.kind = tree.kind
               /\ \/ tree'.obj = tree.obj
                  \/ \E keys : tree'.obj = Without(tree.obj, keys) /\ \A k \in keys : Doomed(j, tree.kind, k)
  <2>1. CASE tree.kind = "s3"
    <3> DEFINE keys == Removes(t)
    <3>0. s3_deletes(t, keys, AfterRename(t)) BY <2>1 DEF RenameRemove
    <3>1. <<>> \notin keys
      <4>1. i.key # <<>> /\ i.key \in Path BY <1>3 DEF EntryOK
      <4>2. ~Beneath(i.key, <<>>) BY <4>1, LenProperties, EmptySeq DEF Beneath, Path
      <4> QED BY <1>3, <4>1, <4>2 DEF Within, Removes
    <3>2. \A k \in keys : Doomed(j, tree.kind, k) BY <1>2, <2>1 DEF Doomed, IsMove, Removes
    <3> HIDE DEF keys, j
    <3>3. /\ tree'.kind = tree.kind /\ (job' = [job EXCEPT ![t] = AfterRename(t)] \/ job' = [job EXCEPT ![t] = Goes(t, "failed")])
          /\ \/ tree'.obj = tree.obj
             \/ \E kept, away : away = keys \ kept /\ tree'.obj = Without(tree.obj, away)
      <4>1. /\ tree'.kind = tree.kind
            /\ \/ tree' = tree /\ job' = [job EXCEPT ![t] = Goes(t, "failed")]
               \/ \E kept, away : S3Gone(t, keys, AfterRename(t), kept, away)
        BY <1>1, <2>1, <3>0, <3>1, S3DeletesEnd
      <4> QED BY <4>1, Zenon DEF S3Gone
    <3>4. \/ tree'.obj = tree.obj
          \/ \E away : tree'.obj = Without(tree.obj, away) /\ \A k \in away : Doomed(j, tree.kind, k)
      BY <3>2, <3>3
    <3> QED BY <1>4, <3>3, <3>4
  <2>2. CASE tree.kind # "s3"
    <3> DEFINE next == IF i.is_dir THEN Goes(t, "rmdir") ELSE AfterRename(t)
               c == [NoCall EXCEPT !.left = Found(i)]
    <3>1. Asks(t, Unlinked(i), next, c) BY <2>2 DEF RenameRemove
    <3>2. Calm(next) BY <1>4
    <3> HIDE DEF next, c
    <3>3. /\ tree'.kind = tree.kind /\ (job' = [job EXCEPT ![t] = next] \/ job' = [job EXCEPT ![t] = Goes(t, "failed")])
          /\ \/ tree'.obj = tree.obj
             \/ \E keys : tree'.obj = Without(tree.obj, keys) /\ \A k \in keys : IF i.is_dir THEN Beneath(i.key, k) ELSE k = i.key
      BY <2>2, <3>1, AsksThins
    <3>4. \A k : (IF i.is_dir THEN Beneath(i.key, k) ELSE k = i.key) => Doomed(j, tree.kind, k)
      BY <1>2, <2>2 DEF Doomed, IsMove
    <3> HIDE DEF i, j
    <3>5. \/ tree'.obj = tree.obj
          \/ \E keys : tree'.obj = Without(tree.obj, keys) /\ \A k \in keys : Doomed(j, tree.kind, k)
      BY <3>3, <3>4
    <3> QED BY <1>4, <3>2, <3>3, <3>5
  <2> QED BY <2>1, <2>2
<1>6. Files' = FilesIn(tree') BY DEF Files, FilesIn, Keys, is_manifest_key, MANIFEST_KEY, literal, leaf_of
<1>7. Thinned(tree, tree') /\ \A k \in Files : k \in Files' \/ Doomed(j, tree.kind, k)
  <2>1. CASE tree'.obj = tree.obj BY <1>6, <2>1 DEF Thinned, Files, FilesIn, Keys
  <2>2. CASE tree'.obj # tree.obj
    <3>1. PICK keys : tree'.obj = Without(tree.obj, keys) /\ \A k \in keys : Doomed(j, tree.kind, k) BY <1>5, <2>2
    <3>2. Thinned(tree, tree') /\ \A k \in FilesIn(tree) : k \notin keys => k \in FilesIn(tree') BY <3>1, WithoutFiles
    <3> QED BY <1>6, <3>1, <3>2 DEF Files
  <2> QED BY <2>1, <2>2
<1> QED BY <1>2, <1>5, <1>7, FewerFilesStep DEF Kept1

\* A file that task t puts where another one is about to remove it, or has listed the folder, strays.
LEMMA StraysIf ==
    ASSUME DirInv, NEW t \in Tasks, NEW u \in Tasks \ {t}, NEW x, KeyOK(x),
           Doomed(job[u], tree.kind, x) \/ Late(job[u], tree.kind, x)
    PROVE  Strays(t, x)
<1> DEFINE j == job[u]
           i == j.item
<1>1. JobOK(j, tree.kind, contents) BY TheJob
<1>2. Moving(u) /\ j.cmd \in {"move", "rename"} BY DEF Doomed, Late, IsMove, Moving
<1>3. CASE Late(j, tree.kind, x) BY <1>2, <1>3 DEF Strays, Late
<1>4. CASE Doomed(j, tree.kind, x)
  <2>1. j.pc = "remove" BY <1>4 DEF Doomed
  <2>2. EntryOK(i) /\ Within(i, j.got) /\ (~i.is_dir => j.got = {i.key}) BY <1>1, <1>2, <2>1 DEF JobOK, UnderWay
  <2>3. Beneath(i.key, i.key) BY <2>2, SwappedSelf DEF EntryOK, Path
  <2>4. CASE tree.kind = "s3"
    <3>1. x \in j.got \/ x = i.key BY <1>4, <2>4 DEF Doomed
    <3>2. x = i.key => ~i.is_dir BY <2>2, DirKeyIsNoFile
    <3>3. x \in j.got BY <2>2, <3>1, <3>2
    <3>4. Beneath(i.key, x) BY <2>2, <3>3 DEF Within
    <3> QED BY <1>2, <2>1, <2>4, <3>3, <3>4 DEF Strays
  <2>5. CASE tree.kind # "s3"
    <3>1. Beneath(i.key, x) BY <1>4, <2>3, <2>5 DEF Doomed
    <3> QED BY <1>2, <2>1, <2>5, <3>1 DEF Strays
  <2> QED BY <2>4, <2>5
<1> QED BY <1>3, <1>4

\* Files come, all of them among `fresh`; those that stray are accounted for.  What task t
\* dooms from now on is accounted for, or there once more.
LEMMA MoreFilesStep ==
    ASSUME DirInv, DirInv', LostInv, e2ee' = e2ee,
           NEW t \in Tasks, NEW j, job' = [job EXCEPT ![t] = j], tree'.kind = tree.kind, NEW fresh,
           \A k \in Keys(tree') : k \in fresh \/ (k \in Keys(tree) /\ tree'.obj[k] = tree.obj[k]),
           gone' = gone \cup Dropped(tree, tree'), strayed \subseteq strayed',
           \A k \in FilesIn(tree') \cap fresh : Strays(t, k) => tree'.obj[k] \in strayed',
           \A k : ~Late(j, tree.kind, k),
           \A k \in Files : \/ tree.obj[k] \in gone \cup strayed \/ ~Doomed(j, tree.kind, k)
                            \/ \E x \in FilesIn(tree') \cap fresh : tree'.obj[x] = tree.obj[k] /\ ~Doomed(j, tree.kind, x),
           \A c \in acked' \ acked : \E x \in FilesIn(tree') \cap fresh : tree'.obj[x] = c /\ ~Doomed(j, tree.kind, x)
    PROVE  LostInv'
<1>1. Files' = FilesIn(tree') BY DEF Files, FilesIn, Keys, is_manifest_key, MANIFEST_KEY, literal, leaf_of
<1>2. job'[t] = j /\ \A u \in Tasks \ {t} : job'[u] = job[u] BY DEF DirInv, IsFun
<1>3. \A k \in FilesIn(tree') : KeyOK(k)
  <2>1. \A k \in Keys(tree') : KeyOK(k)' BY DEF DirInv, TreeOK, Keys
  <2>2. \A k : KeyOK(k)' => KeyOK(k) BY DEF KeyOK, Dirs, Path
  <2> QED BY <2>1, <2>2 DEF FilesIn
<1>4. ASSUME NEW x \in FilesIn(tree') \cap fresh, ~Doomed(j, tree.kind, x), tree'.obj[x] \notin gone' \cup strayed' PROVE Safe(x)'
  <2>1. KeyOK(x) /\ ~Strays(t, x) BY <1>3, <1>4
  <2>2. \A u \in Tasks \ {t} : ~Doomed(job[u], tree.kind, x) BY <2>1, StraysIf
  <2>3. \A u \in Tasks : ~Doomed(job'[u], tree.kind, x) BY <1>2, <1>4, <2>2
  <2> QED BY <2>3 DEF Safe, Doomed, IsMove
<1>5. Sheltered'
  <2> SUFFICES ASSUME NEW c \in acked', c \notin gone' \cup strayed' PROVE \E k \in Files' : tree'.obj[k] = c /\ Safe(k)'
    BY DEF Sheltered
  <2>1. ASSUME NEW x \in FilesIn(tree') \cap fresh, tree'.obj[x] = c, ~Doomed(j, tree.kind, x)
        PROVE  \E k \in Files' : tree'.obj[k] = c /\ Safe(k)'
    BY <1>1, <1>4, <2>1
  <2>2. CASE c \notin acked BY <2>1, <2>2
  <2>3. CASE c \in acked
    <3>1. c \notin gone \cup strayed OBVIOUS
    <3>2. PICK k \in Files : tree.obj[k] = c /\ Safe(k) BY <2>3, <3>1 DEF LostInv, Sheltered
    <3>3. k \in FilesIn(tree') /\ tree'.obj[k] = c BY <3>2 DEF Dropped, Files
    <3>4. CASE Doomed(j, tree.kind, k) BY <2>1, <3>1, <3>2, <3>4
    <3>5. CASE ~Doomed(j, tree.kind, k)
      <4>1. \A u \in Tasks : ~Doomed(job'[u], tree.kind, k) BY <1>2, <3>2, <3>5 DEF Safe
      <4>2. Safe(k)' BY <4>1 DEF Safe, Doomed, IsMove
      <4> QED BY <1>1, <3>3, <4>2
    <3> QED BY <3>4, <3>5
  <2> QED BY <2>2, <2>3
<1>6. LateComers'
  <2> SUFFICES ASSUME NEW u \in Tasks, NEW k \in Files', Late(job[u], tree.kind, k)' PROVE tree'.obj[k] \in gone' \cup strayed'
    BY DEF LateComers
  <2>1. Late(job'[u], tree.kind, k) BY DEF Late, IsMove
  <2>2. u # t /\ Late(job[u], tree.kind, k) BY <1>2, <2>1
  <2>3. CASE k \in fresh
    <3>1. KeyOK(k) BY <1>1, <1>3
    <3>2. Strays(t, k) BY <2>2, <3>1, StraysIf
    <3> QED BY <1>1, <2>3, <3>2
  <2>4. CASE k \in Keys(tree) /\ tree'.obj[k] = tree.obj[k]
    <3>1. k \in Files BY <1>1, <2>4 DEF Files, FilesIn
    <3> QED BY <2>2, <2>4, <3>1 DEF LostInv, LateComers
  <2>5. k \in Keys(tree') BY <1>1 DEF FilesIn
  <2> QED BY <2>3, <2>4, <2>5
<1> QED BY <1>5, <1>6 DEF LostInv

\* What a copy doubles is not doomed where it goes.
LEMMA CopiesAreSafe ==
    ASSUME NoneNested, DirInv, LostInv, NEW t \in Tasks, Moving(t), job[t].pc = "copy", NEW r, r = Goes(t, "remove"),
           NEW new, Doubled(tree, new, job[t].item.key, job[t].to, job[t].got),
           NEW k \in Files, tree.obj[k] \notin gone \cup strayed, Doomed(r, tree.kind, k)
    PROVE  \E x \in FilesIn(new) : Beneath(job[t].to, x) /\ new.obj[x] = tree.obj[k] /\ ~Doomed(r, tree.kind, x)
<1> DEFINE j == job[t]
           i == j.item
           key == i.key
           to == j.to
           x == Swapped(key, to, k)
<1>1. JobOK(j, tree.kind, contents) /\ TreeOK(tree, contents) BY TheJob
<1>2. j.cmd \in {"move", "rename"} BY DEF Moving
<1>3. EntryOK(i) /\ TargetOK(i, to) /\ Within(i, j.got) /\ to # key /\ (~i.is_dir => j.got = {key})
  BY <1>1, <1>2 DEF JobOK, UnderWay
<1>4. r.pc = "remove" /\ r.item = i /\ r.got = j.got BY GoesTo
<1>5. key \in Seq(Segs) /\ to \in Seq(Segs) BY <1>3 DEF EntryOK, TargetOK, Path
<1>6. KeyOK(k) /\ k \in Seq(Segs) BY <1>1 DEF TreeOK, Files, FilesIn, KeyOK, Path
<1>7. k \in j.got
  <2>1. CASE tree.kind = "s3"
    <3>1. k \in j.got \/ k = key BY <1>4, <2>1 DEF Doomed
    <3>2. k = key => ~i.is_dir BY <1>3, <1>6, DirKeyIsNoFile
    <3> QED BY <1>3, <3>1, <3>2
  <2>2. CASE tree.kind # "s3" /\ i.is_dir
    <3>1. Beneath(key, k) BY <1>4, <2>2 DEF Doomed
    <3>2. ~Late(j, tree.kind, k) BY DEF LostInv, LateComers
    <3> QED BY <1>2, <2>2, <3>1, <3>2 DEF Late, IsMove
  <2>3. CASE tree.kind # "s3" /\ ~i.is_dir
    <3>1. k = key BY <1>4, <2>3 DEF Doomed
    <3> QED BY <1>3, <2>3, <3>1
  <2> QED BY <2>1, <2>2, <2>3
<1>8. x \in FilesIn(new) /\ new.obj[x] = tree.obj[k] BY <1>7 DEF Doubled, Files
<1>9. Beneath(key, k) BY <1>3, <1>7 DEF Within
<1>10. Beneath(to, x) BY <1>5, <1>6, <1>9, SwappedBack
<1>11. x \in Seq(Segs) BY <1>5, <1>6, <1>9, SwappedKey
<1>12. ~Doomed(r, tree.kind, x)
  <2>1. CASE i.is_dir
    <3>1. ~Beneath(key, to) /\ ~Beneath(to, key) BY <1>1, <1>2, <2>1, GoesApart
    <3> HIDE DEF x, key, to
    <3>2. ~Beneath(key, x) BY <1>5, <1>10, <1>11, <3>1, ApartStays
    <3>3. x # key BY <1>5, <3>2, SwappedSelf
    <3>4. x \notin j.got BY <1>3, <3>2 DEF Within, key
    <3> QED BY <1>4, <2>1, <3>2, <3>3, <3>4 DEF Doomed, key
  <2>2. CASE ~i.is_dir
    <3>1. k = key BY <1>3, <1>7, <2>2
    <3>2. x = to BY <1>5, <3>1, SwappedSelf
    <3> HIDE DEF x
    <3> QED BY <1>3, <1>4, <2>2, <3>2 DEF Doomed
  <2> QED BY <2>1, <2>2
<1> HIDE DEF x
<1> QED BY <1>8, <1>10, <1>12

LEMMA RenameCopyKeeps == ASSUME NoneNested, DirInv, LostInv, NEW t \in Tasks, RenameCopy(t) PROVE LostInv'
<1> DEFINE j == job[t]
           i == j.item
           fresh == {k \in Keys(tree') : Beneath(j.to, k)}
<1>1. JobOK(j, tree.kind, contents) /\ TreeOK(tree, contents) BY TheJob
<1>2. /\ j.pc = "copy" /\ Moving(t) /\ e2ee' = e2ee /\ acked' = acked /\ gone' = gone \cup Dropped(tree, tree')
      /\ strayed' = strayed \cup {tree'.obj[k] : k \in {x \in FilesIn(tree') : Beneath(j.to, x) /\ Strays(t, x)}}
  BY Zenon DEF RenameCopy
<1>3. EntryOK(i) /\ TargetOK(i, j.to) /\ Within(i, j.got) BY <1>1, <1>2 DEF JobOK, UnderWay, Moving
<1>4. ASSUME NEW some \in SUBSET j.got, NEW o \in copy(tree, i.key, j.to, some)
      PROVE  /\ TreeOK(o.tree, contents) /\ o.tree.kind = tree.kind /\ Added(tree, o.tree, j.to)
             /\ o.ok => Doubled(tree, o.tree, i.key, j.to, some)
  <2>1. Within(i, some) BY <1>3 DEF Within
  <2> QED BY <1>1, <1>3, <2>1, CopyOK
<1>5. /\ tree'.kind = tree.kind /\ Added(tree, tree', j.to)
      /\ \/ job' = [job EXCEPT ![t] = Goes(t, "failed")]
         \/ job' = [job EXCEPT ![t] = Goes(t, "remove")] /\ Doubled(tree, tree', i.key, j.to, j.got)
  <2>0. Added(tree, tree, j.to) BY DEF Added
  <2>1. CASE Request(t, copy(tree, i.key, j.to, j.got), Goes(t, "remove"))
    <3>0. \A o \in copy(tree, i.key, j.to, j.got) :
             /\ TreeOK(o.tree, contents) /\ o.tree.kind = tree.kind /\ Added(tree, o.tree, j.to)
             /\ o.ok => Doubled(tree, o.tree, i.key, j.to, j.got)
      BY <1>4
    <3> HIDE DEF i, j
    <3>1. PICK o \in copy(tree, i.key, j.to, j.got) : Heard(t, o, Goes(t, "remove"), NoCall) \/ Unanswered(t, o)
      BY <1>1, <2>1, <3>0, AsksEnds DEF Request
    <3>2. tree' = tree \/ Like(o.tree, tree') BY <3>1 DEF Heard, Unanswered
    <3>3. tree'.kind = tree.kind /\ Added(tree, tree', j.to) BY <2>0, <3>0, <3>2 DEF Like, Added, Keys
    <3>4. CASE Unanswered(t, o) BY <3>3, <3>4 DEF Unanswered
    <3>5. CASE Heard(t, o, Goes(t, "remove"), NoCall)
      <4>1. ~o.ok => job' = [job EXCEPT ![t] = Goes(t, "failed")] BY <3>5 DEF Heard
      <4>2. o.ok => job' = [job EXCEPT ![t] = Goes(t, "remove")] BY <3>5 DEF Heard
      <4>3. o.ok => Doubled(tree, tree', i.key, j.to, j.got) BY <3>0, <3>5 DEF Heard, Like, Doubled, FilesIn, Keys
      <4> QED BY <3>3, <4>1, <4>2, <4>3
    <3> QED BY <3>1, <3>4, <3>5
  <2>2. CASE CopyBreaks(t)
    <3>0. PICK some \in SUBSET j.got : \E o \in copy(tree, i.key, j.to, some) : Broken(t, o) BY <2>2, Zenon DEF CopyBreaks
    <3>1. PICK o \in copy(tree, i.key, j.to, some) : Broken(t, o) BY <3>0
    <3>2. TreeOK(o.tree, contents) /\ o.tree.kind = tree.kind /\ Added(tree, o.tree, j.to) BY <1>4, <3>1
    <3>3. Like(o.tree, tree') /\ tree'.kind = tree.kind BY <1>1, <3>1, <3>2, BrokenOK DEF DirInv
    <3>4. Added(tree, tree', j.to) BY <3>2, <3>3 DEF Added, Like, Keys
    <3> QED BY <2>2, <3>3, <3>4 DEF CopyBreaks
  <2> QED BY <2>1, <2>2, CopyEnds
<1>6. DirInv' BY RenameCopyOK
<1>7. \A k \in Keys(tree') : k \in fresh \/ (k \in Keys(tree) /\ tree'.obj[k] = tree.obj[k]) BY <1>5 DEF Added
<1>8. \A k \in FilesIn(tree') \cap fresh : Strays(t, k) => tree'.obj[k] \in strayed' BY <1>2
<1>9. strayed \subseteq strayed' BY <1>2
<1>10. \A k \in FilesIn(tree') : Beneath(j.to, k) => k \in fresh BY DEF FilesIn
<1>11. ASSUME NEW r, job' = [job EXCEPT ![t] = r], r.pc \in {"failed", "remove"},
              \A k \in Files : \/ tree.obj[k] \in gone \cup strayed \/ ~Doomed(r, tree.kind, k)
                               \/ \E x \in FilesIn(tree') : /\ Beneath(j.to, x) /\ tree'.obj[x] = tree.obj[k]
                                                           /\ ~Doomed(r, tree.kind, x)
       PROVE  LostInv'
  <2>1. \A k : ~Late(r, tree.kind, k) BY <1>11 DEF Late
  <2>2. \A k \in Files : \/ tree.obj[k] \in gone \cup strayed \/ ~Doomed(r, tree.kind, k)
                         \/ \E x \in FilesIn(tree') \cap fresh : tree'.obj[x] = tree.obj[k] /\ ~Doomed(r, tree.kind, x)
    BY <1>10, <1>11
  <2>3. acked' \ acked = {} BY <1>2
  <2> HIDE DEF fresh
  <2> QED BY <1>2, <1>5, <1>6, <1>7, <1>8, <1>9, <1>11, <2>1, <2>2, <2>3, MoreFilesStep
<1>12. CASE job' = [job EXCEPT ![t] = Goes(t, "failed")]
  <2>1. Goes(t, "failed").pc = "failed" BY GoesTo
  <2>2. \A k : ~Doomed(Goes(t, "failed"), tree.kind, k) BY <2>1 DEF Doomed
  <2> QED BY <1>11, <1>12, <2>1, <2>2
<1>13. CASE job' = [job EXCEPT ![t] = Goes(t, "remove")] /\ Doubled(tree, tree', i.key, j.to, j.got)
  <2> DEFINE r == Goes(t, "remove")
  <2>1. r.pc = "remove" BY GoesTo
  <2>2. \A k \in Files : \/ tree.obj[k] \in gone \cup strayed \/ ~Doomed(r, tree.kind, k)
                         \/ \E x \in FilesIn(tree') : /\ Beneath(j.to, x) /\ tree'.obj[x] = tree.obj[k]
                                                     /\ ~Doomed(r, tree.kind, x)
    BY <1>2, <1>13, CopiesAreSafe
  <2> HIDE DEF r
  <2> QED BY <1>11, <1>13, <2>1, <2>2 DEF r
<1> QED BY <1>5, <1>12, <1>13

\* An upload that succeeded has put its content where no rename takes it away, or it strays.
LEMMA UploadPutKeeps == ASSUME DirInv, LostInv, NEW t \in Tasks, UploadPut(t) PROVE LostInv'
<1> DEFINE j == job[t]
           key == j.to
           c == j.content
           p == IF e2ee THEN "edit" ELSE "flush"
           next == [Goes(t, p) EXCEPT !.at = 1]
<1>1. JobOK(j, tree.kind, contents) /\ TreeOK(tree, contents) BY TheJob
<1>2. /\ j.pc = "put" /\ e2ee' = e2ee /\ Request(t, put(tree, key, c), next)
      /\ acked' = (IF job'[t].at = 1 THEN acked \cup {c} ELSE acked)
      /\ strayed' = (IF Strays(t, key) THEN strayed \cup {c} ELSE strayed)
      /\ gone' = gone \cup Dropped(tree, tree')
  BY DEF UploadPut
<1>3. j.cmd = "upload" BY <1>1, <1>2 DEF JobOK, PcOK
<1>4. j.at = 0 /\ c \in 1 .. contents BY <1>1, <1>2, <1>3 DEF JobOK, UploadOK
<1>5. KeyOK(key) /\ leaf_of(key) \in FileSegs BY <1>1, <1>3, UploadPaths DEF JobOK, UploadOK
<1>7. \A o \in put(tree, key, c) :
         /\ TreeOK(o.tree, contents) /\ o.tree.kind = tree.kind /\ (o.tree = tree \/ o.tree.obj = With(tree.obj, key, c))
         /\ o.ok => o.tree.obj = With(tree.obj, key, c)
  BY <1>1, <1>4, <1>5, PutOK
<1>6. PICK o \in put(tree, key, c) : Heard(t, o, next, NoCall) \/ Unanswered(t, o)
  <2> DEFINE outcomes == put(tree, key, c)
  <2>1. Asks(t, outcomes, next, NoCall) BY <1>2 DEF Request
  <2>2. \A o \in outcomes : TreeOK(o.tree, contents) /\ o.tree.kind = tree.kind BY <1>7
  <2> HIDE DEF outcomes, next
  <2>3. \E o \in outcomes : Heard(t, o, next, NoCall) \/ Unanswered(t, o) BY <1>1, <2>1, <2>2, AsksEnds
  <2> QED BY <2>3 DEF outcomes
<1>8. next.cmd = "upload" /\ Goes(t, "failed").cmd = "upload" /\ Goes(t, "failed").at = 0
  <2>1. IsJob(Goes(t, p)) /\ Goes(t, p).cmd = "upload" BY <1>3, GoesTo
  <2>2. SameBut(next, Goes(t, p)) BY <2>1, JobAt
  <2>3. Goes(t, "failed").cmd = "upload" /\ Goes(t, "failed").at = 0 BY <1>3, <1>4, GoesTo
  <2> QED BY <2>1, <2>2, <2>3 DEF SameBut
<1> HIDE DEF next, p, key, c
<1>9. PICK r : /\ job' = [job EXCEPT ![t] = r] /\ r.cmd = "upload"
               /\ r.at = 1 => tree'.obj = o.tree.obj /\ o.ok
  <2>1. CASE Becomes(t, Goes(t, "failed"))
    <3>1. ~(Goes(t, "failed").at = 1) BY <1>8
    <3> QED BY <1>8, <2>1, <3>1, Zenon DEF Becomes
  <2>2. CASE tree'.obj = o.tree.obj /\ o.ok /\ Becomes(t, next) BY <1>8, <2>2, Zenon DEF Becomes
  <2>3. CASE Unanswered(t, o) BY <2>1, <2>3 DEF Unanswered, Becomes
  <2>4. CASE Heard(t, o, next, NoCall)
    <3>1. CASE o.ok BY <2>2, <2>4, <3>1 DEF Heard, Becomes, Like
    <3>2. CASE ~o.ok BY <2>1, <2>4, <3>2 DEF Heard, Becomes
    <3> QED BY <3>1, <3>2
  <2> QED BY <1>6, <2>3, <2>4
<1>10. job'[t] = r BY <1>9 DEF DirInv, IsFun
<1>11. tree'.kind = tree.kind /\ (tree'.obj = tree.obj \/ tree'.obj = With(tree.obj, key, c))
  BY <1>6, <1>7 DEF Heard, Unanswered, Like
<1> DEFINE fresh == IF tree'.obj = With(tree.obj, key, c) THEN {key} ELSE {}
<1>12. \A k \in Keys(tree') : k \in fresh \/ (k \in Keys(tree) /\ tree'.obj[k] = tree.obj[k])
  BY <1>11 DEF With, Keys
<1>13. \A k : ~Late(r, tree.kind, k) /\ ~Doomed(r, tree.kind, k) BY <1>9 DEF Late, Doomed, IsMove
<1>14. \A k \in FilesIn(tree') \cap fresh : Strays(t, k) => tree'.obj[k] \in strayed'
  BY <1>2 DEF With, FilesIn, Keys
<1>15. strayed \subseteq strayed' BY <1>2
<1>16. \A x \in acked' \ acked : \E k \in FilesIn(tree') \cap fresh : tree'.obj[k] = x /\ ~Doomed(r, tree.kind, k)
  <2> SUFFICES ASSUME NEW x \in acked' \ acked PROVE \E k \in FilesIn(tree') \cap fresh : tree'.obj[k] = x
    BY <1>13
  <2>1. r.at = 1 /\ x = c BY <1>2, <1>10
  <2>2. tree'.obj = With(tree.obj, key, c) BY <1>7, <1>9, <2>1
  <2>3. key \in FilesIn(tree') /\ tree'.obj[key] = c BY <1>5, <2>2, SegTypes DEF With, Keys, FilesIn, is_manifest_key, key
  <2> QED BY <2>1, <2>2, <2>3
<1>17. DirInv' BY UploadPutOK
<1> HIDE DEF fresh
<1> QED BY <1>2, <1>9, <1>11, <1>12, <1>13, <1>14, <1>15, <1>16, <1>17, MoreFilesStep

-----------------------------------------------------------------------------

LEMMA LostStep == ASSUME NoneNested, DirInv, LostInv, [Next]_vars PROVE LostInv'
<1>1. CASE UNCHANGED vars
  <2>1. job' = job /\ tree' = tree /\ Kept1 BY <1>1 DEF vars, tasks, history, Kept1
  <2> QED BY <2>1, CalmStep, SameObjects
<1>2. ASSUME NEW t \in Tasks, Command(t) PROVE LostInv' BY <1>2, CommandKeeps
<1>3. ASSUME NEW t \in Tasks, Step(t) PROVE LostInv'
  BY <1>3, CreateMakeKeeps, DeleteListKeeps, DeleteRemoveKeeps, DeleteRmdirKeeps, MoveNextKeeps, RenameCheckKeeps,
     RenameListKeeps, RenameCopyKeeps, RenameRemoveKeeps, RenameRmdirKeeps, MoveTakeKeeps, MoveInsertKeeps,
     SizeListKeeps, UploadPrepareKeeps, UploadPutKeeps, EditStepKeeps, FlushStepKeeps, RetryKeeps, GiveUpKeeps,
     NoteKeeps, Zenon
     DEF Step
<1>4. CASE FlushTimer BY <1>4, FlushTimerKeeps
<1>5. CASE expand_folder \/ collect_folder_info BY <1>5, ReadersKeep
<1>6. CASE Crash BY <1>6, CrashKeeps
<1> QED BY <1>1, <1>2, <1>3, <1>4, <1>5, <1>6 DEF Next

LEMMA LostInit == Init => LostInv
<1> SUFFICES ASSUME Init PROVE LostInv OBVIOUS
<1>0. PICK enc \in Modes, d \in OldFolder, f \in FileNames :
         /\ e2ee = enc /\ \E obj : tree.obj = With(obj, Append(on_disk_path(enc, <<d>>), on_disk_segment(enc, f)), 1)
         /\ job = [t \in Tasks |-> Answered("none")] /\ acked = {1}
  BY DEF Init
<1>1. PICK obj :
         /\ e2ee = enc /\ tree.obj = With(obj, Append(on_disk_path(enc, <<d>>), on_disk_segment(enc, f)), 1)
         /\ job = [t \in Tasks |-> Answered("none")] /\ acked = {1}
  BY <1>0
<1> DEFINE dir == on_disk_path(e2ee, <<d>>)
           key == Append(dir, Seg(f))
<1>2. tree.obj = With(obj, key, 1) BY <1>1 DEF Seg
<1>3. \A t \in Tasks : \A kind, k : ~Doomed(job[t], kind, k) /\ ~Late(job[t], kind, k)
  BY <1>1 DEF Doomed, Late, IsMove, Answered
<1>4. leaf_of(key) \in FileSegs
  <2>1. dir \in Dirs BY DirOpsAssumption DEF DirOpsAssumption, Dirs
  <2>2. dir \in Path /\ Seg(f) \in Segs /\ Seg(f) \in FileSegs BY <2>1, DirsClosed, SegTypes DEF Seg
  <2> HIDE DEF dir
  <2> QED BY <2>2, AppendParent DEF Path
<1> HIDE DEF key
<1>5. key \in Files /\ tree.obj[key] = 1 BY <1>2, <1>4, SegTypes DEF With, Files, FilesIn, Keys, is_manifest_key
<1>6. Sheltered BY <1>1, <1>3, <1>5 DEF Sheltered, Safe
<1>7. LateComers BY <1>3 DEF LateComers
<1> QED BY <1>6, <1>7 DEF LostInv

\* No file is lost, whatever commands run at the same time, fail half way and are tried
\* again (run_move, run_rename, run_delete and the uploads of worker.rs over rename of
\* storage/mod.rs): what was uploaded stays in the tree unless the user deletes or replaces
\* it, or puts it into a folder that is being moved away.  That is so where no folder is in
\* one of its own name; the run move_lost shows what happens where one is.
THEOREM NothingEverLost == NoneNested => (Spec => []NothingLost)
<1> SUFFICES ASSUME NoneNested PROVE Spec => []NothingLost OBVIOUS
<1>1. Init => LostInv BY LostInit
<1>2. DirInv /\ LostInv /\ [Next]_vars => LostInv' BY LostStep
<1>3. LostInv => NothingLost BY DEF LostInv, Sheltered, NothingLost, Stored
<1> QED BY <1>1, <1>2, <1>3, DirInvariant, PTL DEF Spec

-----------------------------------------------------------------------------
(* On a file system every object is in a directory, and so is every directory *)

Rooted(tr) == tr.kind # "s3" => /\ \A d \in tr.dirs : Chain(d) \subseteq tr.dirs
                                /\ \A k \in Keys(tr) : parent_prefix(k) \in tr.dirs

\* The directories on the way to d are those it is beneath.
LEMMA ChainIff ==
    ASSUME NEW S, NEW d \in Seq(S), NEW e \in Seq(S)
    PROVE  e \in Chain(d) <=> e # <<>> /\ Beneath(e, d)
<1>1. Len(d) \in Nat /\ Len(e) \in Nat BY LenProperties
<1>2. ASSUME e \in Chain(d) PROVE e # <<>> /\ Beneath(e, d)
  <2>1. PICK n \in 1 .. Len(d) : e = SubSeq(d, 1, n) BY <1>2 DEF Chain
  <2>2. n \in 0 .. Len(d) /\ n \in Nat /\ n # 0 BY <1>1
  <2>3. Len(e) = n BY <2>1, <2>2, PrefixOf
  <2>4. e # <<>> BY <2>2, <2>3
  <2>5. Beneath(e, d) BY <1>1, <2>1, <2>3 DEF Beneath
  <2> QED BY <2>4, <2>5
<1>3. ASSUME e # <<>>, Beneath(e, d) PROVE e \in Chain(d)
  <2>1. Len(e) # 0 BY <1>3, EmptySeq
  <2>2. Len(e) \in 1 .. Len(d) /\ e = SubSeq(d, 1, Len(e)) BY <1>1, <1>3, <2>1 DEF Beneath
  <2>3. \E n \in 1 .. Len(d) : e = SubSeq(d, 1, n) BY <2>2, Zenon
  <2> QED BY <2>3, Zenon DEF Chain
<1> QED BY <1>2, <1>3

LEMMA BeneathTrans ==
    ASSUME NEW S, NEW a \in Seq(S), NEW b \in Seq(S), NEW c \in Seq(S), Beneath(a, b), Beneath(b, c)
    PROVE  Beneath(a, c)
<1>1. /\ Len(a) \in Nat /\ Len(b) \in Nat /\ Len(c) \in Nat /\ Len(a) <= Len(b) /\ Len(b) <= Len(c)
      /\ \A i \in 1 .. Len(a) : b[i] = a[i]
  BY BeneathIff
<1>2. \A i \in 1 .. Len(b) : c[i] = b[i] BY BeneathIff
<1>3. \A i \in 1 .. Len(a) : i \in 1 .. Len(b) BY <1>1
<1>4. \A i \in 1 .. Len(a) : c[i] = a[i] BY <1>1, <1>2, <1>3
<1>5. Len(a) <= Len(c) BY <1>1
<1> QED BY <1>4, <1>5, BeneathIff

\* Nothing is between a key and its directory.
LEMMA BeneathParent ==
    ASSUME NEW S, NEW a \in Seq(S), NEW k \in Seq(S), k # <<>>
    PROVE  /\ Beneath(parent_prefix(k), k)
           /\ Beneath(a, k) <=> a = k \/ Beneath(a, parent_prefix(k))
<1> DEFINE p == parent_prefix(k)
<1>1. /\ p \in Seq(S) /\ Len(k) \in Nat \ {0} /\ Len(p) = Len(k) - 1 /\ \A i \in 1 .. Len(k) - 1 : p[i] = k[i]
  BY ParentLeaf
<1> HIDE DEF p
<1>2. Len(a) \in Nat BY LenProperties
<1>3. Beneath(p, k)
  <2>1. Len(p) <= Len(k) /\ \A i \in 1 .. Len(p) : k[i] = p[i] BY <1>1
  <2> QED BY <1>1, <2>1, BeneathIff
<1>4. Beneath(a, p) => Beneath(a, k) BY <1>1, <1>3, BeneathTrans
<1>5. Beneath(k, k) BY SwappedSelf
<1>6. ASSUME Beneath(a, k), a # k PROVE Beneath(a, p)
  <2>1. Len(a) <= Len(k) /\ \A i \in 1 .. Len(a) : k[i] = a[i] BY <1>6, BeneathIff
  <2>2. Len(a) # Len(k) BY <1>6, SameLength
  <2>3. Len(a) <= Len(p) /\ \A i \in 1 .. Len(a) : i \in 1 .. Len(k) - 1 BY <1>1, <1>2, <2>1, <2>2
  <2>4. \A i \in 1 .. Len(a) : p[i] = a[i] BY <1>1, <2>1, <2>3
  <2> QED BY <1>1, <2>3, <2>4, BeneathIff
<1> QED BY <1>3, <1>4, <1>5, <1>6 DEF p

LEMMA KeyIsNoDir == ASSUME NEW k, KeyOK(k) PROVE k \notin Dirs
<1> SUFFICES ASSUME k \in Dirs PROVE FALSE OBVIOUS
<1>1. k # <<>> BY DEF KeyOK
<1>2. leaf_of(k)[2] \in FolderNames /\ leaf_of(k) \notin FileSegs BY <1>1, DirParent
<1> QED BY <1>2, DirOpsAssumption DEF KeyOK, DirOpsAssumption, MANIFEST_KEY, literal

\* What is beneath a file is the file.
LEMMA FileAlone ==
    ASSUME NEW f \in Path, f # <<>>, leaf_of(f) \in FileSegs, NEW k \in Path
    PROVE  /\ k \in Dirs => ~Beneath(f, k)
           /\ KeyOK(k) /\ Beneath(f, k) => k = f
<1>1. ASSUME NEW d \in Dirs, Beneath(f, d) PROVE FALSE
  <2>1. d \in Path BY DirsClosed
  <2>2. f \in Chain(d) BY <1>1, <2>1, ChainIff DEF Path
  <2>3. f \in Dirs BY <2>2, ChainOfDir
  <2> QED BY <2>3, DirParent
<1>2. ASSUME KeyOK(k), Beneath(f, k), k # f PROVE FALSE
  <2>1. k # <<>> /\ parent_prefix(k) \in Dirs BY <1>2 DEF KeyOK
  <2>2. Beneath(f, parent_prefix(k)) BY <1>2, <2>1, BeneathParent DEF Path
  <2> QED BY <1>1, <2>1, <2>2
<1> QED BY <1>1, <1>2

\* Nothing is in a directory that is not there.
LEMMA NothingThere ==
    ASSUME NEW tr, NEW n, TreeOK(tr, n), Rooted(tr), tr.kind # "s3", NEW d \in Dirs, d # <<>>, d \notin tr.dirs,
           NEW k \in Keys(tr)
    PROVE  ~Beneath(d, k)
<1> SUFFICES ASSUME Beneath(d, k) PROVE FALSE OBVIOUS
<1> DEFINE p == parent_prefix(k)
<1>1. KeyOK(k) /\ p \in tr.dirs /\ Chain(p) \subseteq tr.dirs BY DEF TreeOK, Rooted
<1>2. k \in Path /\ k # <<>> /\ p \in Dirs BY <1>1 DEF KeyOK
<1>3. d \in Path /\ p \in Path BY <1>2, DirsClosed
<1>4. d # k BY <1>1, KeyIsNoDir
<1>5. Beneath(d, p) BY <1>2, <1>3, <1>4, BeneathParent DEF Path
<1> HIDE DEF p
<1>6. d \in Chain(p) BY <1>3, <1>5, ChainIff DEF Path
<1> QED BY <1>1, <1>6

LEMMA ChainClosed ==
    ASSUME NEW d \in Dirs, NEW e \in Chain(d)
    PROVE  e \in Dirs /\ e # <<>> /\ Chain(e) \subseteq Chain(d) /\ e \in Chain(e)
<1>1. d \in Path BY DirsClosed
<1>2. e \in Dirs /\ e \in Path BY ChainOfDir, DirsClosed
<1>3. e # <<>> /\ Beneath(e, d) BY <1>1, <1>2, ChainIff DEF Path
<1>4. ASSUME NEW x \in Chain(e) PROVE x \in Chain(d)
  <2>1. x \in Dirs /\ x \in Path BY <1>2, ChainOfDir, DirsClosed
  <2>2. x # <<>> /\ Beneath(x, e) BY <1>2, <2>1, ChainIff DEF Path
  <2>3. Beneath(x, d) BY <1>1, <1>2, <1>3, <2>1, <2>2, BeneathTrans DEF Path
  <2> QED BY <1>1, <2>1, <2>2, <2>3, ChainIff DEF Path
<1>5. e \in Chain(e) BY <1>2, <1>3, SwappedSelf, ChainIff DEF Path
<1> QED BY <1>2, <1>3, <1>4, <1>5

LEMMA ChainOfParent ==
    ASSUME NEW d \in Dirs, d # <<>>
    PROVE  Chain(parent_prefix(d)) = Chain(d) \ {d}
<1> DEFINE p == parent_prefix(d)
<1>1. d \in Path /\ p \in Dirs /\ p \in Path BY DirsClosed, DirParent
<1>2. ~Beneath(d, p)
  <2>1. Len(p) = Len(d) - 1 /\ Len(d) \in Nat BY <1>1, ParentLeaf DEF Path
  <2> QED BY <2>1 DEF Beneath
<1> HIDE DEF p
<1>3. ASSUME NEW x \in Path PROVE x \in Chain(p) <=> x \in Chain(d) /\ x # d
  <2>1. x \in Chain(p) <=> x # <<>> /\ Beneath(x, p) BY <1>1, ChainIff DEF Path
  <2>2. x \in Chain(d) <=> x # <<>> /\ Beneath(x, d) BY <1>1, ChainIff DEF Path
  <2>3. Beneath(x, d) <=> x = d \/ Beneath(x, p) BY <1>1, BeneathParent DEF Path, p
  <2> QED BY <1>2, <2>1, <2>2, <2>3
<1>4. Chain(p) \subseteq Path /\ Chain(d) \subseteq Path BY <1>1, ChainOfDir, DirsClosed
<1> QED BY <1>3, <1>4 DEF p

LEMMA ChainsEnd == ASSUME NEW d \in Dirs, d # <<>> PROVE d \in Chain(d)
<1>1. d \in Path BY DirsClosed
<1> QED BY <1>1, SwappedSelf, ChainIff DEF Path

\* What is made has all that is above it.
LEMMA PrepareRooted ==
    ASSUME NEW tr, NEW n, TreeOK(tr, n), Rooted(tr), tr.kind # "s3", NEW dir \in Dirs, dir # <<>>,
           NEW o \in prepare_parents(tr, dir)
    PROVE  Rooted(o.tree) /\ tr.dirs \subseteq o.tree.dirs
<1>1. o.tree.kind = tr.kind /\ o.tree.obj = tr.obj BY PrepareOK
<1>2. CASE o.tree = tr BY <1>2
<1>3. CASE o.tree # tr
  <2>1. parent_prefix(dir) \in tr.dirs /\ o.tree.dirs = tr.dirs \cup {dir} BY <1>3, PrepareOK
  <2>2. Chain(parent_prefix(dir)) \subseteq tr.dirs BY <2>1 DEF Rooted
  <2>3. Chain(dir) \subseteq tr.dirs \cup {dir} BY <2>2, ChainOfParent
  <2>4. \A d \in tr.dirs : Chain(d) \subseteq tr.dirs BY DEF Rooted
  <2> QED BY <1>1, <2>1, <2>3, <2>4 DEF Rooted, Keys
<1> QED BY <1>2, <1>3

\* Files may go, and come into directories that are there.
LEMMA SameDirsRooted ==
    ASSUME NEW tr, Rooted(tr), NEW new, new.kind = tr.kind, new.dirs = tr.dirs,
           \A k \in Keys(new) : k \in Keys(tr) \/ tr.kind = "s3" \/ parent_prefix(k) \in tr.dirs
    PROVE  Rooted(new)
BY DEF Rooted

\* A directory goes only when nothing is in it.
LEMMA RmdirRooted ==
    ASSUME NEW tr, NEW n, TreeOK(tr, n), Rooted(tr), tr.kind # "s3", NEW dir, dir # <<>>, NEW o \in rmdir(tr, dir)
    PROVE  Rooted(o.tree)
<1> DEFINE new == o.tree
<1>1. CASE new = tr BY <1>1
<1>2. CASE new # tr
  <2>1. new.kind = tr.kind /\ new.obj = tr.obj /\ new.dirs = tr.dirs \ {dir} /\ Empty(tr, dir) BY <1>2, RmdirOK
  <2> HIDE DEF new
  <2>2. ASSUME NEW d \in new.dirs, NEW e \in Chain(d) PROVE e \in new.dirs
    <3>1. d \in tr.dirs /\ d # dir /\ d \in Dirs BY <2>1 DEF TreeOK
    <3>2. e \in tr.dirs BY <3>1 DEF Rooted
    <3>3. e \in Path /\ d \in Path BY <3>1, <3>2, DirsClosed DEF TreeOK
    <3>4. Beneath(e, d) BY <3>3, ChainIff DEF Path
    <3>5. e # dir BY <2>1, <3>1, <3>4 DEF Empty
    <3> QED BY <2>1, <3>2, <3>5
  <2>3. ASSUME NEW k \in Keys(new) PROVE parent_prefix(k) \in new.dirs
    <3>1. k \in Keys(tr) BY <2>1 DEF Keys
    <3>2. k \in Path /\ k # <<>> /\ parent_prefix(k) \in tr.dirs BY <3>1 DEF TreeOK, KeyOK, Rooted
    <3>3. parent_prefix(k) \in Path BY <3>2, ParentLeaf DEF Path
    <3>4. Beneath(parent_prefix(k), k) /\ ~Beneath(k, parent_prefix(k))
      <4>1. Beneath(parent_prefix(k), k) BY <3>2, <3>3, BeneathParent DEF Path
      <4>2. Len(parent_prefix(k)) = Len(k) - 1 /\ Len(k) \in Nat BY <3>2, ParentLeaf DEF Path
      <4> QED BY <4>1, <4>2 DEF Beneath
    <3>5. parent_prefix(k) # dir BY <2>1, <3>1, <3>4 DEF Empty
    <3> QED BY <2>1, <3>2, <3>5
  <2> QED BY <2>1, <2>2, <2>3 DEF Rooted, new
<1> QED BY <1>1, <1>2

LEMMA CopiedDirs ==
    ASSUME NEW tr, NEW n, TreeOK(tr, n), NEW from, NEW to, NEW keys, NEW new, new = Copied(tr, from, to, keys)
    PROVE  /\ new.kind = tr.kind /\ tr.dirs \subseteq new.dirs
           /\ new.known = tr.known /\ new.refused = tr.refused /\ new.unheard = tr.unheard
           /\ Keys(new) = {Swapped(from, to, k) : k \in keys \cap Keys(tr)} \cup Keys(tr)
           /\ keys \subseteq Keys(tr) => new.dirs = tr.dirs
<1> DEFINE copies == {Swapped(from, to, k) : k \in keys \cap Keys(tr)}
           obj == [k \in copies \cup Keys(tr) |-> IF k \in copies THEN tr.obj[Swapped(to, from, k)] ELSE tr.obj[k]]
           more == {Swapped(from, to, d) : d \in keys \cap tr.dirs}
<1>1. new = [tr EXCEPT !.obj = obj, !.dirs = tr.dirs \cup more] BY DEF Copied, TreeOK, IsTree
<1>2. DOMAIN obj = copies \cup Keys(tr) OBVIOUS
<1> HIDE DEF obj
<1>3. keys \subseteq Keys(tr) => more = {}
  <2> SUFFICES ASSUME keys \subseteq Keys(tr), NEW d \in keys \cap tr.dirs PROVE FALSE OBVIOUS
  <2> QED BY KeyIsNoDir DEF TreeOK
<1> HIDE DEF more
<1>4. /\ new.kind = tr.kind /\ new.dirs = tr.dirs \cup more /\ new.obj = obj
      /\ new.known = tr.known /\ new.refused = tr.refused /\ new.unheard = tr.unheard
  BY <1>1 DEF TreeOK, IsTree
<1> QED BY <1>2, <1>3, <1>4 DEF Keys

\* One of two keys is beneath the other.
Near(x, y) == Beneath(x, y) \/ Beneath(y, x)

\* What becomes known is there, and on the way to x or beneath it.
Learns(tr, new, x) == /\ tr.known \subseteq new.known
                      /\ \A d \in new.known \ tr.known : d \in new.dirs /\ Near(d, x)

\* The directories on the way to a copy are near the place that it is copied to.
LEMMA WayIsNear ==
    ASSUME NEW i, EntryOK(i), NEW to, TargetOK(i, to), NEW k, KeyOK(k), Within(i, {k}),
           NEW d \in Chain(parent_prefix(Swapped(i.key, to, k)))
    PROVE  Near(d, to)
<1> DEFINE x == Swapped(i.key, to, k)
           p == parent_prefix(x)
<1>1. KeyOK(x) BY SwapKey
<1>2. i.key \in Path /\ to \in Path /\ k \in Path /\ Beneath(i.key, k) BY DEF EntryOK, TargetOK, KeyOK, Within
<1>3. Beneath(to, x) BY <1>2, SwappedBack DEF Path
<1> HIDE DEF x
<1>4. x \in Path /\ x # <<>> /\ p \in Dirs /\ p \in Path BY <1>1, DirsClosed DEF KeyOK
<1>5. d \in Chain(p) BY DEF x
<1>6. d \in Dirs /\ d \in Path BY <1>4, <1>5, ChainClosed, DirsClosed
<1>7. Beneath(d, p) BY <1>4, <1>5, <1>6, ChainIff DEF Path
<1>8. Beneath(d, x) BY <1>4, <1>6, <1>7, BeneathParent DEF Path
<1> QED BY <1>2, <1>3, <1>4, <1>6, <1>8, ApartStays DEF Path, Near

\* Every copy is in a directory that is there, and what becomes known is near it.
LEMMA CopyRooted ==
    ASSUME NEW tr, NEW n, TreeOK(tr, n), Rooted(tr), NEW i, EntryOK(i), NEW to, TargetOK(i, to), NEW keys,
           Within(i, keys), NEW o \in copy(tr, i.key, to, keys)
    PROVE  /\ Rooted(o.tree) /\ tr.dirs \subseteq o.tree.dirs /\ Learns(tr, o.tree, to)
           /\ o.tree.refused = tr.refused /\ o.tree.unheard = tr.unheard
<1>1. CASE tr.kind = "s3"
  <2>1. PICK some : o.tree = Copied(tr, i.key, to, some) BY <1>1 DEF copy, s3_copy, Ok, Outcome
  <2>2. /\ o.tree.kind = tr.kind /\ tr.dirs \subseteq o.tree.dirs /\ o.tree.known = tr.known
        /\ o.tree.refused = tr.refused /\ o.tree.unheard = tr.unheard
    BY <2>1, CopiedDirs
  <2> QED BY <1>1, <2>2 DEF Rooted, Learns
<1>2. CASE tr.kind # "s3"
  <2> DEFINE there == keys \cap Keys(tr)
             place(k) == parent_prefix(Swapped(i.key, to, k))
             chain == UNION {Chain(place(k)) : k \in there}
             stale == (chain \cap tr.known) \ tr.dirs
  <2>1. o \in fs_copy(tr, i.key, to, keys) BY <1>2 DEF copy
  <2>2. ASSUME NEW k \in there PROVE place(k) \in Dirs /\ (place(k) = <<>> \/ place(k) \in Chain(place(k)))
    <3>1. KeyOK(k) /\ Within(i, {k}) BY DEF TreeOK, Within
    <3>2. KeyOK(Swapped(i.key, to, k)) BY <3>1, SwapKey
    <3> QED BY <3>2, ChainsEnd DEF KeyOK
  <2>3. <<>> \in tr.dirs /\ \A d \in tr.dirs : Chain(d) \subseteq tr.dirs BY <1>2 DEF TreeOK, Rooted
  <2>4. CASE stale = {}
    <3> DEFINE tr1 == Made1(tr, chain)
    <3>1. o.tree = Copied(tr1, i.key, to, there) BY <2>1, <2>4 DEF fs_copy, Ok, Outcome
    <3>2. \A d \in chain : d \in Dirs /\ Chain(d) \subseteq chain /\ Near(d, to)
      <4> SUFFICES ASSUME NEW k \in there, NEW d \in Chain(place(k)) PROVE d \in Dirs /\ Chain(d) \subseteq chain /\ Near(d, to)
        OBVIOUS
      <4>1. d \in Dirs /\ Chain(d) \subseteq Chain(place(k)) BY <2>2, ChainClosed
      <4>3. KeyOK(k) /\ Within(i, {k}) BY DEF TreeOK, Within
      <4>2. Near(d, to) BY <4>3, WayIsNear DEF place
      <4> QED BY <4>1, <4>2
    <3>3. \A k \in there : place(k) \in tr.dirs \cup chain BY <2>2, <2>3
    <3> HIDE DEF chain, place
    <3>4. tr1 = [kind |-> tr.kind, dirs |-> tr.dirs \cup chain, known |-> tr.known \cup chain, refused |-> tr.refused,
                 unheard |-> tr.unheard, obj |-> tr.obj]
      <4>1. tr1 = [tr EXCEPT !.dirs = tr.dirs \cup chain, !.known = tr.known \cup chain] BY DEF Made1, TreeOK, IsTree
      <4> HIDE DEF tr1
      <4> QED BY <4>1 DEF TreeOK, IsTree
    <3> HIDE DEF tr1
    <3>5. /\ IsTree(tr1) /\ tr1.kind = tr.kind /\ tr1.obj = tr.obj /\ tr1.dirs = tr.dirs \cup chain
          /\ tr1.known = tr.known \cup chain /\ Keys(tr1) = Keys(tr)
          /\ tr1.refused = tr.refused /\ tr1.unheard = tr.unheard
      BY <3>4 DEF IsTree, Keys
    <3>6. chain \in SUBSET Dirs BY <3>2
    <3>7. TreeOK(tr1, n) BY <3>5, <3>6, MoreDirs
    <3>8. /\ o.tree.kind = tr.kind /\ o.tree.dirs = tr.dirs \cup chain
          /\ Keys(o.tree) = {Swapped(i.key, to, k) : k \in there} \cup Keys(tr)
          /\ o.tree.known = tr.known \cup chain /\ o.tree.refused = tr.refused /\ o.tree.unheard = tr.unheard
      <4>1. there \cap Keys(tr1) = there /\ there \subseteq Keys(tr1) BY <3>5
      <4> HIDE DEF there
      <4> QED BY <3>1, <3>5, <3>7, <4>1, CopiedDirs
    <3>9. \A k \in Keys(o.tree) : parent_prefix(k) \in tr.dirs \cup chain
      <4>1. \A k \in there : parent_prefix(Swapped(i.key, to, k)) \in tr.dirs \cup chain BY <3>3 DEF place
      <4>2. \A k \in Keys(tr) : parent_prefix(k) \in tr.dirs BY <1>2 DEF Rooted
      <4> HIDE DEF there
      <4> QED BY <3>8, <4>1, <4>2
    <3>10. \A d \in tr.dirs \cup chain : Chain(d) \subseteq tr.dirs \cup chain BY <2>3, <3>2
    <3>11. Learns(tr, o.tree, to) BY <3>2, <3>8 DEF Learns
    <3> QED BY <3>8, <3>9, <3>10, <3>11 DEF Rooted
  <2>5. CASE stale # {}
    <3>1. PICK some \in SUBSET {k \in there : Chain(parent_prefix(Swapped(i.key, to, k))) \subseteq tr.dirs} :
            o = Outcome(Copied(tr, i.key, to, some), FALSE)
      BY <2>1, <2>5, Zenon DEF fs_copy
    <3>2. o.tree = Copied(tr, i.key, to, some) /\ some \subseteq Keys(tr) /\ some \cap Keys(tr) = some BY <3>1 DEF Outcome
    <3>3. /\ o.tree.kind = tr.kind /\ o.tree.dirs = tr.dirs
          /\ Keys(o.tree) = {Swapped(i.key, to, k) : k \in some} \cup Keys(tr)
          /\ o.tree.known = tr.known /\ o.tree.refused = tr.refused /\ o.tree.unheard = tr.unheard
      BY <3>2, CopiedDirs
    <3>4. \A k \in some : place(k) \in tr.dirs BY <2>2, <2>3, <3>1
    <3>5. \A k \in Keys(o.tree) : k \in Keys(tr) \/ parent_prefix(k) \in tr.dirs BY <3>3, <3>4
    <3> QED BY <3>3, <3>5, SameDirsRooted DEF Learns
  <2> QED BY <2>4, <2>5
<1> QED BY <1>1, <1>2

LEMMA FlushRooted ==
    ASSUME NEW n, TreeOK(tree, n), Rooted(tree), NEW some \in SUBSET Dirs, \A d \in some : CanPut(d),
           NEW new, new = FlushedTree(some)
    PROVE  /\ Rooted(new) /\ new.dirs = tree.dirs /\ new.known = tree.known /\ new.refused = tree.refused
           /\ new.unheard = tree.unheard
<1> DEFINE keys == {manifest_object_key(d) : d \in some}
           obj == [k \in keys \cup Keys(tree) |-> IF k \in keys THEN buf[parent_prefix(k)].m ELSE tree.obj[k]]
<1>1. new = [tree EXCEPT !.obj = obj] BY DEF FlushedTree
<1>2. DOMAIN obj = keys \cup Keys(tree) OBVIOUS
<1> HIDE DEF obj
<1>3. /\ new.kind = tree.kind /\ new.dirs = tree.dirs /\ new.obj = obj
      /\ new.known = tree.known /\ new.refused = tree.refused /\ new.unheard = tree.unheard
  BY <1>1 DEF TreeOK, IsTree
<1>4. ASSUME NEW d \in some PROVE tree.kind = "s3" \/ parent_prefix(manifest_object_key(d)) \in tree.dirs
  <2>1. d \in Path /\ MANIFEST_KEY \in Segs BY DirsClosed, SegTypes
  <2>2. parent_prefix(manifest_object_key(d)) = d BY <2>1, AppendParent DEF Path, manifest_object_key
  <2> QED BY <2>2 DEF CanPut
<1>5. \A k \in Keys(new) : k \in Keys(tree) \/ tree.kind = "s3" \/ parent_prefix(k) \in tree.dirs
  BY <1>2, <1>3, <1>4 DEF Keys
<1> QED BY <1>3, <1>5, SameDirsRooted

-----------------------------------------------------------------------------
(* What a task has done so far of what it will answer Ok to *)

Cleared(tr, i) == \A k \in FilesIn(tr) \ tr.refused : ~Beneath(i.key, k)
Listed(j, tr, i) == \A k \in FilesIn(tr) : Beneath(i.key, k) => k \in j.got

\* A move leaves an item where it should be, or nothing of it where it was.
Stays(j, i) == parent_prefix(i.key) = j.dest \/ (i.is_dir /\ Beneath(i.key, j.dest))
Settled(j, tr, i) == Stays(j, i) \/ Cleared(tr, i)

OnItem == {"list", "copy", "remove", "rmdir", "take", "insert"}

CreateDone(j, tr) == j.pc \in {"edit", "flush"} => tr.kind = "sftp" \/ Append(j.dest, Seg(j.name)) \in tr.dirs \cup tr.unheard
DeleteDone(j, tr) ==
    /\ j.pc = "start" => j.items = j.all
    /\ j.pc \in {"remove", "rmdir"} => j.items \subseteq j.all /\ \A k \in j.got : \E i \in j.all : Beneath(i.key, k)
    /\ j.pc = "remove" /\ tr.kind = "s3" => \A i \in j.all : Listed(j, tr, i)
    /\ j.pc \in {"remove", "rmdir"} /\ tr.kind # "s3" => \A i \in j.all \ j.items : Cleared(tr, i)
    /\ j.pc = "rmdir" => j.item \in j.all /\ Cleared(tr, j.item)
    /\ j.pc \in {"edit", "flush"} => \A i \in j.all : Cleared(tr, i)
CopyDone(j, tr) == j.pc \in {"copy", "remove"} /\ tr.kind = "s3" => Listed(j, tr, j.item)
MoveDone(j, tr) ==
    /\ j.items \subseteq j.all /\ \A i, i2 \in j.all : parent_prefix(i.key) = parent_prefix(i2.key)
    /\ j.pc \in OnItem => j.item \in j.all \ j.items
    /\ j.pc # "failed" => \A i \in j.all \ j.items : Settled(j, tr, i) \/ (i = j.item /\ j.pc \in {"list", "copy", "remove"})
    /\ j.pc = "flush" => j.items = {}
    /\ CopyDone(j, tr)
RenameDone(j, tr) == /\ j.pc \in {"rmdir", "edit", "flush"} => Cleared(tr, j.item)
                     /\ CopyDone(j, tr)
Progress(j, tr) == /\ j.cmd = "create" => CreateDone(j, tr)
                   /\ j.cmd = "delete" => DeleteDone(j, tr)
                   /\ j.cmd = "move" => MoveDone(j, tr)
                   /\ j.cmd = "rename" => RenameDone(j, tr)

\* What a call is about to note is so, and it is of what its command is about; and a folder
\* that has been made, or found, is there.
CallDone(j, c, tr) ==
    /\ \A d \in c.add : d \in tr.dirs \cup tr.unheard /\ \E x \in About(j) : Near(d, x)
    /\ \A d \in c.left \cup c.drop : Restructures(j) /\ \E x \in About(j) : Beneath(x, d)
    /\ j.cmd = "create" /\ j.pc = "start" => \A x \in About(j) : c.way >= Len(x) => x \in tr.dirs \cup tr.unheard
Stilled(c) == c.add = {} /\ c.drop = {}
Holds(j, c, tr) == (j.pc # "idle" => Progress(j, tr) /\ CallDone(j, c, tr)) /\ (j.pc = "idle" => Stilled(c))

KnownDirs(tr, calls) ==
    tr.kind \in {"smb", "nfs"} => tr.known \subseteq tr.dirs \cup tr.unheard \cup UNION {calls[t].drop : t \in Tasks}

\* No two tasks are in each other's way.
Apart == \A t \in Tasks : \A u \in Tasks \ {t} : Active(t) /\ Active(u) => ~Clash(job[t], job[u])
DoneInv == ~muddled => /\ Rooted(tree) /\ Apart /\ KnownDirs(tree, call)
                       /\ \A t \in Tasks : Holds(job[t], call[t], tree)

-----------------------------------------------------------------------------
(* What the steps of one task do to the progress of the others *)

\* A command removes directories and adds files only beneath what it is about.
Reach(j, tr, new) ==
    /\ tr.refused \subseteq new.refused /\ tr.unheard \subseteq new.unheard
    /\ \A d \in tr.dirs \ new.dirs : Restructures(j) /\ \E x \in About(j) : Beneath(x, d)
    /\ \A k \in FilesIn(new) \ FilesIn(tr) : \E x \in About(j) : Beneath(x, k)

\* The directories on the way to what a command is about, and beneath it, stay.
Undisturbed(j, tr, new) ==
    /\ tr.refused \subseteq new.refused
    /\ \A d \in tr.dirs \cup tr.unheard : d \in About(j) \/ (\E x \in About(j) : Near(d, x)) => d \in new.dirs \cup new.unheard
    /\ Restructures(j) => \A x \in About(j) : \A k \in FilesIn(new) : Beneath(x, k) => k \in FilesIn(tr)

LEMMA AboutPaths ==
    ASSUME NEW j, NEW kind, NEW n, JobOK(j, kind, n), NEW x \in About(j)
    PROVE  x \in Path
<1>1. IsJob(j) /\ PcOK(j, kind) /\ ItemsOK(j) /\ CommandOK(j) /\ UploadOK(j, n) BY DEF JobOK
<1>2. CASE j.cmd = "create"
  <2>1. x = Append(j.dest, Seg(j.name)) BY <1>2 DEF About
  <2> QED BY <1>1, <1>2, <2>1, DirsClosed DEF CommandOK
<1>3. CASE j.cmd = "delete" BY <1>1, <1>3 DEF About, ItemsOK, EntryOK
<1>4. CASE j.cmd = "move"
  <2>1. j.dest \in Path BY <1>1, <1>4, DirsClosed DEF CommandOK
  <2>2. ASSUME NEW i \in j.all PROVE i.key \in Path /\ Append(j.dest, leaf_of(i.key)) \in Path
    <3>1. i.key \in Path /\ i.key # <<>> BY <1>1 DEF ItemsOK, EntryOK
    <3>2. leaf_of(i.key) \in Segs BY <3>1, ParentLeaf DEF Path
    <3> QED BY <2>1, <3>1, <3>2, AppendParent DEF Path
  <2> QED BY <1>4, <2>2 DEF About
<1>5. CASE j.cmd = "rename" BY <1>1, <1>5 DEF About, CommandOK, EntryOK, TargetOK
<1>6. CASE j.cmd = "upload"
  <2>1. x = j.to BY <1>6 DEF About
  <2>2. KeyOK(j.to) BY <1>1, <1>6, UploadPaths DEF UploadOK
  <2> QED BY <2>1, <2>2 DEF KeyOK
<1>7. CASE j.cmd = "size" BY <1>1, <1>7 DEF About, CommandOK, EntryOK
<1>8. CASE j.cmd = "none" BY <1>8 DEF About
<1> QED BY <1>1, <1>2, <1>3, <1>4, <1>5, <1>6, <1>7, <1>8 DEF PcOK, Cmds

\* The other commands are not in its way.
LEMMA OthersUndisturbed ==
    ASSUME NEW j, NEW o, NEW kind, NEW n, JobOK(j, kind, n), JobOK(o, kind, n), ~Clash(j, o), NEW tr, NEW new,
           tr.dirs \subseteq Path, Keys(new) \subseteq Path, Reach(j, tr, new)
    PROVE  Undisturbed(o, tr, new)
<1>1. ASSUME NEW d \in tr.dirs \cup tr.unheard, d \in About(o) \/ \E x \in About(o) : Near(d, x), d \notin new.dirs \cup new.unheard
      PROVE  FALSE
  <2>1. d \in tr.dirs \ new.dirs BY <1>1 DEF Reach
  <2>2. Restructures(j) /\ \E y \in About(j) : Beneath(y, d) BY <2>1 DEF Reach
  <2>3. PICK y \in About(j) : Beneath(y, d) BY <2>2
  <2>4. d \in Path /\ y \in Path BY <2>1, AboutPaths
  <2>5. CASE d \in About(o) BY <2>2, <2>3, <2>5 DEF Clash
  <2>6. CASE d \notin About(o)
    <3>1. PICK x \in About(o) : Near(d, x) BY <1>1, <2>6
    <3>2. x \in Path BY AboutPaths
    <3>3. Beneath(d, x) => Beneath(y, x) BY <2>3, <2>4, <3>2, BeneathTrans DEF Path
    <3>4. Beneath(x, d) => Beneath(x, y) \/ Beneath(y, x) BY <2>3, <2>4, <3>2, ApartStays DEF Path
    <3>5. Beneath(x, y) \/ Beneath(y, x) BY <3>1, <3>3, <3>4 DEF Near
    <3> QED BY <2>2, <2>3, <3>1, <3>5 DEF Clash
  <2> QED BY <2>5, <2>6
<1>2. ASSUME Restructures(o), NEW y \in About(o), NEW k \in FilesIn(new), Beneath(y, k), k \notin FilesIn(tr) PROVE FALSE
  <2>1. PICK x \in About(j) : Beneath(x, k) BY <1>2 DEF Reach
  <2>2. x \in Path /\ y \in Path BY AboutPaths
  <2>3. k \in Path BY DEF FilesIn
  <2>4. Beneath(x, y) \/ Beneath(y, x) BY <1>2, <2>1, <2>2, <2>3, ApartStays DEF Path
  <2> QED BY <1>2, <2>4 DEF Clash
<1>3. tr.refused \subseteq new.refused BY DEF Reach
<1> QED BY <1>1, <1>2, <1>3 DEF Undisturbed

LEMMA StaysCleared ==
    ASSUME NEW j, NEW tr, NEW new, Undisturbed(j, tr, new), Restructures(j), NEW i, i.key \in About(j)
    PROVE  /\ Cleared(tr, i) => Cleared(new, i)
           /\ Listed(j, tr, i) => Listed(j, new, i)
           /\ Settled(j, tr, i) => Settled(j, new, i)
BY DEF Undisturbed, Cleared, Listed, Settled

LEMMA ProgressKept ==
    ASSUME NEW j, NEW tr, NEW new, new.kind = tr.kind, Progress(j, tr), Undisturbed(j, tr, new)
    PROVE  Progress(j, new)
<1>1. CASE j.cmd = "create"
  <2>1. Append(j.dest, Seg(j.name)) \in About(j) BY <1>1 DEF About
  <2> QED BY <1>1, <2>1 DEF Progress, CreateDone, Undisturbed
<1>2. CASE j.cmd = "delete"
  <2>1. \A i \in j.all : i.key \in About(j) BY <1>2 DEF About
  <2>2. \A i \in j.all : /\ Cleared(tr, i) => Cleared(new, i)
                         /\ Listed(j, tr, i) => Listed(j, new, i)
    BY <1>2, <2>1, StaysCleared DEF Restructures
  <2>3. DeleteDone(j, tr) BY <1>2 DEF Progress
  <2>4. DeleteDone(j, new) BY <2>2, <2>3 DEF DeleteDone
  <2> QED BY <1>2, <2>4 DEF Progress
<1>3. CASE j.cmd = "move"
  <2>1. \A i \in j.all : i.key \in About(j) BY <1>3 DEF About
  <2>2. \A i \in j.all : /\ Settled(j, tr, i) => Settled(j, new, i)
                         /\ Listed(j, tr, i) => Listed(j, new, i)
    BY <1>3, <2>1, StaysCleared DEF Restructures
  <2>3. MoveDone(j, tr) BY <1>3 DEF Progress
  <2>4. CopyDone(j, new) BY <2>2, <2>3 DEF MoveDone, CopyDone, OnItem
  <2>5. MoveDone(j, new) BY <2>2, <2>3, <2>4 DEF MoveDone
  <2> QED BY <1>3, <2>5 DEF Progress
<1>4. CASE j.cmd = "rename"
  <2>1. j.item.key \in About(j) BY <1>4 DEF About
  <2>2. /\ Cleared(tr, j.item) => Cleared(new, j.item)
        /\ Listed(j, tr, j.item) => Listed(j, new, j.item)
    BY <1>4, <2>1, StaysCleared DEF Restructures
  <2>3. RenameDone(j, tr) BY <1>4 DEF Progress
  <2>4. RenameDone(j, new) BY <2>2, <2>3 DEF RenameDone, CopyDone
  <2> QED BY <1>4, <2>4 DEF Progress
<1> QED BY <1>1, <1>2, <1>3, <1>4 DEF Progress

LEMMA CallKept ==
    ASSUME NEW j, NEW c, NEW tr, NEW new, CallDone(j, c, tr), Undisturbed(j, tr, new)
    PROVE  CallDone(j, c, new)
BY DEF CallDone, Undisturbed

LEMMA ClashOf ==
    ASSUME NEW j, NEW o, NEW r, r.cmd = j.cmd, About(r) = About(j)
    PROVE  (Clash(r, o) <=> Clash(j, o)) /\ (Clash(o, r) <=> Clash(o, j)) /\ (Clash(j, o) <=> Clash(o, j))
<1>1. {r.cmd, o.cmd} = {j.cmd, o.cmd} /\ {o.cmd, r.cmd} = {o.cmd, j.cmd} /\ {o.cmd, j.cmd} = {j.cmd, o.cmd} OBVIOUS
<1>2. Restructures(r) <=> Restructures(j) BY DEF Restructures
<1> QED BY <1>1, <1>2 DEF Clash

\* The invariant from its parts, as the next state has them.
LEMMA EachDone ==
    ASSUME e2ee' = e2ee, Rooted(tree'), KnownDirs(tree', call'), \A u \in Tasks : Holds(job'[u], call'[u], tree'),
           \A u \in Tasks : \A v \in Tasks \ {u} : job'[u].pc # "idle" /\ job'[v].pc # "idle" => ~Clash(job'[u], job'[v])
    PROVE  DoneInv'
<1>1. Rooted(tree)' /\ KnownDirs(tree, call)' BY DEF KnownDirs
<1>0. ASSUME NEW w \in Tasks PROVE About(job[w])' = About(job'[w]) BY Zenon DEF About, Seg
<1>2. Apart'
  <2> SUFFICES ASSUME NEW u \in Tasks, NEW v \in Tasks \ {u}, Active(u)', Active(v)' PROVE ~Clash(job[u], job[v])'
    BY DEF Apart
  <2>1. ~Clash(job'[u], job'[v]) BY DEF Active
  <2> QED BY <1>0, <2>1 DEF Clash
<1>3. ASSUME NEW u \in Tasks PROVE Holds(job[u], call[u], tree)'
  <2>1. Holds(job'[u], call'[u], tree') OBVIOUS
  <2>2. Progress(job'[u], tree') => Progress(job[u], tree)' BY DEF Progress, CreateDone, Seg
  <2>3. CallDone(job'[u], call'[u], tree') => CallDone(job[u], call[u], tree)' BY <1>0 DEF CallDone
  <2> QED BY <2>1, <2>2, <2>3 DEF Holds
<1> QED BY <1>1, <1>2, <1>3 DEF DoneInv

LEMMA SameAbout ==
    ASSUME NEW j, NEW r, r.cmd = j.cmd, r.all = j.all, r.dest = j.dest, r.name = j.name,
           j.cmd \in {"rename", "size"} => r.item = j.item, j.cmd \in {"rename", "upload"} => r.to = j.to
    PROVE  About(r) = About(j)
<1>1. CASE j.cmd = "create" BY <1>1 DEF About
<1>2. CASE j.cmd = "delete" BY <1>2 DEF About
<1>3. CASE j.cmd = "move" BY <1>3 DEF About
<1>4. CASE j.cmd = "rename" BY <1>4 DEF About
<1>5. CASE j.cmd = "upload" BY <1>5 DEF About
<1>6. CASE j.cmd = "size" BY <1>6 DEF About
<1>7. CASE j.cmd \notin {"create", "delete", "move", "rename", "upload", "size"} BY <1>7 DEF About
<1> QED BY <1>1, <1>2, <1>3, <1>4, <1>5, <1>6, <1>7

\* What a task has to have done when it answers.
LEMMA EffectOf ==
    ASSUME NEW j, j.cmd \in Cmds \ {"none"}, NEW tr,
           j.cmd = "create" => tr.kind = "sftp" \/ Append(j.dest, Seg(j.name)) \in tr.dirs \cup tr.unheard,
           j.cmd = "delete" => \A i \in j.all : Cleared(tr, i),
           j.cmd = "move" => \A i \in j.all : Settled(j, tr, i),
           j.cmd = "rename" => j.to = j.item.key \/ Cleared(tr, j.item)
    PROVE  Effect(j, tr)
<1>1. CASE j.cmd = "create" BY <1>1 DEF Effect
<1>2. CASE j.cmd = "delete" BY <1>2 DEF Effect, Cleared
<1>3. CASE j.cmd = "move" BY <1>3 DEF Effect, Cleared, Settled, Stays
<1>4. CASE j.cmd = "rename" BY <1>4 DEF Effect, Cleared
<1>5. CASE j.cmd \in {"upload", "size"} BY <1>5 DEF Effect
<1> QED BY <1>1, <1>2, <1>3, <1>4, <1>5 DEF Cmds

\* A step takes a task on with what it is about, or it answers.
Own(j, r, new) == \/ r.pc # "idle" /\ r.cmd = j.cmd /\ About(r) = About(j) /\ Progress(r, new)
                  \/ r.pc = "idle" /\ (r.result = "ok" => Effect(j, new))

\* What becomes known, and what is known no more, of what a command is about.
Noted(j, tr, new) ==
    /\ \A d \in new.known \ tr.known : d \in new.dirs \cup new.unheard /\ \E x \in About(j) : Near(d, x)
    /\ \A d \in tr.known \ new.known : Restructures(j) /\ \E x \in About(j) : Beneath(x, d)
    /\ tr.kind \in {"smb", "nfs"} => new.known \cap (tr.dirs \ new.dirs) = {}

\* A task that goes on has noted all that it knows.
Ready(t) == /\ CallDone(job[t], call[t], tree) /\ Stilled(call[t])
            /\ tree.kind \in {"smb", "nfs"} => About(job[t]) \cap tree.known \subseteq tree.dirs \cup tree.unheard

\* The directories that go and are still known are about to be forgotten, or nobody was told.
GoesOn(t, r, c) ==
    /\ job' = [job EXCEPT ![t] = r] /\ call' = [call EXCEPT ![t] = c] /\ Own(job[t], r, tree')
    /\ r.pc # "idle" => CallDone(r, c, tree')
    /\ r.pc = "idle" => Stilled(c)
    /\ tree.kind \in {"smb", "nfs"} => tree'.known \cap (tree.dirs \ tree'.dirs) \subseteq tree'.unheard \cup c.drop
StepDone(t) == /\ \E r, c : GoesOn(t, r, c)
               /\ tree'.known \subseteq tree.known
               /\ Reach(job[t], tree, tree') /\ Rooted(tree') /\ tree'.kind = tree.kind /\ e2ee' = e2ee

LEMMA TaskDone ==
    ASSUME DirInv, DirInv', DoneInv, ~muddled, NEW t \in Tasks, Active(t), Stilled(call[t]), StepDone(t)
    PROVE  DoneInv' /\ \A u \in Tasks : Answers(u) => Effect(job[u], tree')
<1> DEFINE j == job[t]
<1>1. PICK r, c : GoesOn(t, r, c) BY DEF StepDone
<1>0. Own(j, r, tree') BY <1>1 DEF GoesOn
<1>2. job'[t] = r /\ \A u \in Tasks \ {t} : job'[u] = job[u] BY <1>1 DEF DirInv, IsFun, GoesOn
<1>11. call'[t] = c /\ \A u \in Tasks \ {t} : call'[u] = call[u] BY <1>1 DEF DirInv, CallsOK, GoesOn
<1>3. Reach(j, tree, tree') /\ Rooted(tree') /\ tree'.kind = tree.kind /\ e2ee' = e2ee /\ tree'.known \subseteq tree.known
  BY DEF StepDone
<1>4. Rooted(tree) /\ Apart /\ KnownDirs(tree, call) /\ \A u \in Tasks : Holds(job[u], call[u], tree) BY DEF DoneInv
<1>5. Keys(tree') \subseteq Path BY DEF DirInv, TreeOK, KeyOK
<1>12. tree.dirs \subseteq Path BY DirsClosed DEF DirInv, TreeOK
<1>6. ASSUME NEW u \in Tasks \ {t}, Active(u) PROVE ~Clash(j, job[u]) /\ ~Clash(job[u], j) BY <1>4, <1>6 DEF Apart
<1>7. ASSUME NEW u \in Tasks PROVE Holds(job'[u], call'[u], tree')
  <2>1. CASE u = t BY <1>1, <1>2, <1>11, <2>1 DEF Own, Holds, GoesOn
  <2>2. CASE u # t
    <3>1. job'[u] = job[u] /\ call'[u] = call[u] BY <1>2, <1>11, <2>2
    <3>2. CASE Active(u)
      <4>1. ~Clash(j, job[u]) /\ Progress(job[u], tree) /\ CallDone(job[u], call[u], tree)
        BY <1>4, <1>6, <2>2, <3>2 DEF Holds, Active
      <4>2. JobOK(j, tree.kind, contents) /\ JobOK(job[u], tree.kind, contents) BY TheJob
      <4>3. Undisturbed(job[u], tree, tree') BY <1>3, <1>5, <1>12, <4>1, <4>2, OthersUndisturbed
      <4>4. Progress(job[u], tree') BY <1>3, <4>1, <4>3, ProgressKept
      <4>5. CallDone(job[u], call[u], tree') BY <4>1, <4>3, CallKept
      <4> QED BY <3>1, <3>2, <4>4, <4>5 DEF Holds, Active
    <3>3. CASE ~Active(u) BY <1>4, <3>1, <3>3 DEF Holds, Active
    <3> QED BY <3>2, <3>3
  <2> QED BY <2>1, <2>2
<1>8. ASSUME NEW u \in Tasks, NEW v \in Tasks \ {u}, job'[u].pc # "idle", job'[v].pc # "idle"
      PROVE  ~Clash(job'[u], job'[v])
  <2>1. CASE u # t /\ v # t BY <1>2, <1>4, <1>8, <2>1 DEF Apart, Active
  <2>2. CASE u = t
    <3>1. r.cmd = j.cmd /\ About(r) = About(j) BY <1>0, <1>2, <1>8, <2>2 DEF Own
    <3>2. ~Clash(j, job[v]) /\ job'[v] = job[v] BY <1>2, <1>6, <1>8, <2>2 DEF Active
    <3> QED BY <1>2, <2>2, <3>1, <3>2, ClashOf
  <2>3. CASE v = t
    <3>1. r.cmd = j.cmd /\ About(r) = About(j) BY <1>0, <1>2, <1>8, <2>3 DEF Own
    <3>2. ~Clash(job[u], j) /\ job'[u] = job[u] BY <1>2, <1>6, <1>8, <2>3 DEF Active
    <3> QED BY <1>2, <2>3, <3>1, <3>2, ClashOf
  <2> QED BY <2>1, <2>2, <2>3
<1>13. KnownDirs(tree', call')
  <2> SUFFICES ASSUME tree.kind \in {"smb", "nfs"}, NEW d \in tree'.known
               PROVE  d \in tree'.dirs \cup tree'.unheard \/ \E u \in Tasks : d \in call'[u].drop
    BY <1>3 DEF KnownDirs
  <2>1. d \in tree.dirs \cup tree.unheard \/ \E u \in Tasks : d \in call[u].drop BY <1>3, <1>4 DEF KnownDirs
  <2>2. CASE d \in tree.dirs
    <3>1. d \in tree'.dirs \/ d \in tree'.unheard \/ d \in c.drop BY <1>1, <2>2 DEF GoesOn
    <3> QED BY <1>11, <3>1
  <2>3. CASE d \in tree.unheard BY <1>3, <2>3 DEF Reach
  <2>4. CASE \E u \in Tasks : d \in call[u].drop
    <3>1. PICK u \in Tasks : d \in call[u].drop BY <2>4
    <3>2. u # t BY <3>1 DEF Stilled
    <3> QED BY <1>11, <3>1, <3>2
  <2> QED BY <2>1, <2>2, <2>3, <2>4
<1>9. DoneInv' BY <1>3, <1>7, <1>8, <1>13, EachDone
<1>10. ASSUME NEW u \in Tasks, Answers(u) PROVE Effect(job[u], tree')
  <2>1. job[u].pc # "idle" /\ job'[u].pc = "idle" /\ job'[u].result = "ok" BY <1>10 DEF Answers, Active
  <2>2. u = t BY <1>2, <2>1
  <2>3. r.pc = "idle" /\ r.result = "ok" BY <1>2, <2>1, <2>2
  <2> QED BY <1>0, <2>2, <2>3 DEF Own
<1> QED BY <1>9, <1>10

LEMMA GoesOwn ==
    ASSUME DirInv, NEW t \in Tasks, NEW p, p # "idle", NEW new, Progress(Goes(t, p), new)
    PROVE  Own(job[t], Goes(t, p), new)
<1> DEFINE r == Goes(t, p)
<1>1. /\ r.pc = p /\ r.cmd = job[t].cmd /\ r.all = job[t].all /\ r.dest = job[t].dest /\ r.name = job[t].name
      /\ r.item = job[t].item /\ r.to = job[t].to
  BY GoesTo
<1> HIDE DEF r
<1>2. About(r) = About(job[t]) BY <1>1, SameAbout
<1> QED BY <1>1, <1>2 DEF Own, r

LEMMA AnswersOwn ==
    ASSUME NEW j, NEW new
    PROVE  (Effect(j, new) => Own(j, Answered("ok"), new)) /\ Own(j, Answered("err"), new)
<1>1. \A x : Answered(x).pc = "idle" /\ Answered(x).result = x BY DEF Answered
<1> QED BY <1>1 DEF Own

LEMMA FailedOwn ==
    ASSUME DirInv, NEW t \in Tasks, Progress(job[t], tree), NEW new
    PROVE  Own(job[t], Goes(t, "failed"), new)
<1> DEFINE r == Goes(t, "failed")
<1>1. r.pc = "failed" /\ r.cmd = job[t].cmd /\ r.all = job[t].all /\ r.items = job[t].items BY GoesTo
<1> HIDE DEF r
<1>2. Progress(r, new)
  BY <1>1 DEF Progress, CreateDone, DeleteDone, MoveDone, RenameDone, CopyDone, OnItem
<1> QED BY <1>2, GoesOwn DEF r

\* The directories stay, and no file comes.
LEMMA NoReach ==
    ASSUME NEW j, NEW tr, NEW new, tr.dirs \subseteq new.dirs, FilesIn(new) \subseteq FilesIn(tr),
           tr.refused \subseteq new.refused, tr.unheard \subseteq new.unheard
    PROVE  Reach(j, tr, new)
BY DEF Reach

\* The call of a task that goes on, or starts again.
LEMMA CallStays ==
    ASSUME DirInv, NEW t \in Tasks, Ready(t), NEW c \in {call[t], NoCall}, NEW r, Own(job[t], r, tree'),
           r.pc = "start" /\ job[t].cmd = "create" => c = NoCall
    PROVE  /\ Stilled(c)
           /\ r.pc # "idle" => CallDone(r, c, tree')
<1>1. /\ Stilled(c) /\ c.left \subseteq call[t].left /\ (c = NoCall => c.way = 0) BY DEF Ready, Stilled, NoCall
<1>2. ASSUME r.pc # "idle" PROVE CallDone(r, c, tree')
  <2>1. r.cmd = job[t].cmd /\ About(r) = About(job[t]) /\ (Restructures(r) <=> Restructures(job[t])) BY <1>2 DEF Own, Restructures
  <2>2. \A d \in c.left \cup c.drop : Restructures(r) /\ \E x \in About(r) : Beneath(x, d)
    BY <1>1, <2>1 DEF Ready, CallDone, Stilled
  <2>3. ASSUME r.cmd = "create", r.pc = "start", NEW x \in About(r) PROVE ~(c.way >= Len(x))
    <3>1. c.way = 0 BY <1>1, <2>1, <2>3
    <3>2. JobOK(job[t], tree.kind, contents) BY TheJob
    <3>3. x = Append(job[t].dest, Seg(job[t].name)) BY <2>1, <2>3 DEF About
    <3>4. job[t].dest \in Dirs /\ x \in Dirs BY <2>1, <2>3, <3>2, <3>3 DEF JobOK, CommandOK
    <3>5. job[t].dest \in Path /\ x \in Path BY <3>4, DirsClosed
    <3>6. x # <<>> BY <3>3, <3>5, AppendProperties DEF Path
    <3>7. Len(x) \in Nat /\ Len(x) # 0 BY <3>5, <3>6, LenProperties, EmptySeq DEF Path
    <3> QED BY <3>1, <3>7
  <2> QED BY <1>1, <2>2, <2>3 DEF CallDone, Stilled
<1> QED BY <1>1, <1>2

\* A step that leaves the directories and takes no file anywhere.
LEMMA PlainDone ==
    ASSUME DirInv, NEW t \in Tasks, Ready(t), NEW r, job' = [job EXCEPT ![t] = r], Own(job[t], r, tree'), e2ee' = e2ee,
           call' = call \/ call' = [call EXCEPT ![t] = NoCall],
           r.pc = "start" /\ job[t].cmd = "create" => call' = [call EXCEPT ![t] = NoCall],
           Reach(job[t], tree, tree'), Rooted(tree'), tree'.kind = tree.kind, tree'.known \subseteq tree.known,
           tree.kind \in {"smb", "nfs"} => tree.dirs \subseteq tree'.dirs
    PROVE  StepDone(t)
<1>1. call = [call EXCEPT ![t] = call[t]] BY DEF DirInv, CallsOK
<1>2. PICK c \in {call[t], NoCall} : /\ call' = [call EXCEPT ![t] = c]
                                     /\ r.pc = "start" /\ job[t].cmd = "create" => c = NoCall
  BY <1>1
<1>3. Stilled(c) /\ (r.pc # "idle" => CallDone(r, c, tree')) BY <1>2, CallStays
<1>4. GoesOn(t, r, c) BY <1>2, <1>3 DEF GoesOn
<1> QED BY <1>4 DEF StepDone

\* The own progress of a task, once all of its files have stayed or gone.
LEMMA OwnLike ==
    ASSUME NEW j, NEW r, NEW tr, NEW new, Like(tr, new), tr.unheard \subseteq new.unheard, Own(j, r, tr)
    PROVE  Own(j, r, new)
<1>1. FilesIn(new) = FilesIn(tr) /\ new.dirs = tr.dirs /\ new.kind = tr.kind /\ new.refused = tr.refused BY DEF Like, FilesIn, Keys
<1>2. Undisturbed(r, tr, new) BY <1>1 DEF Undisturbed
<1>3. Progress(r, tr) => Progress(r, new) BY <1>1, <1>2, ProgressKept
<1>4. Effect(j, tr) => Effect(j, new) BY <1>1 DEF Effect
<1> QED BY <1>3, <1>4 DEF Own

\* What the outcomes of a request have to show for the task to go on as `next`, with the call c.
Serves(t, o, next, c) ==
    /\ TreeOK(o.tree, contents) /\ o.tree.kind = tree.kind /\ Reach(job[t], tree, o.tree) /\ Rooted(o.tree)
    /\ Noted(job[t], tree, o.tree)
    /\ o.ok => /\ Own(job[t], next, o.tree)
               /\ next.pc = "idle" => o.tree.known = tree.known
               /\ next.cmd = "create" /\ next.pc = "start" =>
                     \A x \in About(next) : c.way >= Len(x) => x \in o.tree.dirs \cup o.tree.unheard

LEMMA AsksDone ==
    ASSUME DirInv, Rooted(tree), NEW t \in Tasks, Progress(job[t], tree), Ready(t),
           NEW outcomes, NEW next, NEW c, Asks(t, outcomes, next, c), e2ee' = e2ee, CallOK(c),
           \A d \in c.left : Restructures(job[t]) /\ \E x \in About(job[t]) : Beneath(x, d),
           \A o \in outcomes : Serves(t, o, next, c)
    PROVE  StepDone(t)
<1> DEFINE f == Goes(t, "failed")
<1>0. TreeOK(tree, contents) BY DEF DirInv
<1>1. PICK o \in outcomes : Heard(t, o, next, c) \/ Unanswered(t, o)
  <2>1. \A o \in outcomes : TreeOK(o.tree, contents) /\ o.tree.kind = tree.kind BY DEF Serves
  <2> QED BY <1>0, <2>1, AsksEnds
<1>2. Serves(t, o, next, c) OBVIOUS
<1>3. f.pc = "failed" /\ f.cmd = job[t].cmd BY GoesTo
<1>4. Own(job[t], f, tree') BY FailedOwn
<1>5. About(f) = About(job[t]) /\ (Restructures(f) <=> Restructures(job[t])) BY <1>3, <1>4 DEF Own, Restructures
<1> HIDE DEF f
<1>6. CASE Heard(t, o, next, c)
  <2> DEFINE add == o.tree.known \ tree.known
             drop == tree.known \ o.tree.known
             x == [c EXCEPT !.add = add, !.drop = drop]
             r == IF o.ok THEN next ELSE f
  <2>1. /\ Like(o.tree, tree') /\ tree'.known = tree.known /\ tree'.unheard = o.tree.unheard
        /\ job' = [job EXCEPT ![t] = r] /\ call' = [call EXCEPT ![t] = x]
    BY <1>6 DEF Heard, f
  <2>0. IsCall(c) BY DEF CallOK
  <2>2. x.way = c.way /\ x.left = c.left /\ x.add = add /\ x.drop = drop
    <3> HIDE DEF add, drop
    <3>1. x = [c EXCEPT !.add = add, !.drop = drop] OBVIOUS
    <3> HIDE DEF x
    <3>2. x = [way |-> c.way, left |-> c.left, add |-> add, drop |-> drop] BY <2>0, <3>1 DEF IsCall
    <3> QED BY <3>2
  <2>3. tree'.dirs = o.tree.dirs /\ tree'.kind = tree.kind /\ tree'.refused = o.tree.refused /\ FilesIn(tree') = FilesIn(o.tree)
    BY <1>2, <2>1 DEF Like, Serves, FilesIn, Keys
  <2>4. Own(job[t], r, tree')
    <3>1. CASE ~o.ok BY <1>4, <3>1
    <3>2. CASE o.ok
      <4>1. Own(job[t], next, o.tree) BY <1>2, <3>2 DEF Serves
      <4>2. Own(job[t], next, tree') BY <2>1, <4>1, OwnLike
      <4> QED BY <3>2, <4>2
    <3> QED BY <3>1, <3>2
  <2>5. ASSUME r.pc # "idle" PROVE CallDone(r, x, tree')
    <3>1. About(r) = About(job[t]) /\ r.cmd = job[t].cmd /\ (Restructures(r) <=> Restructures(job[t])) BY <2>4, <2>5 DEF Own, Restructures
    <3>2. \A d \in add : d \in tree'.dirs \cup tree'.unheard /\ \E y \in About(r) : Near(d, y)
      BY <1>2, <2>1, <2>3, <3>1 DEF Serves, Noted
    <3>3. \A d \in c.left \cup drop : Restructures(r) /\ \E y \in About(r) : Beneath(y, d) BY <1>2, <3>1 DEF Serves, Noted
    <3>4. r.cmd = "create" /\ r.pc = "start" => \A y \in About(r) : c.way >= Len(y) => y \in tree'.dirs \cup tree'.unheard
      BY <1>2, <1>3, <2>1, <2>3 DEF Serves
    <3> HIDE DEF x, add, drop, r
    <3> QED BY <2>2, <3>2, <3>3, <3>4 DEF CallDone
  <2>6. r.pc = "idle" => add = {} /\ drop = {} BY <1>2, <1>3 DEF Serves
  <2>7. tree.kind \in {"smb", "nfs"} => tree'.known \cap (tree.dirs \ tree'.dirs) \subseteq drop
    BY <1>2, <2>1, <2>3 DEF Serves, Noted
  <2>8. Reach(job[t], tree, tree') BY <1>2, <2>1, <2>3 DEF Serves, Reach
  <2>9. Rooted(tree') BY <1>2, <2>1, <2>3 DEF Serves, Rooted, Like, Keys
  <2> HIDE DEF x, add, drop, r
  <2>10. GoesOn(t, r, x) BY <2>1, <2>2, <2>4, <2>5, <2>6, <2>7 DEF GoesOn, Stilled
  <2> QED BY <2>1, <2>3, <2>8, <2>9, <2>10 DEF StepDone
<1>7. CASE Unanswered(t, o)
  <2>1. job' = [job EXCEPT ![t] = f] /\ call' = call BY <1>7 DEF Unanswered, f
  <2>2. call' = [call EXCEPT ![t] = call[t]] BY <2>1 DEF DirInv, CallsOK
  <2>3. CallDone(f, call[t], tree') BY <1>3, <1>5 DEF Ready, CallDone, Stilled
  <2>4. /\ tree'.known = tree.known /\ tree'.kind = tree.kind /\ Rooted(tree') /\ Reach(job[t], tree, tree')
        /\ tree.dirs \ tree'.dirs \subseteq tree'.unheard
    <3>1. CASE tree' = tree BY <3>1, NoReach
    <3>2. CASE tree' # tree
      <4>1. Like(o.tree, tree') /\ tree'.known = tree.known /\ tree'.unheard = o.tree.unheard \cup (tree.dirs \ o.tree.dirs)
        BY <1>7, <3>2 DEF Unanswered
      <4>2. tree'.dirs = o.tree.dirs /\ tree'.kind = tree.kind /\ tree'.refused = o.tree.refused /\ FilesIn(tree') = FilesIn(o.tree)
        BY <1>2, <4>1 DEF Like, Serves, FilesIn, Keys
      <4>3. Reach(job[t], tree, tree') BY <1>2, <4>1, <4>2 DEF Serves, Reach
      <4>4. Rooted(tree') BY <1>2, <4>1, <4>2 DEF Serves, Rooted, Like, Keys
      <4> QED BY <4>1, <4>2, <4>3, <4>4
    <3> QED BY <3>1, <3>2
  <2>5. GoesOn(t, f, call[t]) BY <1>3, <1>4, <2>1, <2>2, <2>3, <2>4 DEF GoesOn
  <2> QED BY <2>4, <2>5 DEF StepDone
<1> QED BY <1>1, <1>6, <1>7

LEMMA RequestDone ==
    ASSUME DirInv, Rooted(tree), NEW t \in Tasks, Progress(job[t], tree), Ready(t),
           NEW outcomes, NEW next, Request(t, outcomes, next), e2ee' = e2ee, next.pc # "start",
           \A o \in outcomes : /\ TreeOK(o.tree, contents) /\ o.tree.kind = tree.kind
                               /\ Reach(job[t], tree, o.tree) /\ Rooted(o.tree) /\ Noted(job[t], tree, o.tree)
                               /\ o.ok => Own(job[t], next, o.tree) /\ (next.pc = "idle" => o.tree.known = tree.known)
    PROVE  StepDone(t)
<1>1. Asks(t, outcomes, next, NoCall) /\ CallOK(NoCall) BY NoCallOK DEF Request
<1>2. NoCall.left = {} BY DEF NoCall
<1>3. \A o \in outcomes : Serves(t, o, next, NoCall) BY DEF Serves
<1> QED BY <1>1, <1>2, <1>3, AsksDone

LEMMA AskDone ==
    ASSUME DirInv, Rooted(tree), NEW t \in Tasks, Progress(job[t], tree), Ready(t), NEW ok, NEW next,
           Request(t, {Outcome(tree, ok)}, next), e2ee' = e2ee, next.pc # "start", ok => Own(job[t], next, tree)
    PROVE  StepDone(t)
<1> DEFINE outcomes == {Outcome(tree, ok)}
<1>1. Reach(job[t], tree, tree) BY NoReach
<1>2. \A o \in outcomes : o.tree = tree /\ (o.ok <=> ok) BY DEF Outcome
<1>4. Noted(job[t], tree, tree) /\ TreeOK(tree, contents) BY DEF Noted, DirInv
<1>3. \A o \in outcomes : /\ TreeOK(o.tree, contents) /\ o.tree.kind = tree.kind
                          /\ Reach(job[t], tree, o.tree) /\ Rooted(o.tree) /\ Noted(job[t], tree, o.tree)
                          /\ o.ok => Own(job[t], next, o.tree) /\ (next.pc = "idle" => o.tree.known = tree.known)
  BY <1>1, <1>2, <1>4
<1>5. Request(t, outcomes, next) OBVIOUS
<1> HIDE DEF outcomes
<1> QED BY <1>3, <1>5, RequestDone

LEMMA StayDone ==
    ASSUME DirInv, Rooted(tree), NEW t \in Tasks, Ready(t), NEW r, job' = [job EXCEPT ![t] = r], Own(job[t], r, tree'),
           tree' = tree, e2ee' = e2ee, call' = call \/ call' = [call EXCEPT ![t] = NoCall],
           ~(r.pc = "start" /\ job[t].cmd = "create")
    PROVE  StepDone(t)
<1>1. Reach(job[t], tree, tree') BY NoReach
<1> QED BY <1>1, PlainDone

LEMMA LeavesDone ==
    ASSUME DirInv, Rooted(tree), NEW t \in Tasks, Ready(t), NEW r, Leaves(t, r), Own(job[t], r, tree), e2ee' = e2ee,
           ~(r.pc = "start" /\ job[t].cmd = "create")
    PROVE  StepDone(t)
<1>1. tree' = tree /\ job' = [job EXCEPT ![t] = r] /\ call' = [call EXCEPT ![t] = NoCall] BY DEF Leaves, Becomes
<1> QED BY <1>1, StayDone

\* A task stays where it is in its code.
LEMMA SelfOwn ==
    ASSUME NEW j, j.pc # "idle", NEW tr, Progress(j, tr), NEW new, new.kind = tr.kind, FilesIn(new) \subseteq FilesIn(tr),
           tr.refused \subseteq new.refused, tr.unheard \subseteq new.unheard,
           tr.dirs \subseteq new.dirs \/ j.cmd # "create"
    PROVE  Own(j, j, new)
<1>1. CASE tr.dirs \subseteq new.dirs
  <2>1. Undisturbed(j, tr, new) BY <1>1 DEF Undisturbed
  <2> QED BY <2>1, ProgressKept DEF Own
<1>2. CASE j.cmd # "create"
  <2> DEFINE mid == [kind |-> new.kind, dirs |-> tr.dirs, known |-> new.known, refused |-> new.refused,
                     unheard |-> tr.unheard, obj |-> new.obj]
  <2>1. mid.dirs = tr.dirs /\ mid.unheard = tr.unheard /\ mid.refused = new.refused /\ mid.kind = new.kind /\ FilesIn(mid) = FilesIn(new)
    BY DEF FilesIn, Keys
  <2> HIDE DEF mid
  <2>2. Undisturbed(j, tr, mid) BY <2>1 DEF Undisturbed
  <2>3. Progress(j, mid) BY <2>1, <2>2, ProgressKept
  <2>4. Progress(j, new)
    BY <1>2, <2>1, <2>3 DEF Progress, DeleteDone, MoveDone, RenameDone, CopyDone, Settled, Cleared, Listed
  <2> QED BY <2>4 DEF Own
<1> QED BY <1>1, <1>2

\* One directory more on the way to what the command is about.
LEMMA PrepareDone ==
    ASSUME DirInv, Rooted(tree), NEW t \in Tasks, job[t].pc # "idle", Progress(job[t], tree), Ready(t),
           NEW dir \in Dirs, Prepare(t, dir), e2ee' = e2ee, NEW y \in About(job[t]), Beneath(dir, y),
           job[t].cmd = "create" => y = dir
    PROVE  StepDone(t)
<1>1. PICK n \in 1 .. Len(dir) :
         /\ SubSeq(dir, 1, n) \in Dirs /\ tree.kind # "s3"
         /\ Asks(t, prepare_parents(tree, SubSeq(dir, 1, n)), job[t], [NoCall EXCEPT !.way = n])
  BY WayOf
<1> DEFINE d == SubSeq(dir, 1, n)
           c == [NoCall EXCEPT !.way = n]
<1>2. n \in Nat /\ n # 0 OBVIOUS
<1>3. TreeOK(tree, contents) /\ JobOK(job[t], tree.kind, contents) BY DEF DirInv
<1>4. CallOK(c) /\ c.left = {} /\ c.way = n
  <2>1. c = [way |-> n, left |-> {}, add |-> {}, drop |-> {}] /\ CallOK(c) BY <1>2, WayCall
  <2> HIDE DEF c
  <2> QED BY <2>1
<1>5. dir \in Path /\ y \in Path BY <1>3, DirsClosed, AboutPaths
<1>6. d \in Dirs /\ d # <<>> /\ Len(d) = n /\ d \in Path /\ Near(d, y)
  <2>1. d \in Chain(dir) BY DEF Chain
  <2>2. d \in Dirs /\ d # <<>> /\ d \in Path BY <2>1, ChainClosed, DirsClosed
  <2>3. Beneath(d, dir) BY <1>5, <2>1, <2>2, ChainIff DEF Path
  <2>4. Beneath(d, y) BY <1>5, <2>2, <2>3, BeneathTrans DEF Path
  <2>5. n \in 0 .. Len(dir) OBVIOUS
  <2>6. Len(d) = n BY <1>5, <2>5, PrefixOf DEF Path
  <2> QED BY <2>2, <2>4, <2>6 DEF Near
<1>7. ASSUME n >= Len(dir) PROVE d = dir
  <2>1. Len(dir) \in Nat BY <1>5, LenProperties DEF Path
  <2>2. n = Len(dir) BY <1>7, <2>1
  <2>3. Beneath(d, dir) BY <1>1, <1>5, <1>6, ChainIff DEF Path, Chain
  <2> QED BY <1>5, <1>6, <2>2, <2>3, SameLength DEF Path
<1> HIDE DEF d, c
<1>8. ASSUME NEW o \in prepare_parents(tree, d) PROVE Serves(t, o, job[t], c)
  <2>1. /\ TreeOK(o.tree, contents) /\ o.tree.kind = tree.kind /\ o.tree.obj = tree.obj /\ o.tree.refused = tree.refused
        /\ o.tree.unheard = tree.unheard
        /\ \/ ~o.ok /\ o.tree = tree
           \/ o.ok /\ o.tree.dirs = tree.dirs \cup {d} /\ o.tree.known = tree.known \cup {d}
    BY <1>1, <1>3, <1>6, PrepareOK
  <2>2. Rooted(o.tree) /\ tree.dirs \subseteq o.tree.dirs BY <1>1, <1>3, <1>6, PrepareRooted
  <2>3. FilesIn(o.tree) = FilesIn(tree) BY <2>1 DEF FilesIn, Keys
  <2>4. Reach(job[t], tree, o.tree) BY <2>1, <2>2, <2>3, NoReach
  <2>5. Noted(job[t], tree, o.tree) BY <1>6, <2>1, <2>2 DEF Noted
  <2>6. Own(job[t], job[t], o.tree) BY <2>1, <2>2, <2>3, SelfOwn
  <2>7. o.ok /\ job[t].cmd = "create" => \A x \in About(job[t]) : c.way >= Len(x) => x \in o.tree.dirs
    <3>1. job[t].cmd = "create" => \A x \in About(job[t]) : x = dir BY DEF About
    <3> QED BY <1>4, <1>7, <2>1, <3>1
  <2> QED BY <2>1, <2>2, <2>4, <2>5, <2>6, <2>7 DEF Serves
<1>9. Asks(t, prepare_parents(tree, d), job[t], c) BY <1>1 DEF d, c
<1> QED BY <1>4, <1>8, <1>9, AsksDone

\* One directory less of those that a command has found.
LEMMA RmdirDone ==
    ASSUME DirInv, Rooted(tree), NEW t \in Tasks, job[t].pc # "idle", Progress(job[t], tree), Ready(t),
           Rmdir(t), e2ee' = e2ee, tree.kind # "s3", job[t].cmd # "create"
    PROVE  StepDone(t)
<1> DEFINE left == call[t].left
<1>1. PICK d \in left : Asks(t, rmdir(tree, d), job[t], [NoCall EXCEPT !.left = left \ {d}]) BY Zenon DEF Rmdir
<1> DEFINE less == left \ {d}
           c == [NoCall EXCEPT !.left = less]
<1>2. TreeOK(tree, contents) BY DEF DirInv
<1>3. left \subseteq Dirs \ {<<>>} /\ less \subseteq left BY DEF DirInv, CallsOK, CallOK
<1>4. \A e \in left : Restructures(job[t]) /\ \E x \in About(job[t]) : Beneath(x, e) BY DEF Ready, CallDone
<1>5. Asks(t, rmdir(tree, d), job[t], c) BY <1>1
<1>6. d # <<>> /\ d \in left BY <1>1, <1>3
<1> HIDE DEF less, left
<1>7. CallOK(c) /\ c.left = less
  <2>1. c = [way |-> 0, left |-> less, add |-> {}, drop |-> {}] /\ CallOK(c) BY <1>3, LeftCall
  <2> HIDE DEF c
  <2> QED BY <2>1
<1> HIDE DEF c
<1>8. ASSUME NEW o \in rmdir(tree, d) PROVE Serves(t, o, job[t], c)
  <2>1. /\ TreeOK(o.tree, contents) /\ o.tree.kind = tree.kind /\ o.tree.obj = tree.obj
        /\ o.tree.refused = tree.refused /\ o.tree.unheard = tree.unheard
        /\ \/ ~o.ok /\ o.tree = tree
           \/ /\ o.ok /\ o.tree.dirs = tree.dirs \ {d} /\ Empty(tree, d)
              /\ o.tree.known = tree.known \ {d} \/ (tree.kind = "sftp" /\ o.tree.known = tree.known)
    BY <1>2, <1>6, RmdirOK
  <2>2. Rooted(o.tree) BY <1>2, <1>6, RmdirRooted
  <2>3. FilesIn(o.tree) = FilesIn(tree) BY <2>1 DEF FilesIn, Keys
  <2>4. Reach(job[t], tree, o.tree) BY <1>4, <1>6, <2>1, <2>3 DEF Reach
  <2>5. Noted(job[t], tree, o.tree) BY <1>4, <1>6, <2>1 DEF Noted
  <2>6. Own(job[t], job[t], o.tree) BY <2>1, <2>3, SelfOwn
  <2> QED BY <2>1, <2>2, <2>4, <2>5, <2>6 DEF Serves
<1> QED BY <1>3, <1>4, <1>5, <1>7, <1>8, AsksDone

-----------------------------------------------------------------------------
(* Every step of a task, and what it answers to *)

LEMMA CreateMakeDone == ASSUME DirInv, Rooted(tree), NEW t \in Tasks, Progress(job[t], tree), Ready(t), CreateMake(t) PROVE StepDone(t)
<1> DEFINE j == job[t]
           key == Append(j.dest, Seg(j.name))
           outcomes == Ok([tree EXCEPT !.dirs = @ \cup {key}])
           next == IF e2ee THEN Goes(t, "edit") ELSE Answered("ok")
<1>1. JobOK(j, tree.kind, contents) /\ TreeOK(tree, contents) BY TheJob
<1>2. /\ j.pc = "start" /\ j.cmd = "create" /\ e2ee' = e2ee
      /\ tree.kind = "s3" => Request(t, outcomes, next)
      /\ tree.kind # "s3" => Prepare(t, key) \/ (Prepared(t, key) /\ Leaves(t, next))
  BY DEF CreateMake
<1>3. key \in Dirs /\ key # <<>> /\ key \in Path /\ key \in About(j)
  <2>1. key \in Dirs /\ j.dest \in Dirs BY <1>1, <1>2 DEF JobOK, CommandOK
  <2>2. j.dest \in Path BY <2>1, DirsClosed
  <2>3. key \in About(j) BY <1>2 DEF About
  <2>4. key # <<>> BY <2>1, <2>2, AppendProperties DEF Path
  <2>5. key \in Path BY <2>1, DirsClosed
  <2> HIDE DEF key
  <2> QED BY <2>1, <2>3, <2>4, <2>5
<1>4. ASSUME NEW new, new.kind = "sftp" \/ key \in new.dirs \cup new.unheard PROVE Own(j, next, new)
  <2>1. CASE e2ee
    <3> DEFINE r == Goes(t, "edit")
    <3>1. r.cmd = j.cmd /\ r.dest = j.dest /\ r.name = j.name BY GoesTo
    <3> HIDE DEF r
    <3>2. Progress(r, new) BY <1>2, <1>4, <3>1 DEF Progress, CreateDone
    <3>3. Own(j, r, new) BY <3>2, GoesOwn DEF r
    <3> QED BY <2>1, <3>3 DEF r
  <2>2. CASE ~e2ee
    <3>1. Effect(j, new) BY <1>2, <1>4, EffectOf DEF Cmds
    <3> QED BY <2>2, <3>1, AnswersOwn
  <2> QED BY <2>1, <2>2
<1>5. next.pc # "start" BY GoesTo DEF Answered
<1> HIDE DEF next
<1>6. CASE tree.kind = "s3"
  <2>1. ASSUME NEW o \in outcomes
        PROVE  /\ TreeOK(o.tree, contents) /\ o.tree.kind = tree.kind
               /\ Reach(j, tree, o.tree) /\ Rooted(o.tree) /\ Noted(j, tree, o.tree)
               /\ o.ok => Own(j, next, o.tree) /\ (next.pc = "idle" => o.tree.known = tree.known)
    <3> HIDE DEF key
    <3>1. /\ TreeOK(o.tree, contents) /\ o.tree.kind = tree.kind /\ o.tree.obj = tree.obj /\ o.tree.dirs = tree.dirs \cup {key}
          /\ o.tree.known = tree.known /\ o.tree.refused = tree.refused /\ o.tree.unheard = tree.unheard
      BY <1>1, <1>3, MarkerOK
    <3>2. FilesIn(o.tree) = FilesIn(tree) BY <3>1 DEF FilesIn, Keys
    <3>3. Reach(j, tree, o.tree) BY <3>1, <3>2, NoReach
    <3>4. Own(j, next, o.tree) BY <1>4, <3>1
    <3>5. Rooted(o.tree) /\ Noted(j, tree, o.tree) BY <1>6, <3>1 DEF Rooted, Noted
    <3> QED BY <3>1, <3>3, <3>4, <3>5
  <2> HIDE DEF outcomes
  <2> QED BY <1>2, <1>5, <1>6, <2>1, RequestDone
<1>7. CASE tree.kind # "s3"
  <2>0. Beneath(key, key) BY <1>3, SwappedSelf DEF Path
  <2>1. CASE Prepare(t, key)
    <3> HIDE DEF key
    <3> QED BY <1>2, <1>3, <2>0, <2>1, PrepareDone
  <2>2. CASE Prepared(t, key) /\ Leaves(t, next)
    <3>1. Len(key) \in Nat /\ Len(key) # 0 BY <1>3, LenProperties, EmptySeq DEF Path
    <3>2. SubSeq(key, 1, Len(key)) = key /\ Len(key) \in 1 .. Len(key) BY <2>0, <3>1 DEF Beneath
    <3>3. call[t].way \in Nat BY DEF DirInv, CallsOK, CallOK
    <3> HIDE DEF key
    <3>4. Len(key) <= call[t].way \/ key \in tree.known
      <4>1. Ahead(t, key) = {} BY <1>7, <2>2 DEF Prepared
      <4> DEFINE n == Len(key)
      <4>2. n \in 1 .. Len(key) /\ n \notin Ahead(t, key) BY <3>2, <4>1
      <4>3. ~(n > call[t].way) \/ SubSeq(key, 1, n) \in tree.known BY <4>2 DEF Ahead
      <4>4. SubSeq(key, 1, n) = key BY <3>2
      <4> HIDE DEF n
      <4>5. n \in Nat BY <3>1 DEF n
      <4>6. CASE ~(n > call[t].way)
        <5>1. n <= call[t].way BY <3>3, <4>5, <4>6
        <5> QED BY <5>1 DEF n
      <4>7. CASE SubSeq(key, 1, n) \in tree.known BY <4>4, <4>7, Zenon
      <4> QED BY <4>3, <4>6, <4>7 DEF n
    <3>5. tree.kind = "sftp" \/ key \in tree.dirs \cup tree.unheard
      <4>1. CASE call[t].way >= Len(key) BY <1>2, <1>3, <4>1 DEF Ready, CallDone
      <4>2. CASE key \in tree.known BY <1>1, <1>3, <1>7, <4>2, FourKinds DEF Ready
      <4> QED BY <3>1, <3>3, <3>4, <4>1, <4>2
    <3>6. Own(j, next, tree) BY <1>4, <3>5
    <3> QED BY <1>2, <1>5, <2>2, <3>6, LeavesDone
  <2> QED BY <1>2, <1>7, <2>1, <2>2
<1> QED BY <1>6, <1>7

LEMMA DeleteListDone == ASSUME DirInv, Rooted(tree), NEW t \in Tasks, Progress(job[t], tree), Ready(t), DeleteList(t) PROVE StepDone(t)
<1> DEFINE j == job[t]
           dirs == {i.key : i \in {x \in j.items : x.is_dir}}
           got == (UNION {list_recursive(tree, d) : d \in dirs}) \cup {i.key : i \in j.items}
           g == Goes(t, "remove")
           next == [Goes(t, "remove") EXCEPT !.got = got]
<1>1. JobOK(j, tree.kind, contents) /\ TreeOK(tree, contents) BY TheJob
<1>2. j.pc = "start" /\ j.cmd = "delete" /\ Request(t, {Outcome(tree, \A d \in dirs : Listable(tree, d))}, next)
      /\ e2ee' = e2ee
  BY DEF DeleteList
<1>3. j.items = j.all /\ \A i \in j.all : EntryOK(i) BY <1>1, <1>2 DEF JobOK, ItemsOK, Progress, DeleteDone
<1>4. \A k \in got : \E i \in j.all : Beneath(i.key, k)
  <2>1. \A i \in j.all : Beneath(i.key, i.key) BY <1>3, SwappedSelf DEF EntryOK, Path
  <2>2. ASSUME NEW d \in dirs, NEW k \in list_recursive(tree, d) PROVE \E i \in j.all : Beneath(i.key, k)
    <3>1. Beneath(d, k) BY DEF list_recursive
    <3>2. PICK i \in j.items : d = i.key OBVIOUS
    <3> QED BY <1>3, <3>1, <3>2
  <2> QED BY <1>3, <2>1, <2>2
<1>5. ASSUME NEW i \in j.all, NEW k \in FilesIn(tree), Beneath(i.key, k) PROVE k \in got
  <2>1. k \in Keys(tree) /\ KeyOK(k) BY <1>1 DEF FilesIn, TreeOK
  <2>2. CASE i.is_dir
    <3>1. k \in list_recursive(tree, i.key) BY <1>5, <2>1 DEF list_recursive
    <3>2. i.key \in dirs BY <1>3, <2>2
    <3> QED BY <3>1, <3>2
  <2>3. CASE ~i.is_dir
    <3>1. k = i.key BY <1>3, <1>5, <2>1, <2>3, FileAlone DEF EntryOK, KeyOK
    <3> QED BY <1>3, <3>1
  <2> QED BY <2>2, <2>3
<1> HIDE DEF got
<1>6. /\ next.pc = "remove" /\ next.cmd = j.cmd /\ next.all = j.all /\ next.items = j.items
      /\ next.dest = j.dest /\ next.name = j.name /\ next.got = got
  <2>1. IsJob(g) /\ g.pc = "remove" /\ g.cmd = j.cmd /\ g.all = j.all /\ g.items = j.items /\ g.dest = j.dest /\ g.name = j.name
    BY GoesTo
  <2>2. next = [g EXCEPT !.got = got] OBVIOUS
  <2> HIDE DEF g, next
  <2>3. next.got = got /\ next.items = g.items /\ SameBut(next, g) BY <2>1, <2>2, JobGot
  <2> QED BY <2>1, <2>3 DEF SameBut
<1> HIDE DEF next
<1>7. About(next) = About(j) BY <1>2, <1>6, SameAbout
<1>8. Progress(next, tree)
  <2>1. \A i \in next.all : Listed(next, tree, i) BY <1>5, <1>6 DEF Listed
  <2>2. DeleteDone(next, tree) BY <1>3, <1>4, <1>6, <2>1 DEF DeleteDone
  <2> QED BY <1>2, <1>6, <2>2 DEF Progress
<1>9. Own(j, next, tree) BY <1>6, <1>7, <1>8 DEF Own
<1>10. next.pc # "start" BY <1>6
<1> QED BY <1>2, <1>9, <1>10, AskDone

\* What a walk comes to know is on the way to the folder, or in it.
LEMMA SweepKnown ==
    ASSUME NEW tr, NEW n, TreeOK(tr, n), tr.kind # "s3", NEW dir \in Dirs, NEW o \in sweep(tr, dir),
           NEW d \in o.tree.known \ tr.known
    PROVE  Near(d, dir)
<1> DEFINE dirs == {dir} \cup Subtree(tr, dir)
           res == resolve_dir(tr, dirs)
           known == tr.known \cup (tr.dirs \cap UNION {Chain(e) : e \in dirs})
<1>1. PICK tr0 \in {tr, res} :
         \/ o = Outcome([tr0 EXCEPT !.obj = Without(@, {k \in Keys(tr0) : Beneath(dir, k)})], TRUE)
         \/ o = Outcome(tr, TRUE) \/ o = Outcome(tr, FALSE)
  BY FourKinds DEF sweep, sftp_sweep, smb_sweep, nfs_sweep, Swept, Ok, Err
<1>2. o.tree.known = tr.known \/ o.tree.known = tr0.known
  <2> DEFINE obj == Without(tr0.obj, {k \in Keys(tr0) : Beneath(dir, k)})
             new == [tr0 EXCEPT !.obj = obj]
  <2>1. o = Outcome(new, TRUE) \/ o = Outcome(tr, TRUE) \/ o = Outcome(tr, FALSE) BY <1>1
  <2>2. TreeOK(tr0, n) BY <1>1, ResolveOK
  <2> HIDE DEF obj
  <2>3. new.known = tr0.known BY <2>2 DEF TreeOK, IsTree
  <2> HIDE DEF new
  <2> QED BY <2>1, <2>3 DEF Outcome
<1>3. res.known = tr.known \/ res.known = known
  <2>1. CASE tr.kind = "nfs"
    <3>1. res = [tr EXCEPT !.known = known] BY <2>1 DEF resolve_dir, TreeOK, IsTree
    <3>2. known \in SUBSET Dirs BY DEF TreeOK
    <3> HIDE DEF known, res
    <3> QED BY <3>1, <3>2, TreeKnown
  <2>2. CASE tr.kind # "nfs" BY <2>2 DEF resolve_dir
  <2> QED BY <2>1, <2>2
<1> HIDE DEF res
<1>4. d \in known BY <1>1, <1>2, <1>3
<1>5. PICK e \in dirs : d \in Chain(e) BY <1>4
<1>6. dir \in Path BY DirsClosed
<1>7. e \in Dirs /\ Beneath(dir, e)
  <2>1. Beneath(dir, dir) BY <1>6, SwappedSelf DEF Path
  <2> QED BY <2>1 DEF Subtree, TreeOK
<1>8. d \in Dirs /\ d \in Path /\ e \in Path BY <1>5, <1>7, ChainOfDir, DirsClosed
<1>9. Beneath(d, e) BY <1>5, <1>8, ChainIff DEF Path
<1> QED BY <1>6, <1>7, <1>8, <1>9, ApartStays DEF Path, Near

\* A file that is unlinked is gone, and so is all that a walk has found.
LEMMA UnlinkedDone ==
    ASSUME NEW n, TreeOK(tree, n), Rooted(tree), tree.kind # "s3", NEW i, EntryOK(i), NEW o \in Unlinked(i)
    PROVE  /\ TreeOK(o.tree, n) /\ o.tree.kind = tree.kind /\ o.tree.dirs = tree.dirs
           /\ o.tree.refused = tree.refused /\ o.tree.unheard = tree.unheard
           /\ FilesIn(o.tree) \subseteq FilesIn(tree) /\ Rooted(o.tree) /\ tree.known \subseteq o.tree.known
           /\ \A d \in o.tree.known \ tree.known : d \in tree.dirs /\ Near(d, i.key)
           /\ o.ok => Cleared(o.tree, i)
           /\ ~i.is_dir => o.tree.known = tree.known
<1>1. ASSUME NEW keys, NEW new, Unlinks(tree, new, keys)
      PROVE  FilesIn(new) = FilesIn(tree) \ keys /\ Rooted(new)
  <2>1. new.kind = tree.kind /\ new.dirs = tree.dirs /\ new.obj = Without(tree.obj, keys) BY <1>1 DEF Unlinks
  <2>2. Keys(new) = Keys(tree) \ keys BY <2>1 DEF Keys, Without
  <2>3. Rooted(new) BY <2>1, <2>2, SameDirsRooted
  <2> QED BY <2>2, <2>3 DEF FilesIn
<1>2. \A k \in FilesIn(tree) : k \in Keys(tree) /\ KeyOK(k) BY DEF TreeOK, FilesIn
<1>3. CASE i.is_dir
  <2> DEFINE keys == {k \in Keys(tree) : Beneath(i.key, k)}
  <2>1. i.key \in Dirs /\ i.key # <<>> BY <1>3 DEF EntryOK
  <2>2. o \in sweep(tree, i.key) BY <1>3 DEF Unlinked
  <2>3. /\ TreeOK(o.tree, n) /\ tree.known \subseteq o.tree.known /\ o.tree.known \subseteq tree.known \cup tree.dirs
        /\ o.tree = tree \/ Unlinks(tree, o.tree, keys)
        /\ o.ok => i.key \notin tree.dirs \/ Unlinks(tree, o.tree, keys)
    BY <2>2, SweepOK
  <2>4. \A d \in o.tree.known \ tree.known : Near(d, i.key) BY <2>1, <2>2, SweepKnown
  <2>5. \A k \in FilesIn(tree) : Beneath(i.key, k) => k \in keys BY <1>2
  <2> HIDE DEF keys
  <2>6. Unlinks(tree, o.tree, keys) => FilesIn(o.tree) = FilesIn(tree) \ keys /\ Rooted(o.tree) BY <1>1
  <2>7. ASSUME o.ok PROVE Cleared(o.tree, i)
    <3>1. CASE i.key \notin tree.dirs
      <4>1. \A k \in FilesIn(tree) : ~Beneath(i.key, k) BY <1>2, <2>1, <3>1, NothingThere
      <4>2. FilesIn(o.tree) \subseteq FilesIn(tree) BY <2>3, <2>6
      <4> QED BY <4>1, <4>2 DEF Cleared
    <3>2. CASE Unlinks(tree, o.tree, keys) BY <2>5, <2>6, <3>2 DEF Cleared
    <3> QED BY <2>3, <2>7, <3>1, <3>2
  <2> QED BY <1>3, <2>3, <2>4, <2>6, <2>7 DEF Unlinks
<1>4. CASE ~i.is_dir
  <2>1. o \in remove_file(tree, i.key) BY <1>4 DEF Unlinked
  <2> DEFINE keys == {i.key}
  <2>2. TreeOK(o.tree, n) /\ o.tree.known = tree.known /\ ((~o.ok /\ o.tree = tree) \/ Unlinks(tree, o.tree, keys))
    BY <2>1, RemoveFileOK
  <2>3. \A k \in FilesIn(tree) : Beneath(i.key, k) => k \in keys BY <1>2, <1>4, FileAlone DEF EntryOK, KeyOK
  <2> HIDE DEF keys
  <2>4. Unlinks(tree, o.tree, keys) => FilesIn(o.tree) = FilesIn(tree) \ keys /\ Rooted(o.tree) BY <1>1
  <2>5. o.ok => Cleared(o.tree, i) BY <2>2, <2>3, <2>4 DEF Cleared
  <2> QED BY <2>2, <2>4, <2>5 DEF Unlinks
<1> QED BY <1>3, <1>4

\* Files have gone, or S3 keeps them.
Thinner(tr, new) == new.kind = tr.kind /\ FilesIn(new) \subseteq FilesIn(tr) /\ tr.refused \subseteq new.refused

LEMMA FewerCleared ==
    ASSUME NEW tr, NEW new, Thinner(tr, new), NEW i
    PROVE  /\ Cleared(tr, i) => Cleared(new, i)
           /\ \A j : (Settled(j, tr, i) => Settled(j, new, i)) /\ (Listed(j, tr, i) => Listed(j, new, i))
BY DEF Thinner, Cleared, Settled, Listed

\* The files of one item go, and its directories are known.
LEMMA UnlinksDone ==
    ASSUME DirInv, Rooted(tree), NEW t \in Tasks, Progress(job[t], tree), Ready(t), tree.kind # "s3",
           NEW i, EntryOK(i), i.key \in About(job[t]), Restructures(job[t]), NEW next, NEW left, left = Found(i),
           Asks(t, Unlinked(i), next, [NoCall EXCEPT !.left = left]), e2ee' = e2ee, i.is_dir => next.pc # "idle",
           \A o \in Unlinked(i) : o.ok /\ Thinner(tree, o.tree) /\ Cleared(o.tree, i) => Own(job[t], next, o.tree)
    PROVE  StepDone(t)
<1> DEFINE c == [NoCall EXCEPT !.left = left]
<1>1. TreeOK(tree, contents) BY DEF DirInv
<1>2. left \subseteq Dirs \ {<<>>} BY <1>1, FoundOK
<1>3. CallOK(c) /\ c.left = left
  <2>1. c = [way |-> 0, left |-> left, add |-> {}, drop |-> {}] /\ CallOK(c) BY <1>2, LeftCall
  <2> HIDE DEF c
  <2> QED BY <2>1
<1>4. \A d \in left : Beneath(i.key, d) BY DEF Found, Subtree
<1> DEFINE outcomes == Unlinked(i)
<1>5. Asks(t, outcomes, next, c) OBVIOUS
<1> HIDE DEF c
<1>6. ASSUME NEW o \in outcomes PROVE Serves(t, o, next, c)
  <2>1. /\ TreeOK(o.tree, contents) /\ o.tree.kind = tree.kind /\ o.tree.dirs = tree.dirs
        /\ o.tree.refused = tree.refused /\ o.tree.unheard = tree.unheard
        /\ FilesIn(o.tree) \subseteq FilesIn(tree) /\ Rooted(o.tree) /\ tree.known \subseteq o.tree.known
        /\ \A d \in o.tree.known \ tree.known : d \in tree.dirs /\ Near(d, i.key)
        /\ o.ok => Cleared(o.tree, i)
        /\ ~i.is_dir => o.tree.known = tree.known
    BY <1>1, UnlinkedDone
  <2>2. Reach(job[t], tree, o.tree) BY <2>1, NoReach
  <2>3. Noted(job[t], tree, o.tree) BY <2>1 DEF Noted
  <2>4. Thinner(tree, o.tree) BY <2>1 DEF Thinner
  <2>5. o.ok => Own(job[t], next, o.tree) BY <2>1, <2>4
  <2>6. o.ok /\ next.pc = "start" => next.cmd # "create" BY <2>5 DEF Own, Restructures
  <2> QED BY <2>1, <2>2, <2>3, <2>5, <2>6 DEF Serves
<1> HIDE DEF outcomes
<1> QED BY <1>3, <1>4, <1>5, <1>6, AsksDone

\* A delete with other items left.
LEMMA ItemsOwn ==
    ASSUME DirInv, NEW t \in Tasks, job[t].cmd = "delete", NEW p, NEW its, NEW new,
           \/ p \in {"edit", "flush"} /\ \A i \in job[t].all : Cleared(new, i)
           \/ /\ p = "remove" /\ new.kind # "s3" /\ its \subseteq job[t].all
              /\ \A k \in job[t].got : \E i \in job[t].all : Beneath(i.key, k)
              /\ \A i \in job[t].all \ its : Cleared(new, i)
    PROVE  Own(job[t], [Goes(t, p) EXCEPT !.items = its], new)
<1> DEFINE j == job[t]
           g == Goes(t, p)
           r == [g EXCEPT !.items = its]
<1>1. /\ IsJob(g) /\ g.pc = p /\ g.cmd = j.cmd /\ g.all = j.all /\ g.dest = j.dest /\ g.name = j.name /\ g.got = j.got
  BY GoesTo
<1> HIDE DEF g, j
<1>3. r.items = its /\ SameBut(r, g) /\ r.got = g.got BY <1>1, JobItems
<1> HIDE DEF r
<1>4. r.pc = p /\ r.cmd = j.cmd /\ r.all = j.all /\ r.dest = j.dest /\ r.name = j.name /\ r.got = j.got
  BY <1>1, <1>3 DEF SameBut
<1>5. About(r) = About(j) BY <1>4, SameAbout DEF j
<1>6. DeleteDone(r, new) BY <1>3, <1>4 DEF DeleteDone, j
<1>7. Progress(r, new) BY <1>4, <1>6 DEF Progress, j
<1>8. Own(j, r, new) BY <1>4, <1>5, <1>7 DEF Own
<1> QED BY <1>8 DEF r, g, j

LEMMA DeletedDone ==
    ASSUME DirInv, NEW t \in Tasks, Progress(job[t], tree), job[t].cmd = "delete", job[t].pc \in {"remove", "rmdir"},
           tree.kind # "s3", NEW new, Thinner(tree, new), NEW i, Cleared(new, i)
    PROVE  Own(job[t], Deleted(t, i), new)
<1> DEFINE j == job[t]
<1>1. /\ j.items \subseteq j.all /\ \A k \in j.got : \E x \in j.all : Beneath(x.key, k)
      /\ \A x \in j.all \ j.items : Cleared(tree, x)
  BY DEF Progress, DeleteDone
<1>2. \A x \in j.all \ j.items : Cleared(new, x) BY <1>1, FewerCleared
<1>3. CASE j.items # {i}
  <2> DEFINE its == j.items \ {i}
  <2>1. Goes(t, "remove").items = j.items BY GoesTo
  <2>2. Deleted(t, i) = [Goes(t, "remove") EXCEPT !.items = its] BY <1>3, <2>1 DEF Deleted
  <2>3. its \subseteq j.all /\ \A x \in j.all \ its : Cleared(new, x) BY <1>1, <1>2
  <2> HIDE DEF its
  <2>4. Own(j, [Goes(t, "remove") EXCEPT !.items = its], new) BY <1>1, <2>3, ItemsOwn DEF Thinner
  <2> QED BY <2>2, <2>4
<1>4. CASE j.items = {i}
  <2>1. \A x \in j.all : Cleared(new, x) BY <1>2, <1>4
  <2>2. CASE e2ee
    <3>1. Deleted(t, i) = [Goes(t, "edit") EXCEPT !.items = j.all] BY <1>4, <2>2 DEF Deleted
    <3> DEFINE its == j.all
    <3> HIDE DEF its
    <3>2. Own(j, [Goes(t, "edit") EXCEPT !.items = its], new) BY <2>1, ItemsOwn
    <3> QED BY <3>1, <3>2 DEF its
  <2>3. CASE ~e2ee
    <3>1. Deleted(t, i) = Answered("ok") BY <1>4, <2>3 DEF Deleted
    <3>2. Effect(j, new) BY <2>1, EffectOf DEF Cmds
    <3> QED BY <3>1, <3>2, AnswersOwn
  <2> QED BY <2>2, <2>3
<1> QED BY <1>3, <1>4

\* S3 has none of the keys, but for those that it refused to delete.
S3Thinner(tr, new, keys) == Thinner(tr, new) /\ keys \cap FilesIn(new) \subseteq new.refused

LEMMA S3DeletesDone ==
    ASSUME DirInv, NEW t \in Tasks, Progress(job[t], tree), Ready(t), tree.kind = "s3", NEW keys, <<>> \notin keys,
           NEW next, s3_deletes(t, keys, next), e2ee' = e2ee, Restructures(job[t]),
           \A k \in keys : \E x \in About(job[t]) : Beneath(x, k),
           S3Thinner(tree, tree', keys) => Own(job[t], next, tree')
    PROVE  StepDone(t)
<1> DEFINE f == Goes(t, "failed")
<1>1. TreeOK(tree, contents) BY DEF DirInv
<1>2. /\ tree'.kind = tree.kind /\ tree'.known = tree.known
      /\ \/ tree' = tree /\ job' = [job EXCEPT ![t] = f]
         \/ \E kept, away : S3Gone(t, keys, next, kept, away)
      /\ call' = call \/ call' = [call EXCEPT ![t] = NoCall]
  BY <1>1, S3DeletesEnd
<1>3. Own(job[t], f, tree') BY FailedOwn
<1>4. Rooted(tree') /\ job[t].cmd # "create" BY <1>2 DEF Rooted, Restructures
<1> HIDE DEF f
<1>5. CASE tree' = tree /\ job' = [job EXCEPT ![t] = f]
  <2>1. Reach(job[t], tree, tree') BY <1>5, NoReach
  <2> QED BY <1>2, <1>3, <1>4, <1>5, <2>1, PlainDone
<1>6. CASE \E kept, away : S3Gone(t, keys, next, kept, away)
  <2>1. PICK kept, away : S3Gone(t, keys, next, kept, away) BY <1>6
  <2>2. /\ kept \subseteq keys /\ away = keys \ kept
        /\ tree'.obj = Without(tree.obj, away) /\ tree'.dirs = tree.dirs \ away
        /\ tree'.refused = tree.refused \cup kept /\ tree.unheard \subseteq tree'.unheard
        /\ job' = [job EXCEPT ![t] = next] \/ job' = [job EXCEPT ![t] = f]
    BY <2>1 DEF S3Gone, f
  <2>3. FilesIn(tree') = FilesIn(tree) \ away BY <2>2 DEF FilesIn, Keys, Without
  <2>4. S3Thinner(tree, tree', keys) BY <1>2, <2>2, <2>3 DEF S3Thinner, Thinner
  <2>5. Reach(job[t], tree, tree') BY <2>2, <2>3 DEF Reach
  <2>6. CASE job' = [job EXCEPT ![t] = next] BY <1>2, <1>4, <2>4, <2>5, <2>6, PlainDone
  <2>7. CASE job' = [job EXCEPT ![t] = f] BY <1>2, <1>3, <1>4, <2>5, <2>7, PlainDone
  <2> QED BY <2>2, <2>6, <2>7
<1> QED BY <1>2, <1>5, <1>6

LEMMA DeleteRemoveDone == ASSUME DirInv, Rooted(tree), NEW t \in Tasks, Progress(job[t], tree), Ready(t), DeleteRemove(t) PROVE StepDone(t)
<1> DEFINE j == job[t]
<1>1. JobOK(j, tree.kind, contents) /\ TreeOK(tree, contents) BY TheJob
<1>2. j.pc = "remove" /\ j.cmd = "delete" /\ e2ee' = e2ee BY Zenon DEF DeleteRemove
<1>3. /\ j.items \subseteq j.all /\ \A k \in j.got : \E i \in j.all : Beneath(i.key, k)
      /\ tree.kind = "s3" => \A i \in j.all : Listed(j, tree, i)
      /\ tree.kind # "s3" => \A i \in j.all \ j.items : Cleared(tree, i)
  BY <1>2 DEF Progress, DeleteDone
<1>4. \A i \in j.all : i.key \in About(j) BY <1>2 DEF About
<1>5. Restructures(j) BY <1>2 DEF Restructures
<1>6. CASE tree.kind = "s3"
  <2> DEFINE next == IF e2ee THEN Goes(t, "edit") ELSE Answered("ok")
  <2>1. s3_deletes(t, j.got, next) BY <1>6 DEF DeleteRemove
  <2>2. ASSUME S3Thinner(tree, tree', j.got) PROVE Own(j, next, tree')
    <3>1. FilesIn(tree') \subseteq FilesIn(tree) /\ j.got \cap FilesIn(tree') \subseteq tree'.refused BY <2>2 DEF S3Thinner, Thinner
    <3>2. \A i \in j.all : Cleared(tree', i) BY <1>3, <1>6, <3>1 DEF Cleared, Listed
    <3>3. CASE e2ee
      <4> DEFINE r == Goes(t, "edit")
      <4>1. r.pc = "edit" /\ r.cmd = j.cmd /\ r.all = j.all BY GoesTo
      <4> HIDE DEF r
      <4>2. DeleteDone(r, tree') BY <3>2, <4>1 DEF DeleteDone
      <4>3. Progress(r, tree') BY <1>2, <4>1, <4>2 DEF Progress
      <4>4. Own(j, r, tree') BY <4>3, GoesOwn DEF r
      <4> QED BY <3>3, <4>4 DEF r
    <3>4. CASE ~e2ee
      <4>1. Effect(j, tree') BY <1>2, <3>2, EffectOf DEF Cmds
      <4> QED BY <3>4, <4>1, AnswersOwn
    <3> QED BY <3>3, <3>4
  <2>3. <<>> \notin j.got /\ \A k \in j.got : \E x \in About(j) : Beneath(x, k) BY <1>1, <1>2, <1>3, <1>4 DEF JobOK, UnderWay
  <2> HIDE DEF next
  <2> QED BY <1>2, <1>5, <1>6, <2>1, <2>2, <2>3, S3DeletesDone
<1>7. CASE tree.kind # "s3"
  <2>1. PICK i \in j.items : Asks(t, Unlinked(i), IF i.is_dir THEN [Goes(t, "rmdir") EXCEPT !.item = i] ELSE Deleted(t, i),
                                  [NoCall EXCEPT !.left = Found(i)])
    BY <1>7, Zenon DEF DeleteRemove
  <2> DEFINE next == IF i.is_dir THEN [Goes(t, "rmdir") EXCEPT !.item = i] ELSE Deleted(t, i)
             g == Goes(t, "rmdir")
             r == [g EXCEPT !.item = i]
             left == Found(i)
  <2>2. EntryOK(i) /\ i \in j.all BY <1>1, <1>3 DEF JobOK, ItemsOK
  <2>3. /\ r.pc = "rmdir" /\ r.cmd = j.cmd /\ r.all = j.all /\ r.items = j.items /\ r.got = j.got /\ r.item = i
        /\ r.dest = j.dest /\ r.name = j.name
    <3>1. /\ IsJob(g) /\ g.pc = "rmdir" /\ g.cmd = j.cmd /\ g.all = j.all /\ g.items = j.items /\ g.got = j.got
          /\ g.dest = j.dest /\ g.name = j.name
      BY GoesTo
    <3> HIDE DEF g
    <3>2. SameBut(r, g) /\ r.item = i /\ r.items = g.items /\ r.got = g.got BY <3>1, JobItem
    <3> HIDE DEF r
    <3> QED BY <3>1, <3>2 DEF SameBut
  <2>4. (i.is_dir => next = r) /\ (~i.is_dir => next = Deleted(t, i)) OBVIOUS
  <2>5. Asks(t, Unlinked(i), next, [NoCall EXCEPT !.left = left]) BY <2>1
  <2> HIDE DEF next, r, g, left
  <2>6. ASSUME NEW o \in Unlinked(i), o.ok, Thinner(tree, o.tree), Cleared(o.tree, i) PROVE Own(j, next, o.tree)
    <3>1. CASE i.is_dir
      <4>1. About(r) = About(j) BY <1>2, <2>3, SameAbout
      <4>2. \A x \in j.all \ j.items : Cleared(o.tree, x) BY <1>3, <1>7, <2>6, FewerCleared
      <4>3. DeleteDone(r, o.tree) BY <1>3, <2>2, <2>3, <2>6, <4>2 DEF DeleteDone
      <4>4. Progress(r, o.tree) BY <1>2, <2>3, <4>3 DEF Progress
      <4> QED BY <2>3, <2>4, <3>1, <4>1, <4>4 DEF Own
    <3>2. CASE ~i.is_dir
      <4>1. Own(j, Deleted(t, i), o.tree) BY <1>2, <1>7, <2>6, DeletedDone
      <4> QED BY <2>4, <3>2, <4>1
    <3> QED BY <3>1, <3>2
  <2>7. i.is_dir => next.pc # "idle" BY <2>3, <2>4
  <2>8. i.key \in About(j) /\ left = Found(i) BY <1>4, <2>2 DEF left
  <2> QED BY <1>2, <1>5, <1>7, <2>2, <2>5, <2>6, <2>7, <2>8, UnlinksDone
<1> QED BY <1>6, <1>7

LEMMA DeleteRmdirDone == ASSUME DirInv, Rooted(tree), NEW t \in Tasks, Progress(job[t], tree), Ready(t), DeleteRmdir(t) PROVE StepDone(t)
<1> DEFINE j == job[t]
           i == j.item
           next == Deleted(t, i)
<1>1. JobOK(j, tree.kind, contents) BY TheJob
<1>2. /\ j.pc = "rmdir" /\ j.cmd = "delete" /\ e2ee' = e2ee
      /\ Rmdir(t) \/ Leaves(t, next)
  BY Zenon DEF DeleteRmdir
<1>3. tree.kind # "s3" BY <1>1, <1>2 DEF JobOK, PcOK
<1>4. CASE Rmdir(t) BY <1>2, <1>3, <1>4, RmdirDone
<1>5. CASE Leaves(t, next)
  <2>1. Cleared(tree, i) BY <1>2 DEF Progress, DeleteDone
  <2>2. Thinner(tree, tree) BY DEF Thinner
  <2>3. Own(j, next, tree) BY <1>2, <1>3, <2>1, <2>2, DeletedDone
  <2> HIDE DEF next
  <2> QED BY <1>2, <1>5, <2>3, LeavesDone
<1> QED BY <1>2, <1>4, <1>5

LEMMA MoveNextDone == ASSUME DirInv, Rooted(tree), NEW t \in Tasks, Progress(job[t], tree), Ready(t), MoveNext(t) PROVE StepDone(t)
<1> DEFINE j == job[t]
<1>1. JobOK(j, tree.kind, contents) BY TheJob
<1>2. j.pc = "start" /\ j.cmd = "move" /\ e2ee' = e2ee /\ tree' = tree /\ call' = call BY Zenon DEF MoveNext
<1>3. /\ j.items \subseteq j.all /\ \A i, i2 \in j.all : parent_prefix(i.key) = parent_prefix(i2.key)
      /\ \A i \in j.all \ j.items : Settled(j, tree, i)
  BY <1>2 DEF Progress, MoveDone
<1>4. CASE j.items = {}
  <2> DEFINE next == IF e2ee THEN Goes(t, "flush") ELSE Answered("ok")
  <2>1. job' = [job EXCEPT ![t] = next] BY <1>4 DEF MoveNext, Becomes
  <2>2. \A i \in j.all : Settled(j, tree, i) BY <1>3, <1>4
  <2>3. CASE e2ee
    <3> DEFINE r == Goes(t, "flush")
    <3>1. r.pc = "flush" /\ r.cmd = j.cmd /\ r.all = j.all /\ r.items = j.items /\ r.dest = j.dest BY GoesTo
    <3> HIDE DEF r
    <3>2. \A i \in j.all : Settled(r, tree, i) BY <2>2, <3>1 DEF Settled, Stays
    <3>3. MoveDone(r, tree) BY <1>3, <1>4, <3>1, <3>2 DEF MoveDone, CopyDone, OnItem
    <3>4. Progress(r, tree) BY <1>2, <3>1, <3>3 DEF Progress
    <3>5. Own(j, r, tree) BY <3>4, GoesOwn DEF r
    <3> QED BY <1>2, <2>1, <2>3, <3>5, StayDone DEF r
  <2>4. CASE ~e2ee
    <3>1. Effect(j, tree) BY <1>2, <2>2, EffectOf DEF Cmds
    <3>2. Own(j, Answered("ok"), tree) BY <3>1, AnswersOwn
    <3> QED BY <1>2, <2>1, <2>4, <3>2, StayDone
  <2> QED BY <2>3, <2>4
<1>5. CASE j.items # {}
  <2>1. PICK i \in j.items :
            LET to == Append(job[t].dest, leaf_of(i.key))
                skip == to = i.key \/ (i.is_dir /\ Beneath(i.key, job[t].dest))
            IN Becomes(t, [job[t] EXCEPT !.items = @ \ {i}, !.item = i, !.to = to,
                                         !.pc = IF skip THEN "start" ELSE "list"])
    BY <1>5, Zenon DEF MoveNext
  <2> DEFINE to == Append(j.dest, leaf_of(i.key))
             skip == to = i.key \/ (i.is_dir /\ Beneath(i.key, j.dest))
             p == IF skip THEN "start" ELSE "list"
             its == j.items \ {i}
             r == [j EXCEPT !.items = its, !.item = i, !.to = to, !.pc = p]
  <2>2. job' = [job EXCEPT ![t] = r] BY <2>1 DEF Becomes
  <2>3. EntryOK(i) /\ j.dest \in Dirs BY <1>1, <1>2 DEF JobOK, ItemsOK, CommandOK
  <2>4. p = "start" => Stays(j, i)
    <3>1. i.key \in Path /\ i.key # <<>> /\ j.dest \in Path BY <2>3, DirsClosed DEF EntryOK
    <3>2. leaf_of(i.key) \in Segs BY <3>1, ParentLeaf DEF Path
    <3>3. parent_prefix(to) = j.dest BY <3>1, <3>2, AppendParent DEF Path
    <3> HIDE DEF to
    <3> QED BY <3>3 DEF Stays
  <2>5. p \in {"start", "list"} OBVIOUS
  <2>6. its \subseteq j.all /\ i \in j.all \ its /\ \A x \in j.all \ its : x \in j.all \ j.items \/ x = i BY <1>3
  <2> HIDE DEF to, p, its
  <2>7. r.pc = p /\ r.cmd = j.cmd /\ r.all = j.all /\ r.items = its /\ r.item = i /\ r.dest = j.dest /\ r.name = j.name
    <3>1. IsJob(j) BY <1>1 DEF JobOK
    <3> HIDE DEF j
    <3>2. r = [j EXCEPT !.items = its, !.item = i, !.to = to, !.pc = p] OBVIOUS
    <3> HIDE DEF r
    <3>3. r = [pc |-> p, cmd |-> j.cmd, all |-> j.all, items |-> its, item |-> i,
               dest |-> j.dest, name |-> j.name, rel |-> j.rel, at |-> j.at, content |-> j.content,
               to |-> to, got |-> j.got, taken |-> j.taken, began |-> j.began, tried |-> j.tried,
               result |-> j.result]
      BY <3>1, <3>2 DEF IsJob
    <3> QED BY <3>3
  <2> HIDE DEF r
  <2>8. About(r) = About(j) BY <1>2, <2>7, SameAbout
  <2>9. \A x \in j.all : (Settled(j, tree, x) => Settled(r, tree, x)) /\ (Stays(j, x) => Settled(r, tree, x))
    BY <2>7 DEF Settled, Stays
  <2>10. \A x \in j.all \ its : Settled(r, tree, x) \/ (x = i /\ p = "list") BY <1>3, <2>4, <2>5, <2>6, <2>9
  <2>11. MoveDone(r, tree) BY <1>3, <2>5, <2>6, <2>7, <2>10 DEF MoveDone, CopyDone, OnItem
  <2>12. Own(j, r, tree) BY <1>2, <2>5, <2>7, <2>8, <2>11 DEF Own, Progress
  <2> QED BY <1>2, <2>2, <2>12, StayDone
<1> QED BY <1>4, <1>5

LEMMA RenameCheckDone == ASSUME DirInv, Rooted(tree), NEW t \in Tasks, Progress(job[t], tree), Ready(t), RenameCheck(t) PROVE StepDone(t)
<1> DEFINE j == job[t]
           next == IF j.to = j.item.key THEN Answered("ok") ELSE Goes(t, "list")
<1>1. j.pc = "start" /\ j.cmd = "rename" /\ e2ee' = e2ee BY Zenon DEF RenameCheck
<1>2. PICK ok : Request(t, {Outcome(tree, ok)}, next) BY Zenon DEF RenameCheck
<1>3. Own(j, next, tree)
  <2>1. CASE j.to = j.item.key
    <3>1. Effect(j, tree) BY <1>1, <2>1, EffectOf DEF Cmds
    <3> QED BY <2>1, <3>1, AnswersOwn
  <2>2. CASE j.to # j.item.key
    <3> DEFINE r == Goes(t, "list")
    <3>1. r.pc = "list" /\ r.cmd = j.cmd BY GoesTo
    <3> HIDE DEF r
    <3>2. Progress(r, tree) BY <1>1, <3>1 DEF Progress, RenameDone, CopyDone
    <3>3. Own(j, r, tree) BY <3>2, GoesOwn DEF r
    <3> QED BY <2>2, <3>3 DEF r
  <2> QED BY <2>1, <2>2
<1>4. next.pc # "start" BY GoesTo DEF Answered
<1> HIDE DEF next
<1> QED BY <1>1, <1>2, <1>3, <1>4, AskDone

\* The move or the rename of an item goes from one place of its code to a later one.
LEMMA MovesOn ==
    ASSUME NEW j, j.cmd \in {"move", "rename"}, NEW r, r.cmd = j.cmd, r.all = j.all, r.items = j.items, r.item = j.item,
           r.dest = j.dest, r.pc # "failed", NEW tr, NEW new, Progress(j, tr),
           j.cmd = "move" => /\ j.pc \in OnItem /\ r.pc \in OnItem \cup {"start"}
                             /\ \A i \in j.all \ j.items : i # j.item /\ Settled(j, tr, i) => Settled(j, new, i)
                             /\ r.pc \in {"list", "copy", "remove"} \/ Settled(j, new, j.item),
           j.cmd = "rename" /\ r.pc \in {"rmdir", "edit", "flush"} => Cleared(new, j.item),
           CopyDone(r, new)
    PROVE  Progress(r, new)
<1>1. CASE j.cmd = "move"
  <2>1. MoveDone(j, tr) BY <1>1 DEF Progress
  <2>2. \A i : Settled(j, new, i) => Settled(r, new, i) BY DEF Settled, Stays
  <2>3. j.items \subseteq j.all /\ \A i, i2 \in j.all : parent_prefix(i.key) = parent_prefix(i2.key) BY <2>1 DEF MoveDone
  <2>4. j.item \in j.all \ j.items BY <1>1, <2>1 DEF MoveDone
  <2>5. \A i \in j.all \ j.items : i = j.item \/ Settled(j, tr, i) BY <1>1, <2>1 DEF MoveDone, OnItem
  <2>6. ASSUME NEW i \in j.all \ j.items PROVE Settled(r, new, i) \/ (i = j.item /\ r.pc \in {"list", "copy", "remove"})
    BY <1>1, <2>2, <2>5
  <2>7. r.pc # "flush" BY <1>1 DEF OnItem
  <2>8. MoveDone(r, new) BY <2>3, <2>4, <2>6, <2>7 DEF MoveDone
  <2> QED BY <1>1, <2>8 DEF Progress
<1>2. CASE j.cmd = "rename"
  <2>1. RenameDone(r, new) BY <1>2 DEF RenameDone
  <2> QED BY <1>2, <2>1 DEF Progress
<1> QED BY <1>1, <1>2

\* The listing of a folder has every file of it.
LEMMA ListedAll ==
    ASSUME NEW tr, NEW n, TreeOK(tr, n), NEW i, EntryOK(i), NEW r,
           r.got = IF i.is_dir THEN list_recursive(tr, i.key) ELSE {i.key}
    PROVE  Listed(r, tr, i)
<1> SUFFICES ASSUME NEW k \in FilesIn(tr), Beneath(i.key, k) PROVE k \in r.got BY DEF Listed
<1>1. k \in Keys(tr) /\ KeyOK(k) BY DEF FilesIn, TreeOK
<1>2. CASE i.is_dir BY <1>1, <1>2 DEF list_recursive
<1>3. CASE ~i.is_dir
  <2>1. k = i.key BY <1>1, <1>3, FileAlone DEF EntryOK, KeyOK
  <2> QED BY <1>3, <2>1
<1> QED BY <1>2, <1>3

\* The place that an item goes to.
LEMMA TargetAbout ==
    ASSUME NEW j, NEW kind, NEW n, JobOK(j, kind, n), j.cmd \in {"move", "rename"}, j.pc \in OnItem, NEW tr, Progress(j, tr)
    PROVE  j.to \in About(j)
<1>1. CASE j.cmd = "move"
  <2>1. j.item \in j.all BY <1>1 DEF Progress, MoveDone
  <2>2. j.to = Append(j.dest, leaf_of(j.item.key)) BY <1>1 DEF JobOK, UnderWay, OnItem
  <2> QED BY <1>1, <2>1, <2>2 DEF About
<1>2. CASE j.cmd = "rename" BY <1>2 DEF About
<1> QED BY <1>1, <1>2

LEMMA RenameListDone == ASSUME DirInv, Rooted(tree), NEW t \in Tasks, Progress(job[t], tree), Ready(t), RenameList(t) PROVE StepDone(t)
<1> DEFINE j == job[t]
           i == j.item
           got == IF i.is_dir THEN list_recursive(tree, i.key) ELSE {i.key}
           next == [Goes(t, "copy") EXCEPT !.began = TRUE, !.got = got]
           ok == i.key \in tree.dirs
<1>1. JobOK(j, tree.kind, contents) /\ TreeOK(tree, contents) BY TheJob
<1>2. j.pc = "list" /\ j.cmd \in {"move", "rename"} /\ e2ee' = e2ee BY Zenon DEF RenameList, Moving
<1>3. /\ i.is_dir /\ tree.kind # "s3" => Prepare(t, j.to) \/ Request(t, {Outcome(tree, ok)}, next)
      /\ ~(i.is_dir /\ tree.kind # "s3") => Leaves(t, next)
  BY Zenon DEF RenameList
<1>4. EntryOK(i) /\ TargetOK(i, j.to) BY <1>1, <1>2 DEF JobOK, UnderWay
<1>5. /\ next.pc = "copy" /\ next.cmd = j.cmd /\ next.all = j.all /\ next.items = j.items /\ next.item = i
      /\ next.dest = j.dest /\ next.name = j.name /\ next.to = j.to /\ next.got = got
  <2> HIDE DEF got
  <2> DEFINE g == Goes(t, "copy")
  <2>1. /\ IsJob(g) /\ g.pc = "copy" /\ g.cmd = j.cmd /\ g.all = j.all /\ g.items = j.items /\ g.dest = j.dest
        /\ g.name = j.name /\ g.item = i /\ g.to = j.to
    BY GoesTo
  <2> HIDE DEF g, j, i
  <2>2. next = [g EXCEPT !.began = TRUE, !.got = got] BY DEF g
  <2> HIDE DEF next
  <2>3. next = [pc |-> g.pc, cmd |-> g.cmd, all |-> g.all, items |-> g.items, item |-> g.item,
                dest |-> g.dest, name |-> g.name, rel |-> g.rel, at |-> g.at, content |-> g.content,
                to |-> g.to, got |-> got, taken |-> g.taken, began |-> TRUE, tried |-> g.tried,
                result |-> g.result]
    BY <2>1, <2>2 DEF IsJob
  <2>4. next.items = g.items /\ next.got = got BY <2>3
  <2> QED BY <2>1, <2>3, <2>4
<1>6. Listed(next, tree, i) BY <1>1, <1>4, <1>5, ListedAll
<1> HIDE DEF next
<1>7. About(next) = About(j) BY <1>5, SameAbout
<1>8. ASSUME NEW new, FilesIn(new) = FilesIn(tree), Thinner(tree, new) PROVE Own(j, next, new)
  <2>1. Listed(next, new, next.item) BY <1>5, <1>6, <1>8 DEF Listed
  <2>2. CopyDone(next, new) BY <2>1 DEF CopyDone
  <2>3. \A x : Settled(j, tree, x) => Settled(j, new, x) BY <1>8, FewerCleared
  <2>4. next.pc \in OnItem /\ j.pc \in OnItem /\ next.pc \notin {"rmdir", "edit", "flush", "failed", "idle"}
    BY <1>2, <1>5 DEF OnItem
  <2>5. Progress(next, new) BY <1>2, <1>5, <2>2, <2>3, <2>4, MovesOn
  <2> QED BY <1>5, <1>7, <2>4, <2>5 DEF Own
<1>11. Own(j, next, tree)
  <2>1. Thinner(tree, tree) BY DEF Thinner
  <2> QED BY <1>8, <2>1
<1>9. CASE i.is_dir /\ tree.kind # "s3"
  <2>1. CASE Prepare(t, j.to)
    <3>1. j.to \in Dirs BY <1>4, <1>9, TargetIsDir
    <3>2. j.to \in Path /\ Beneath(j.to, j.to) BY <3>1, DirsClosed, SwappedSelf DEF Path
    <3>3. j.to \in About(j) /\ j.cmd # "create" /\ j.pc # "idle" BY <1>1, <1>2, TargetAbout DEF OnItem
    <3> QED BY <1>2, <2>1, <3>1, <3>2, <3>3, PrepareDone
  <2>2. CASE Request(t, {Outcome(tree, ok)}, next)
    <3> HIDE DEF ok
    <3> QED BY <1>2, <1>5, <1>11, <2>2, AskDone
  <2> QED BY <1>3, <1>9, <2>1, <2>2
<1>10. CASE ~(i.is_dir /\ tree.kind # "s3") BY <1>2, <1>3, <1>5, <1>10, <1>11, LeavesDone
<1> QED BY <1>9, <1>10

\* What a task puts under the new place of an item was not listed at the old one, and it
\* is not in the way of the items that it has moved before.
LEMMA CopiesApart ==
    ASSUME NoneNested, NEW j, NEW kind, NEW n, JobOK(j, kind, n), j.cmd \in {"move", "rename"}, j.pc \in OnItem,
           NEW k, KeyOK(k), Beneath(j.to, k)
    PROVE  ~Beneath(j.item.key, k)
<1> DEFINE i == j.item
           to == j.to
<1>1. EntryOK(i) /\ TargetOK(i, to) /\ to # i.key BY DEF JobOK, UnderWay, OnItem
<1>2. i.key \in Path /\ to \in Path /\ k \in Path /\ to # <<>> BY <1>1 DEF EntryOK, TargetOK, KeyOK
<1>3. CASE i.is_dir
  <2>1. ~Beneath(i.key, to) /\ ~Beneath(to, i.key) BY <1>3, GoesApart DEF OnItem
  <2> HIDE DEF i, to
  <2> QED BY <1>2, <2>1, ApartStays DEF Path, i, to
<1>4. CASE ~i.is_dir
  <2>1. leaf_of(i.key) \in FileSegs /\ i.key # <<>> /\ leaf_of(to) \in FileSegs BY <1>1, <1>4 DEF EntryOK, TargetOK
  <2>2. k = to BY <1>2, <2>1, FileAlone
  <2>3. Beneath(i.key, k) => k = i.key BY <1>2, <2>1, FileAlone
  <2> QED BY <1>1, <2>2, <2>3
<1> QED BY <1>3, <1>4

LEMMA CopiesBeside ==
    ASSUME NoneNested, NEW j, NEW kind, NEW n, JobOK(j, kind, n), j.cmd = "move", j.pc \in OnItem,
           NEW i, EntryOK(i), parent_prefix(i.key) = parent_prefix(j.item.key), ~Stays(j, i),
           NEW k, KeyOK(k), Beneath(j.to, k)
    PROVE  ~Beneath(i.key, k)
<1> SUFFICES ASSUME Beneath(i.key, k) PROVE FALSE OBVIOUS
<1> DEFINE x == j.item
           to == j.to
           up == parent_prefix(x.key)
<1>1. /\ EntryOK(x) /\ TargetOK(x, to) /\ to = Append(j.dest, leaf_of(x.key)) /\ j.dest \in Dirs
  BY DEF JobOK, UnderWay, OnItem, CommandOK
<1>2. /\ i.key \in Path /\ i.key # <<>> /\ to \in Path /\ to # <<>> /\ k \in Path /\ x.key \in Path /\ x.key # <<>>
      /\ up \in Dirs /\ up \in Path /\ j.dest \in Path
  BY <1>1, DirsClosed DEF EntryOK, TargetOK, KeyOK
<1>3. parent_prefix(to) = j.dest
  <2>1. leaf_of(x.key) \in Segs BY <1>2, ParentLeaf DEF Path
  <2> HIDE DEF x, to
  <2> QED BY <1>1, <1>2, <2>1, AppendParent DEF Path
<1>4. to # i.key BY <1>3 DEF Stays
<1>5. ASSUME Beneath(to, i.key) PROVE FALSE
  <2>1. Beneath(to, up) BY <1>2, <1>4, <1>5, BeneathParent DEF Path
  <2>2. CASE x.is_dir
    <3>1. Beneath(to, x.key) BY <1>2, <2>1, BeneathParent DEF Path
    <3> QED BY <2>2, <3>1, GoesApart DEF OnItem
  <2>3. CASE ~x.is_dir
    <3>1. leaf_of(to) \in FileSegs BY <1>1, <2>3 DEF TargetOK
    <3> QED BY <1>2, <2>1, <3>1, FileAlone
  <2> QED BY <2>2, <2>3
<1>6. CASE i.is_dir
  <2>1. ~Beneath(i.key, j.dest) BY <1>6 DEF Stays
  <2>2. ~Beneath(i.key, to) BY <1>2, <1>3, <1>4, <2>1, BeneathParent DEF Path
  <2> HIDE DEF to
  <2> QED BY <1>2, <1>5, <2>2, ApartStays DEF Path, to
<1>7. CASE ~i.is_dir
  <2>1. k = i.key BY <1>2, <1>7, FileAlone DEF EntryOK
  <2> QED BY <1>5, <2>1
<1> QED BY <1>6, <1>7

LEMMA RenameCopyDone ==
    ASSUME NoneNested, DirInv, Rooted(tree), NEW t \in Tasks, Progress(job[t], tree), Ready(t), RenameCopy(t)
    PROVE  StepDone(t)
<1> DEFINE j == job[t]
           i == j.item
           next == Goes(t, "remove")
<1>1. JobOK(j, tree.kind, contents) /\ TreeOK(tree, contents) BY TheJob
<1>2. j.pc = "copy" /\ j.cmd \in {"move", "rename"} /\ e2ee' = e2ee BY Zenon DEF RenameCopy, Moving
<1>3. EntryOK(i) /\ TargetOK(i, j.to) /\ Within(i, j.got) BY <1>1, <1>2 DEF JobOK, UnderWay
<1>4. j.to \in About(j) /\ Restructures(j) BY <1>1, <1>2, TargetAbout DEF OnItem, Restructures
<1>5. ASSUME NEW some \in SUBSET j.got, NEW o \in copy(tree, i.key, j.to, some)
      PROVE  /\ TreeOK(o.tree, contents) /\ o.tree.kind = tree.kind /\ Reach(j, tree, o.tree) /\ Rooted(o.tree)
             /\ Noted(j, tree, o.tree) /\ tree.dirs \subseteq o.tree.dirs /\ o.tree.refused = tree.refused
             /\ \A k \in FilesIn(o.tree) : KeyOK(k) /\ (Beneath(j.to, k) \/ k \in FilesIn(tree))
  <2>1. Within(i, some) BY <1>3 DEF Within
  <2>2. TreeOK(o.tree, contents) /\ o.tree.kind = tree.kind /\ Added(tree, o.tree, j.to) BY <1>1, <1>3, <2>1, CopyOK
  <2>3. /\ Rooted(o.tree) /\ tree.dirs \subseteq o.tree.dirs /\ Learns(tree, o.tree, j.to)
        /\ o.tree.refused = tree.refused /\ o.tree.unheard = tree.unheard
    BY <1>1, <1>3, <2>1, CopyRooted
  <2>4. \A k \in FilesIn(o.tree) : KeyOK(k) /\ (Beneath(j.to, k) \/ k \in FilesIn(tree))
    BY <2>2 DEF FilesIn, TreeOK, Added
  <2>5. Reach(j, tree, o.tree) BY <1>4, <2>3, <2>4 DEF Reach
  <2>6. Noted(j, tree, o.tree) BY <1>4, <2>3 DEF Noted, Learns
  <2> QED BY <2>2, <2>3, <2>4, <2>5, <2>6
<1>6. /\ next.pc = "remove" /\ next.cmd = j.cmd /\ next.all = j.all /\ next.items = j.items /\ next.item = i
      /\ next.dest = j.dest /\ next.got = j.got
  BY GoesTo
<1>7. ASSUME NEW new, new.kind = tree.kind, new.refused = tree.refused,
             \A k \in FilesIn(new) : KeyOK(k) /\ (Beneath(j.to, k) \/ k \in FilesIn(tree))
      PROVE  Own(j, next, new)
  <2> HIDE DEF next
  <2>1. j.pc \in OnItem /\ next.pc \in OnItem BY <1>2, <1>6 DEF OnItem
  <2>2. CopyDone(next, new)
    <3> SUFFICES ASSUME tree.kind = "s3" PROVE Listed(next, new, i) BY <1>6, <1>7 DEF CopyDone
    <3>1. Listed(j, tree, i) BY <1>2 DEF Progress, MoveDone, RenameDone, CopyDone
    <3>2. ASSUME NEW k \in FilesIn(new), Beneath(i.key, k) PROVE k \in FilesIn(tree)
      BY <1>1, <1>2, <1>7, <2>1, <3>2, CopiesApart
    <3> QED BY <1>6, <3>1, <3>2 DEF Listed
  <2>3. ASSUME j.cmd = "move", NEW x \in j.all \ j.items, x # i, Settled(j, tree, x) PROVE Settled(j, new, x)
    <3>1. EntryOK(x) BY <1>1 DEF JobOK, ItemsOK
    <3>2. parent_prefix(x.key) = parent_prefix(i.key) BY <2>1, <2>3 DEF Progress, MoveDone
    <3>3. CASE Stays(j, x) BY <3>3 DEF Settled
    <3>4. CASE ~Stays(j, x)
      <4>1. Cleared(tree, x) BY <2>3, <3>4 DEF Settled
      <4>2. ASSUME NEW k \in FilesIn(new) \ new.refused, Beneath(x.key, k) PROVE FALSE
        <5>1. KeyOK(k) /\ Beneath(j.to, k) BY <1>7, <4>1, <4>2 DEF Cleared
        <5> QED BY <1>1, <2>1, <2>3, <3>1, <3>2, <3>4, <4>2, <5>1, CopiesBeside
      <4> QED BY <4>2 DEF Settled, Cleared
    <3> QED BY <3>3, <3>4
  <2>4. next.pc \notin {"rmdir", "edit", "flush", "failed", "idle"} /\ next.pc \in {"list", "copy", "remove"} BY <1>6
  <2>5. Progress(next, new) BY <1>2, <1>6, <2>1, <2>2, <2>3, <2>4, MovesOn
  <2> QED BY <2>5, GoesOwn DEF next
<1>8. CASE Request(t, copy(tree, i.key, j.to, j.got), next)
  <2> DEFINE outcomes == copy(tree, i.key, j.to, j.got)
  <2> HIDE DEF next
  <2>1. ASSUME NEW o \in outcomes
        PROVE  /\ TreeOK(o.tree, contents) /\ o.tree.kind = tree.kind
               /\ Reach(j, tree, o.tree) /\ Rooted(o.tree) /\ Noted(j, tree, o.tree) /\ Own(j, next, o.tree)
    BY <1>5, <1>7
  <2>2. Request(t, outcomes, next) BY <1>8
  <2> HIDE DEF outcomes
  <2> QED BY <1>2, <1>6, <2>1, <2>2, RequestDone
<1>9. CASE CopyBreaks(t)
  <2>1. PICK some \in SUBSET j.got : \E o \in copy(tree, i.key, j.to, some) : Broken(t, o) BY <1>9, Zenon DEF CopyBreaks
  <2>2. PICK o \in copy(tree, i.key, j.to, some) : Broken(t, o) BY <2>1
  <2> DEFINE f == Goes(t, "failed")
             c == [way |-> call[t].way, left |-> call[t].left, add |-> o.tree.known \ tree.known, drop |-> call[t].drop]
  <2>3. /\ TreeOK(o.tree, contents) /\ o.tree.kind = tree.kind /\ Reach(j, tree, o.tree) /\ Rooted(o.tree)
        /\ Noted(j, tree, o.tree) /\ tree.dirs \subseteq o.tree.dirs
    BY <1>5, <2>1, <2>2
  <2>4. /\ Like(o.tree, tree') /\ tree'.kind = tree.kind /\ tree'.known = tree.known /\ tree'.unheard = o.tree.unheard
        /\ call' = [call EXCEPT ![t] = c]
    BY <1>1, <2>2, <2>3, BrokenOK DEF DirInv
  <2>5. job' = [job EXCEPT ![t] = f] BY <1>9 DEF CopyBreaks
  <2>6. f.pc = "failed" /\ f.cmd = j.cmd /\ Own(j, f, tree') BY GoesTo, FailedOwn
  <2>7. About(f) = About(j) /\ (Restructures(f) <=> Restructures(j)) BY <2>6 DEF Own, Restructures
  <2> HIDE DEF f
  <2>8. tree'.dirs = o.tree.dirs /\ tree'.refused = o.tree.refused /\ FilesIn(tree') = FilesIn(o.tree) BY <2>4 DEF Like, FilesIn, Keys
  <2>9. c.way = call[t].way /\ c.left = call[t].left /\ c.add = o.tree.known \ tree.known /\ c.drop = {} BY DEF Ready, Stilled
  <2> HIDE DEF c
  <2>10. CallDone(f, c, tree')
    <3>1. \A d \in c.add : d \in tree'.dirs \cup tree'.unheard /\ \E x \in About(f) : Near(d, x)
      BY <2>3, <2>4, <2>7, <2>8, <2>9 DEF Noted
    <3>2. \A d \in c.left \cup c.drop : Restructures(f) /\ \E x \in About(f) : Beneath(x, d) BY <2>7, <2>9 DEF Ready, CallDone
    <3> QED BY <2>6, <3>1, <3>2 DEF CallDone
  <2>11. Reach(j, tree, tree') BY <2>3, <2>4, <2>8 DEF Reach
  <2>12. Rooted(tree') BY <2>3, <2>4, <2>8 DEF Rooted, Like, Keys
  <2>13. tree.dirs \ tree'.dirs = {} BY <2>3, <2>8
  <2>14. GoesOn(t, f, c) BY <2>4, <2>5, <2>6, <2>10, <2>13 DEF GoesOn
  <2> QED BY <1>2, <2>4, <2>11, <2>12, <2>14 DEF StepDone
<1>10. Request(t, copy(tree, i.key, j.to, j.got), next) \/ CopyBreaks(t) BY CopyEnds
<1> QED BY <1>8, <1>9, <1>10

LEMMA AfterRenameDone ==
    ASSUME DirInv, NEW t \in Tasks, Progress(job[t], tree), Moving(t), job[t].pc \in {"remove", "rmdir"},
           NEW new, Thinner(tree, new),
           job[t].cmd = "move" => Settled(job[t], new, job[t].item), job[t].cmd = "rename" => Cleared(new, job[t].item)
    PROVE  Own(job[t], AfterRename(t), new)
<1> DEFINE j == job[t]
<1>1. j.cmd \in {"move", "rename"} BY DEF Moving
<1>2. \A i : Settled(j, tree, i) => Settled(j, new, i) BY FewerCleared
<1>3. ASSUME NEW p \in {"take", "start", "edit"}, j.cmd = "move" <=> p \in {"take", "start"} PROVE Own(j, Goes(t, p), new)
  <2> DEFINE r == Goes(t, p)
  <2>1. r.pc = p /\ r.cmd = j.cmd /\ r.all = j.all /\ r.items = j.items /\ r.item = j.item /\ r.dest = j.dest BY GoesTo
  <2> HIDE DEF r
  <2>2. CopyDone(r, new) BY <2>1 DEF CopyDone
  <2>3. j.pc \in OnItem /\ r.pc # "failed" /\ (j.cmd = "move" => r.pc \in OnItem \cup {"start"}) BY <1>3, <2>1 DEF OnItem
  <2>4. Progress(r, new) BY <1>1, <1>2, <2>1, <2>2, <2>3, MovesOn
  <2> QED BY <2>4, GoesOwn DEF r
<1>4. CASE j.cmd = "move"
  <2>1. AfterRename(t) = Goes(t, IF e2ee THEN "take" ELSE "start") BY <1>4 DEF AfterRename
  <2> QED BY <1>3, <1>4, <2>1
<1>5. CASE j.cmd = "rename" /\ j.item.encrypted
  <2>1. AfterRename(t) = Goes(t, "edit") BY <1>5 DEF AfterRename
  <2> QED BY <1>3, <1>5, <2>1
<1>6. CASE j.cmd = "rename" /\ ~j.item.encrypted
  <2>1. AfterRename(t) = Answered("ok") BY <1>6 DEF AfterRename
  <2>2. Effect(j, new) BY <1>6, EffectOf DEF Cmds
  <2> QED BY <2>1, <2>2, AnswersOwn
<1> QED BY <1>1, <1>4, <1>5, <1>6

\* The item of a move or a rename that is under way.
LEMMA ItemAbout ==
    ASSUME NEW j, j.cmd \in {"move", "rename"}, j.pc \in OnItem, NEW tr, Progress(j, tr)
    PROVE  j.item.key \in About(j) /\ Restructures(j)
<1>1. CASE j.cmd = "move"
  <2>1. j.item \in j.all BY <1>1 DEF Progress, MoveDone
  <2> QED BY <1>1, <2>1 DEF About, Restructures
<1>2. CASE j.cmd = "rename" BY <1>2 DEF About, Restructures
<1> QED BY <1>1, <1>2

LEMMA RenameRemoveDone == ASSUME DirInv, Rooted(tree), NEW t \in Tasks, Progress(job[t], tree), Ready(t), RenameRemove(t) PROVE StepDone(t)
<1> DEFINE j == job[t]
           i == j.item
<1>1. JobOK(j, tree.kind, contents) /\ TreeOK(tree, contents) BY TheJob
<1>2. /\ j.pc = "remove" /\ Moving(t) /\ e2ee' = e2ee
      /\ tree.kind = "s3" => s3_deletes(t, Removes(t), AfterRename(t))
      /\ tree.kind # "s3" => Asks(t, Unlinked(i), IF i.is_dir THEN Goes(t, "rmdir") ELSE AfterRename(t),
                                  [NoCall EXCEPT !.left = Found(i)])
  BY Zenon DEF RenameRemove
<1>3. j.cmd \in {"move", "rename"} /\ j.pc \in OnItem BY <1>2 DEF Moving, OnItem
<1>4. EntryOK(i) /\ Within(i, j.got) BY <1>1, <1>2, <1>3 DEF JobOK, UnderWay
<1>5. i.key \in About(j) /\ Restructures(j) BY <1>3, ItemAbout
<1>6. CASE tree.kind = "s3"
  <2> DEFINE keys == Removes(t)
             next == AfterRename(t)
  <2>1. <<>> \notin keys /\ \A k \in keys : Beneath(i.key, k)
    <3>1. Beneath(i.key, i.key) /\ i.key \in Path /\ i.key # <<>> BY <1>4, SwappedSelf DEF EntryOK, Path
    <3>2. ~Beneath(i.key, <<>>)
      <4>1. Len(i.key) \in Nat /\ Len(i.key) # 0 BY <3>1, LenProperties, EmptySeq DEF Path
      <4>2. Len(<<>>) = 0 OBVIOUS
      <4> QED BY <4>1, <4>2 DEF Beneath
    <3> QED BY <1>4, <3>1, <3>2 DEF Within, Removes
  <2>2. Listed(j, tree, i) BY <1>2, <1>3, <1>6 DEF Progress, MoveDone, RenameDone, CopyDone
  <2>3. ASSUME S3Thinner(tree, tree', keys) PROVE Own(j, next, tree')
    <3>1. Thinner(tree, tree') /\ j.got \cap FilesIn(tree') \subseteq tree'.refused BY <2>3 DEF S3Thinner, Removes
    <3>2. Cleared(tree', i) BY <2>2, <3>1 DEF Cleared, Listed, Thinner
    <3> QED BY <1>2, <3>1, <3>2, AfterRenameDone DEF Settled
  <2>4. s3_deletes(t, keys, next) BY <1>2, <1>6
  <2>5. \A k \in keys : \E x \in About(j) : Beneath(x, k) BY <1>5, <2>1
  <2> HIDE DEF keys, next
  <2> QED BY <1>2, <1>5, <1>6, <2>1, <2>3, <2>4, <2>5, S3DeletesDone
<1>7. CASE tree.kind # "s3"
  <2> DEFINE next == IF i.is_dir THEN Goes(t, "rmdir") ELSE AfterRename(t)
             r == Goes(t, "rmdir")
             left == Found(i)
  <2>1. r.pc = "rmdir" /\ r.cmd = j.cmd /\ r.all = j.all /\ r.items = j.items /\ r.item = j.item /\ r.dest = j.dest BY GoesTo
  <2>2. (i.is_dir => next = r) /\ (~i.is_dir => next = AfterRename(t)) OBVIOUS
  <2>3. Asks(t, Unlinked(i), next, [NoCall EXCEPT !.left = left]) BY <1>2, <1>7
  <2> HIDE DEF next, r, left
  <2>4. ASSUME NEW o \in Unlinked(i), o.ok, Thinner(tree, o.tree), Cleared(o.tree, i) PROVE Own(j, next, o.tree)
    <3>1. CASE i.is_dir
      <4>1. CopyDone(r, o.tree) BY <2>1 DEF CopyDone
      <4>2. r.pc # "failed" /\ r.pc \in OnItem \cup {"start"} BY <2>1 DEF OnItem
      <4>3. \A x : Settled(j, tree, x) => Settled(j, o.tree, x) BY <2>4, FewerCleared
      <4>4. Settled(j, o.tree, i) BY <2>4 DEF Settled
      <4>5. Progress(r, o.tree) BY <1>3, <2>1, <2>4, <4>1, <4>2, <4>3, <4>4, MovesOn
      <4>6. Own(j, r, o.tree) BY <4>5, GoesOwn DEF r
      <4> QED BY <2>2, <3>1, <4>6
    <3>2. CASE ~i.is_dir
      <4>1. Own(j, AfterRename(t), o.tree) BY <1>2, <2>4, AfterRenameDone DEF Settled
      <4> QED BY <2>2, <3>2, <4>1
    <3> QED BY <3>1, <3>2
  <2>5. i.is_dir => next.pc # "idle" BY <2>1, <2>2
  <2>6. left = Found(i) BY DEF left
  <2> QED BY <1>2, <1>4, <1>5, <1>7, <2>3, <2>4, <2>5, <2>6, UnlinksDone
<1> QED BY <1>6, <1>7

LEMMA RenameRmdirDone == ASSUME DirInv, Rooted(tree), NEW t \in Tasks, Progress(job[t], tree), Ready(t), RenameRmdir(t) PROVE StepDone(t)
<1> DEFINE j == job[t]
           i == j.item
           next == AfterRename(t)
<1>1. JobOK(j, tree.kind, contents) BY TheJob
<1>2. /\ j.pc = "rmdir" /\ Moving(t) /\ e2ee' = e2ee
      /\ Rmdir(t) \/ Leaves(t, next)
  BY Zenon DEF RenameRmdir
<1>3. tree.kind # "s3" /\ j.cmd \in {"move", "rename"} BY <1>1, <1>2 DEF JobOK, PcOK, Moving
<1>4. CASE Rmdir(t) BY <1>2, <1>3, <1>4, RmdirDone
<1>5. CASE Leaves(t, next)
  <2>1. (j.cmd = "move" => Settled(j, tree, i)) /\ (j.cmd = "rename" => Cleared(tree, i))
    BY <1>2, <1>3 DEF Progress, MoveDone, RenameDone, OnItem
  <2>2. Thinner(tree, tree) BY DEF Thinner
  <2>3. Own(j, next, tree) BY <1>2, <2>1, <2>2, AfterRenameDone
  <2> HIDE DEF next
  <2> QED BY <1>2, <1>3, <1>5, <2>3, LeavesDone
<1> QED BY <1>2, <1>4, <1>5

\* A move goes on after its item has left its place.
LEMMA TakenOwn ==
    ASSUME DirInv, NEW t \in Tasks, Progress(job[t], tree), job[t].cmd = "move", job[t].pc \in {"take", "insert"},
           NEW p \in {"start", "insert"}, NEW x
    PROVE  Own(job[t], Goes(t, p), tree) /\ Own(job[t], [Goes(t, p) EXCEPT !.taken = x], tree)
<1> DEFINE j == job[t]
           g == Goes(t, p)
           q == [g EXCEPT !.taken = x]
<1>1. j.pc \in OnItem /\ Settled(j, tree, j.item)
  BY DEF Progress, MoveDone, OnItem
<1>2. ASSUME NEW r, r.pc = p, r.cmd = j.cmd, r.all = j.all, r.items = j.items, r.item = j.item, r.dest = j.dest, r.name = j.name
      PROVE  Own(j, r, tree)
  <2>1. r.pc # "failed" /\ r.pc # "idle" /\ r.pc \in OnItem \cup {"start"} BY <1>2 DEF OnItem
  <2>2. CopyDone(r, tree) BY <1>2 DEF CopyDone
  <2>3. Progress(r, tree) BY <1>1, <1>2, <2>1, <2>2, MovesOn
  <2>4. About(r) = About(j) BY <1>2, SameAbout
  <2> QED BY <1>2, <2>1, <2>3, <2>4 DEF Own
<1>3. /\ IsJob(g) /\ g.pc = p /\ g.cmd = j.cmd /\ g.all = j.all /\ g.items = j.items /\ g.item = j.item
      /\ g.dest = j.dest /\ g.name = j.name
  BY GoesTo
<1> HIDE DEF g, j
<1>4. IsJob(q) /\ SameBut(q, g) /\ q.item = g.item /\ q.items = g.items BY <1>3, JobTaken
<1> HIDE DEF q
<1>5. Own(j, g, tree) BY <1>2, <1>3
<1>6. Own(j, q, tree) BY <1>2, <1>3, <1>4 DEF SameBut
<1> QED BY <1>5, <1>6 DEF q, g, j

LEMMA MoveTakeDone == ASSUME DirInv, Rooted(tree), NEW t \in Tasks, Progress(job[t], tree), Ready(t), MoveTake(t) PROVE StepDone(t)
<1> DEFINE got == take_entry(View(parent_prefix(job[t].item.key)), job[t].item.name)
           p == IF got.entry = {} THEN "start" ELSE "insert"
           next == [Goes(t, p) EXCEPT !.taken = got.entry]
<1>1. /\ job[t].pc = "take" /\ e2ee' = e2ee /\ tree' = tree /\ call' = call
      /\ Becomes(t, next) \/ Becomes(t, Goes(t, "start"))
  BY Zenon DEF MoveTake
<1>2. job[t].cmd = "move" BY <1>1, TheJob DEF JobOK, PcOK
<1>3. p \in {"start", "insert"} OBVIOUS
<1> HIDE DEF p, got
<1>4. Own(job[t], next, tree) BY <1>1, <1>2, <1>3, TakenOwn
<1>5. Own(job[t], Goes(t, "start"), tree) BY <1>1, <1>2, TakenOwn
<1> HIDE DEF next
<1> QED BY <1>1, <1>2, <1>4, <1>5, StayDone DEF Becomes

LEMMA MoveInsertDone == ASSUME DirInv, Rooted(tree), NEW t \in Tasks, Progress(job[t], tree), Ready(t), MoveInsert(t) PROVE StepDone(t)
<1> DEFINE next == [Goes(t, "start") EXCEPT !.taken = {}]
<1>1. job[t].pc = "insert" /\ e2ee' = e2ee /\ tree' = tree /\ call' = call /\ Becomes(t, next) BY Zenon DEF MoveInsert
<1>2. job[t].cmd = "move" BY <1>1, TheJob DEF JobOK, PcOK
<1>3. Own(job[t], next, tree) BY <1>1, <1>2, TakenOwn
<1> HIDE DEF next
<1> QED BY <1>1, <1>2, <1>3, StayDone DEF Becomes

\* Of an upload and of a calculation of sizes nothing is claimed.
LEMMA PlainOwn ==
    ASSUME DirInv, NEW t \in Tasks, job[t].cmd \in {"upload", "size"}, NEW new
    PROVE  /\ \A p : p # "idle" => Own(job[t], Goes(t, p), new)
           /\ Own(job[t], Answered("ok"), new)
<1>1. ASSUME NEW p, p # "idle" PROVE Own(job[t], Goes(t, p), new)
  <2>1. Goes(t, p).cmd = job[t].cmd BY GoesTo
  <2>2. Progress(Goes(t, p), new) BY <2>1 DEF Progress
  <2> QED BY <1>1, <2>2, GoesOwn
<1>2. Effect(job[t], new) BY EffectOf DEF Cmds
<1> QED BY <1>1, <1>2, AnswersOwn

LEMMA SizeListDone == ASSUME DirInv, Rooted(tree), NEW t \in Tasks, Progress(job[t], tree), Ready(t), SizeList(t) PROVE StepDone(t)
<1> DEFINE next == IF job[t].item.encrypted THEN Goes(t, "edit") ELSE Answered("ok")
<1>1. job[t].cmd = "size" /\ e2ee' = e2ee BY Zenon DEF SizeList
<1>2. PICK ok : Request(t, {Outcome(tree, ok)}, next) BY Zenon DEF SizeList
<1>3. Own(job[t], next, tree) BY <1>1, PlainOwn
<1>4. next.pc # "start" BY GoesTo DEF Answered
<1> HIDE DEF next
<1> QED BY <1>1, <1>2, <1>3, <1>4, AskDone

LEMMA UploadPrepareDone == ASSUME DirInv, Rooted(tree), NEW t \in Tasks, Progress(job[t], tree), Ready(t), UploadPrepare(t) PROVE StepDone(t)
<1> DEFINE j == job[t]
           r == Goes(t, "put")
           dir == parent_prefix(j.to)
<1>1. JobOK(j, tree.kind, contents) BY TheJob
<1>2. /\ j.pc = "start" /\ j.cmd = "upload" /\ e2ee' = e2ee
      /\ Prepare(t, dir) \/ Leaves(t, r)
  BY DEF UploadPrepare
<1>3. dir \in Dirs /\ KeyOK(j.to) /\ j.to \in About(j) BY <1>1, <1>2, UploadPaths DEF JobOK, UploadOK, About
<1>4. CASE Prepare(t, dir)
  <2>1. dir \in Path /\ j.to \in Path /\ j.to # <<>> BY <1>3, DirsClosed DEF KeyOK
  <2>2. Beneath(dir, dir) BY <2>1, SwappedSelf DEF Path
  <2>3. Beneath(dir, j.to) BY <2>1, <2>2, BeneathParent DEF Path
  <2> HIDE DEF dir
  <2> QED BY <1>2, <1>3, <1>4, <2>3, PrepareDone
<1>5. CASE Leaves(t, r)
  <2>1. Own(j, r, tree) BY <1>2, PlainOwn
  <2> HIDE DEF r
  <2> QED BY <1>2, <1>5, <2>1, LeavesDone
<1> QED BY <1>2, <1>4, <1>5

LEMMA UploadPutDone == ASSUME DirInv, Rooted(tree), NEW t \in Tasks, Progress(job[t], tree), Ready(t), UploadPut(t) PROVE StepDone(t)
<1> DEFINE j == job[t]
           p == IF e2ee THEN "edit" ELSE "flush"
           g == Goes(t, p)
           next == [Goes(t, p) EXCEPT !.at = 1]
           outcomes == put(tree, j.to, j.content)
<1>1. JobOK(j, tree.kind, contents) /\ TreeOK(tree, contents) BY TheJob
<1>2. j.pc = "put" /\ e2ee' = e2ee /\ Request(t, outcomes, next) BY DEF UploadPut
<1>3. j.cmd = "upload" BY <1>1, <1>2 DEF JobOK, PcOK
<1>4. KeyOK(j.to) BY <1>1, <1>3, UploadPaths DEF JobOK, UploadOK
<1>5. \A new : Own(j, next, new)
  <2> SUFFICES ASSUME NEW new PROVE Own(j, next, new) OBVIOUS
  <2>1. /\ IsJob(g) /\ g.pc = p /\ g.cmd = j.cmd /\ g.all = j.all /\ g.dest = j.dest /\ g.name = j.name /\ g.to = j.to
    BY GoesTo
  <2>2. p # "idle" OBVIOUS
  <2>3. next = [g EXCEPT !.at = 1] OBVIOUS
  <2> HIDE DEF g, p, next, j
  <2>4. SameBut(next, g) /\ next.to = g.to BY <2>1, <2>3, JobAt
  <2>5. About(next) = About(j) BY <1>3, <2>1, <2>4, SameAbout DEF SameBut
  <2>6. Progress(next, new) BY <1>3, <2>1, <2>4 DEF SameBut, Progress
  <2> QED BY <2>1, <2>2, <2>4, <2>5, <2>6 DEF Own, SameBut
<1>6. ASSUME NEW o \in outcomes
      PROVE  o.tree.kind = tree.kind /\ Reach(j, tree, o.tree) /\ Rooted(o.tree) /\ Noted(j, tree, o.tree) /\ o.tree.known = tree.known
  <2>1. CASE tree.kind = "s3" \/ parent_prefix(j.to) \in tree.dirs
    <3> DEFINE obj == With(tree.obj, j.to, j.content)
               new == [tree EXCEPT !.obj = obj]
    <3>1. o = Outcome(new, TRUE) BY <1>6, <2>1 DEF put, Ok
    <3>2. o.tree = new BY <3>1 DEF Outcome
    <3>3. DOMAIN obj = {j.to} \cup Keys(tree) BY DEF With, Keys
    <3> HIDE DEF obj
    <3>4. /\ new.kind = tree.kind /\ new.dirs = tree.dirs /\ new.obj = obj /\ new.known = tree.known
          /\ new.refused = tree.refused /\ new.unheard = tree.unheard
      BY <1>1 DEF TreeOK, IsTree
    <3> HIDE DEF new
    <3>5. Keys(new) = {j.to} \cup Keys(tree) BY <3>3, <3>4 DEF Keys
    <3>6. Rooted(new) BY <2>1, <3>4, <3>5, SameDirsRooted
    <3>7. j.to \in About(j) /\ Beneath(j.to, j.to) BY <1>3, <1>4, SwappedSelf DEF About, KeyOK, Path
    <3>8. \A k \in FilesIn(new) \ FilesIn(tree) : k = j.to BY <3>5 DEF FilesIn
    <3>9. Reach(j, tree, new) /\ Noted(j, tree, new) BY <3>4, <3>7, <3>8 DEF Reach, Noted
    <3> QED BY <3>2, <3>4, <3>6, <3>9
  <2>2. CASE ~(tree.kind = "s3" \/ parent_prefix(j.to) \in tree.dirs)
    <3>1. o = Outcome(tree, FALSE) BY <1>6, <2>2 DEF put, Err
    <3>2. o.tree = tree BY <3>1 DEF Outcome
    <3> QED BY <3>2, NoReach DEF Noted
  <2> QED BY <2>1, <2>2
<1>7. \A o \in outcomes : TreeOK(o.tree, contents)
  <2>1. j.content \in 1 .. contents BY <1>1, <1>3 DEF JobOK, UploadOK
  <2> QED BY <1>1, <1>4, <2>1, PutOK
<1>8. next.pc # "start"
  <2>1. IsJob(g) /\ g.pc = p BY GoesTo
  <2>2. p # "start" /\ next = [g EXCEPT !.at = 1] OBVIOUS
  <2> HIDE DEF g, p, next
  <2>3. SameBut(next, g) BY <2>1, <2>2, JobAt
  <2> QED BY <2>1, <2>2, <2>3 DEF SameBut
<1> HIDE DEF next, outcomes
<1> QED BY <1>2, <1>5, <1>6, <1>7, <1>8, RequestDone

LEMMA EditStepDone == ASSUME DirInv, Rooted(tree), NEW t \in Tasks, Progress(job[t], tree), Ready(t), EditStep(t) PROVE StepDone(t)
<1> DEFINE j == job[t]
           f == Goes(t, "flush")
<1>1. PICK e \in EditsOf(t) : Becomes(t, e[3]) \/ Becomes(t, Unedited(t, e[3])) BY Zenon DEF EditStep
<1>2. j.pc = "edit" /\ tree' = tree /\ e2ee' = e2ee /\ call' = call BY Zenon DEF EditStep
<1>3. JobOK(j, tree.kind, contents) BY TheJob
<1>4. j.cmd \in {"create", "rename", "size", "delete", "upload"} /\ IsJob(j) BY <1>2, <1>3 DEF JobOK, PcOK
<1>5. j.cmd # "delete" => Own(j, f, tree)
  <2> SUFFICES ASSUME j.cmd # "delete" PROVE Own(j, f, tree) OBVIOUS
  <2>1. f.pc = "flush" /\ f.cmd = j.cmd /\ f.dest = j.dest /\ f.name = j.name /\ f.item = j.item BY GoesTo
  <2> HIDE DEF f
  <2>2. Progress(f, tree) BY <1>2, <1>4, <2>1 DEF Progress, CreateDone, RenameDone, CopyDone
  <2> QED BY <2>2, GoesOwn DEF f
<1>6. Own(j, Goes(t, "failed"), tree) BY FailedOwn
<1>7. Own(j, e[3], tree)
  <2>1. CASE j.cmd \in {"create", "rename", "size"}
    <3> DEFINE parent == parent_prefix(j.item.key)
    <3>1. CASE j.cmd = "create"
      <4>1. e = <<j.dest, upsert_folder(View(j.dest), j.name), Goes(t, "flush"), {}>> BY <3>1 DEF EditsOf
      <4> QED BY <1>5, <3>1, <4>1
    <3>2. CASE j.cmd = "rename"
      <4>1. e = <<parent, rename_entry(View(parent), j.item.name, j.name), Goes(t, "flush"), FolderOf(j.item)>>
        BY <3>2 DEF EditsOf
      <4> QED BY <1>5, <3>2, <4>1
    <3>3. CASE j.cmd = "size"
      <4>1. e = <<parent, set_folder_size(View(parent), j.item.name, 1), Goes(t, "flush"), {}>> BY <3>3 DEF EditsOf
      <4> QED BY <1>5, <3>3, <4>1
    <3> QED BY <2>1, <3>1, <3>2, <3>3
  <2>2. CASE j.cmd = "delete"
    <3>1. PICK i \in j.items : e = <<parent_prefix(i.key), remove(View(parent_prefix(i.key)), i.name),
                                     [Goes(t, IF j.items = {i} THEN "flush" ELSE "edit") EXCEPT !.items = @ \ {i}], FolderOf(i)>>
      BY <2>2 DEF EditsOf
    <3> DEFINE p == IF j.items = {i} THEN "flush" ELSE "edit"
    <3>2. e[3] = [Goes(t, p) EXCEPT !.items = @ \ {i}] BY <3>1
    <3>3. p \in {"edit", "flush"} OBVIOUS
    <3> HIDE DEF p
    <3> DEFINE its == Goes(t, p).items \ {i}
    <3>4. e[3] = [Goes(t, p) EXCEPT !.items = its] BY <3>2
    <3>5. \A x \in j.all : Cleared(tree, x) BY <1>2, <2>2 DEF Progress, DeleteDone
    <3> HIDE DEF its
    <3>6. Own(j, [Goes(t, p) EXCEPT !.items = its], tree) BY <2>2, <3>3, <3>5, ItemsOwn
    <3> QED BY <3>4, <3>6
  <2>3. CASE j.cmd = "upload"
    <3> DEFINE n == j.rel[j.at]
               dir == j.dest \o on_disk_path(TRUE, SubSeq(j.rel, 1, j.at - 1))
               r == [j EXCEPT !.at = j.at + 1]
    <3>0. \/ e = <<dir, upsert_file(View(dir), n, j.content), Goes(t, "flush"), {}>>
          \/ e = <<dir, upsert_folder(View(dir), n), [j EXCEPT !.at = @ + 1], {}>>
      BY <2>3 DEF EditsOf
    <3> HIDE DEF dir, n
    <3>1. e[3] = f \/ e[3] = r BY <3>0
    <3> HIDE DEF j
    <3>2. SameBut(r, j) /\ r.to = j.to BY <1>4, JobAt
    <3> HIDE DEF r
    <3>3. About(r) = About(j) BY <2>3, <3>2, SameAbout DEF SameBut
    <3>4. Progress(r, tree) BY <2>3, <3>2 DEF SameBut, Progress
    <3>5. Own(j, r, tree) BY <1>2, <3>2, <3>3, <3>4 DEF Own, SameBut
    <3> QED BY <1>5, <2>3, <3>1, <3>5
  <2> QED BY <1>4, <2>1, <2>2, <2>3
<1>8. Own(j, Unedited(t, e[3]), tree)
  <2>1. CASE j.cmd \in {"create", "rename"} BY <1>6, <2>1 DEF Unedited
  <2>2. CASE j.cmd = "upload" BY <1>5, <2>2 DEF Unedited
  <2>3. CASE j.cmd \notin {"create", "rename", "upload"} BY <1>7, <2>3 DEF Unedited
  <2> QED BY <2>1, <2>2, <2>3
<1>9. ASSUME j.cmd = "create" PROVE e[3].pc # "start" /\ Unedited(t, e[3]).pc # "start"
  <2>1. e = <<j.dest, upsert_folder(View(j.dest), j.name), Goes(t, "flush"), {}>> BY <1>9 DEF EditsOf
  <2>2. e[3] = Goes(t, "flush") BY <2>1
  <2>3. Unedited(t, e[3]) = Goes(t, "failed") BY <1>9 DEF Unedited
  <2> QED BY <2>2, <2>3, GoesTo
<1> QED BY <1>1, <1>2, <1>7, <1>8, <1>9, StayDone DEF Becomes

\* Files and directories stay, whatever becomes of the manifests and of what is known.
Unmoved(tr, new) == /\ new.kind = tr.kind /\ new.dirs = tr.dirs /\ FilesIn(new) = FilesIn(tr)
                    /\ new.refused = tr.refused /\ new.unheard = tr.unheard

\* A flush, complete or not, touches no file and no directory.
LEMMA FlushedRooted ==
    ASSUME DirInv, Rooted(tree), NEW some \in SUBSET Unsaved, NEW more \in SUBSET Unsaved, \A d \in more : CanPut(d),
           tree' = FlushedTree(more), buf' = FlushedBuf(some)
    PROVE  Rooted(tree') /\ Unmoved(tree, tree') /\ tree'.known = tree.known
<1>1. Unsaved \subseteq Dirs /\ TreeOK(tree, contents) BY DEF Unsaved, DirInv
<1>2. tree'.kind = tree.kind /\ SameFiles(tree, tree') BY FlushedOK
<1>3. more \in SUBSET Dirs BY <1>1
<1>4. /\ Rooted(tree') /\ tree'.dirs = tree.dirs /\ tree'.known = tree.known /\ tree'.refused = tree.refused
      /\ tree'.unheard = tree.unheard
  BY <1>1, <1>3, FlushRooted
<1> QED BY <1>2, <1>4 DEF SameFiles, Unmoved

LEMMA FlushFailsRooted ==
    ASSUME DirInv, Rooted(tree), NEW wanted \in SUBSET Unsaved, FlushFails(wanted)
    PROVE  Rooted(tree') /\ Unmoved(tree, tree') /\ tree'.known = tree.known
<1>1. PICK some \in SUBSET {d \in wanted : CanPut(d)}, more \in SUBSET {d \in wanted : CanPut(d)} :
         tree' = FlushedTree(more) /\ buf' = FlushedBuf(some)
  BY Zenon DEF FlushFails
<1>2. some \in SUBSET Unsaved /\ more \in SUBSET Unsaved /\ \A d \in more : CanPut(d) OBVIOUS
<1> QED BY <1>1, <1>2, FlushedRooted

LEMMA UnmovedThinner ==
    ASSUME NEW tr, NEW new, Unmoved(tr, new)
    PROVE  Thinner(tr, new) /\ \A j : Reach(j, tr, new) /\ Undisturbed(j, tr, new)
BY DEF Unmoved, Thinner, Reach, Undisturbed

LEMMA FlushStepDone == ASSUME DirInv, Rooted(tree), NEW t \in Tasks, Progress(job[t], tree), Ready(t), FlushStep(t) PROVE StepDone(t)
<1> DEFINE j == job[t]
           next == IF j.cmd \in {"create", "rename"} THEN Goes(t, "failed") ELSE Done(t)
<1>1. JobOK(j, tree.kind, contents) BY TheJob
<1>2. j.pc = "flush" /\ e2ee' = e2ee /\ call' = call /\ (Becomes(t, Done(t)) \/ Becomes(t, next)) BY DEF FlushStep
<1>3. Rooted(tree') /\ Unmoved(tree, tree') /\ tree'.known = tree.known BY FlushedRooted, FlushFailsRooted DEF FlushStep
<1>4. Reach(j, tree, tree') /\ Thinner(tree, tree') BY <1>3, UnmovedThinner
<1>5. Own(j, Goes(t, "failed"), tree') BY FailedOwn
<1>6. Own(j, Done(t), tree')
  <2>1. \A i : (Cleared(tree, i) => Cleared(tree', i)) /\ (Settled(j, tree, i) => Settled(j, tree', i))
    BY <1>4, FewerCleared
  <2>2. j.cmd # "none" => Effect(j, tree')
    <3> SUFFICES ASSUME j.cmd # "none" PROVE Effect(j, tree') OBVIOUS
    <3>1. j.cmd \in Cmds \ {"none"} BY <1>1 DEF JobOK, PcOK
    <3>2. j.cmd = "create" => tree'.kind = "sftp" \/ Append(j.dest, Seg(j.name)) \in tree'.dirs \cup tree'.unheard
      BY <1>2, <1>3 DEF Progress, CreateDone, Unmoved
    <3>3. j.cmd = "delete" => \A i \in j.all : Cleared(tree', i) BY <1>2, <2>1 DEF Progress, DeleteDone
    <3>4. j.cmd = "move" => \A i \in j.all : Settled(j, tree', i) BY <1>2, <2>1 DEF Progress, MoveDone
    <3>5. j.cmd = "rename" => Cleared(tree', j.item) BY <1>2, <2>1 DEF Progress, RenameDone
    <3> QED BY <3>1, <3>2, <3>3, <3>4, <3>5, EffectOf
  <2>3. j.cmd = "none" => Effect(j, tree') BY DEF Effect
  <2>4. Done(t) = Answered("ok") \/ Done(t) = Answered("err") BY DEF Done
  <2> QED BY <2>2, <2>3, <2>4, AnswersOwn
<1>7. Own(j, next, tree') BY <1>5, <1>6
<1>8. next.pc # "start" /\ Done(t).pc # "start" BY GoesTo DEF Done, Answered
<1> HIDE DEF next
<1>9. PICK r : job' = [job EXCEPT ![t] = r] /\ Own(j, r, tree') /\ r.pc # "start" BY <1>2, <1>6, <1>7, <1>8 DEF Becomes
<1> QED BY <1>2, <1>3, <1>4, <1>9, PlainDone DEF Unmoved

\* A backend that is connected anew has what the old one had.
LEMMA UnknownRooted ==
    ASSUME NEW n, TreeOK(tree, n), Rooted(tree), NEW new \in {tree, [tree EXCEPT !.known = {}]}
    PROVE  Rooted(new) /\ Unmoved(tree, new) /\ new.known \subseteq tree.known
<1>1. /\ new.kind = tree.kind /\ new.dirs = tree.dirs /\ new.obj = tree.obj /\ new.refused = tree.refused
      /\ new.unheard = tree.unheard /\ new.known \in {tree.known, {}}
  BY DEF TreeOK, IsTree
<1> QED BY <1>1, SameDirsRooted DEF Unmoved, FilesIn, Keys

LEMMA RetryDone == ASSUME DirInv, Rooted(tree), NEW t \in Tasks, Progress(job[t], tree), Ready(t), Retry(t) PROVE StepDone(t)
<1> DEFINE j == job[t]
           r == [j EXCEPT !.pc = "start", !.tried = TRUE, !.items = j.all]
<1>1. JobOK(j, tree.kind, contents) /\ TreeOK(tree, contents) BY TheJob
<1>2. /\ job' = [job EXCEPT ![t] = r] /\ tree' \in {tree, [tree EXCEPT !.known = {}]} /\ e2ee' = e2ee
      /\ call' = [call EXCEPT ![t] = NoCall]
  BY Zenon DEF Retry, Becomes
<1>3. Rooted(tree') /\ Unmoved(tree, tree') /\ tree'.known \subseteq tree.known
  BY <1>1, <1>2, UnknownRooted
<1>4. /\ r.pc = "start" /\ r.cmd = j.cmd /\ r.all = j.all /\ r.items = j.all /\ r.item = j.item /\ r.dest = j.dest
      /\ r.name = j.name /\ r.to = j.to
  <2>1. IsJob(j) /\ r = [j EXCEPT !.pc = "start", !.tried = TRUE, !.items = j.all] BY <1>1 DEF JobOK
  <2> HIDE DEF j, r
  <2>2. r = [pc |-> "start", cmd |-> j.cmd, all |-> j.all, items |-> j.all, item |-> j.item,
             dest |-> j.dest, name |-> j.name, rel |-> j.rel, at |-> j.at, content |-> j.content,
             to |-> j.to, got |-> j.got, taken |-> j.taken, began |-> j.began, tried |-> TRUE,
             result |-> j.result]
    BY <2>1 DEF IsJob
  <2> QED BY <2>2
<1> HIDE DEF r
<1>5. Progress(r, tree')
  <2>1. j.cmd = "move" => MoveDone(j, tree) BY DEF Progress
  <2>2. j.cmd = "move" => MoveDone(r, tree') BY <1>4, <2>1 DEF MoveDone, CopyDone, OnItem
  <2>3. CreateDone(r, tree') BY <1>4 DEF CreateDone
  <2>4. DeleteDone(r, tree') BY <1>4 DEF DeleteDone
  <2>5. RenameDone(r, tree') BY <1>4 DEF RenameDone, CopyDone
  <2> QED BY <1>4, <2>2, <2>3, <2>4, <2>5 DEF Progress
<1>6. About(r) = About(j) BY <1>4, SameAbout
<1>7. Own(j, r, tree') BY <1>4, <1>5, <1>6 DEF Own
<1>8. Reach(j, tree, tree') BY <1>3, UnmovedThinner
<1> QED BY <1>2, <1>3, <1>7, <1>8, PlainDone DEF Unmoved

LEMMA GiveUpDone == ASSUME DirInv, Rooted(tree), NEW t \in Tasks, Progress(job[t], tree), Ready(t), GiveUp(t) PROVE StepDone(t)
<1> DEFINE j == job[t]
           next == IF j.cmd = "upload" /\ e2ee THEN Goes(t, "flush") ELSE Answered("err")
<1>1. e2ee' = e2ee /\ tree' = tree /\ Becomes(t, next) /\ call' = [call EXCEPT ![t] = NoCall] BY Zenon DEF GiveUp
<1>2. Own(j, next, tree) BY PlainOwn, AnswersOwn
<1>3. next.pc # "start" BY GoesTo DEF Answered
<1> HIDE DEF next
<1> QED BY <1>1, <1>2, <1>3, StayDone DEF Becomes

-----------------------------------------------------------------------------
(* The steps that are of no task, and the commands *)

\* Directories and files stay as they are, and only directories that are there become known.
LEMMA HoldsOn ==
    ASSUME NEW j, NEW c, Holds(j, c, tree), Unmoved(tree, tree')
    PROVE  Holds(j, c, tree')
<1>1. Undisturbed(j, tree, tree') /\ tree'.kind = tree.kind BY UnmovedThinner DEF Unmoved
<1> QED BY <1>1, ProgressKept, CallKept DEF Holds

LEMMA StillKnown ==
    ASSUME KnownDirs(tree, call), Unmoved(tree, tree'), tree'.known \subseteq tree.known \cup tree.dirs,
           \A u \in Tasks : call[u].drop \subseteq call'[u].drop
    PROVE  KnownDirs(tree', call')
<1> SUFFICES ASSUME tree.kind \in {"smb", "nfs"}, NEW d \in tree'.known
             PROVE  d \in tree'.dirs \cup tree'.unheard \/ \E u \in Tasks : d \in call'[u].drop
  BY DEF KnownDirs, Unmoved
<1>1. d \in tree.dirs \cup tree.unheard \/ \E u \in Tasks : d \in call[u].drop BY DEF KnownDirs
<1> QED BY <1>1 DEF Unmoved

\* The tasks stay as they are.
LEMMA IdleDone ==
    ASSUME DoneInv, ~muddled, e2ee' = e2ee, job' = job, call' = call, Rooted(tree'), Unmoved(tree, tree'),
           tree'.known \subseteq tree.known \cup tree.dirs
    PROVE  DoneInv' /\ \A u \in Tasks : ~Answers(u)
<1>1. Apart /\ KnownDirs(tree, call) /\ \A u \in Tasks : Holds(job[u], call[u], tree) BY DEF DoneInv
<1>2. ASSUME NEW u \in Tasks PROVE Holds(job'[u], call'[u], tree')
  <2>1. Holds(job[u], call[u], tree) BY <1>1
  <2>2. Holds(job[u], call[u], tree') BY <2>1, HoldsOn
  <2> QED BY <2>2
<1>3. \A u \in Tasks : \A v \in Tasks \ {u} : job'[u].pc # "idle" /\ job'[v].pc # "idle" => ~Clash(job'[u], job'[v])
  BY <1>1 DEF Apart, Active
<1>4. KnownDirs(tree', call') BY <1>1, StillKnown
<1>5. DoneInv' BY <1>2, <1>3, <1>4, EachDone
<1>6. \A u \in Tasks : ~Answers(u) BY DEF Answers, Active
<1> QED BY <1>5, <1>6

LEMMA FlushTimerDone == ASSUME DirInv, DoneInv, ~muddled, FlushTimer PROVE DoneInv' /\ \A u \in Tasks : ~Answers(u)
<1>1. e2ee' = e2ee /\ job' = job /\ call' = call BY DEF FlushTimer, tasks
<1>2. Rooted(tree) BY DEF DoneInv
<1>3. Rooted(tree') /\ Unmoved(tree, tree') /\ tree'.known = tree.known
  BY <1>2, FlushedRooted, FlushFailsRooted DEF FlushTimer
<1> QED BY <1>1, <1>3, IdleDone

LEMMA LikeUnmoved ==
    ASSUME NEW tr, NEW new, Rooted(tr), Like(tr, new), new.unheard = tr.unheard
    PROVE  Rooted(new) /\ Unmoved(tr, new)
<1>1. new.kind = tr.kind /\ new.dirs = tr.dirs /\ new.obj = tr.obj /\ new.refused = tr.refused BY DEF Like
<1> QED BY <1>1, SameDirsRooted DEF Unmoved, FilesIn, Keys

LEMMA ReadersDone ==
    ASSUME DirInv, DoneInv, ~muddled, expand_folder \/ collect_folder_info
    PROVE  DoneInv' /\ \A u \in Tasks : ~Answers(u)
<1>1. e2ee' = e2ee /\ job' = job /\ call' = call BY DEF expand_folder, collect_folder_info, Walk
<1>2. Walked BY ReadersOK
<1>3. Rooted(tree') /\ Unmoved(tree, tree') BY <1>2, LikeUnmoved DEF Walked, DoneInv
<1> QED BY <1>1, <1>2, <1>3, IdleDone DEF Walked

\* What the last answer told becomes known, and what it took away does not stay known.
LEMMA NoteDone ==
    ASSUME DirInv, DoneInv, ~muddled, NEW t \in Tasks, Note(t)
    PROVE  DoneInv' /\ \A u \in Tasks : ~Answers(u)
<1> DEFINE known == (tree.known \ call[t].drop) \cup call[t].add
           c == [way |-> call[t].way, left |-> call[t].left, add |-> {}, drop |-> {}]
<1>1. /\ tree' = [tree EXCEPT !.known = known] /\ job' = job /\ e2ee' = e2ee
      /\ call' = [call EXCEPT ![t].add = {}, ![t].drop = {}] /\ Noting(t)
  BY DEF Note, DirInv, TreeOK, IsTree
<1>2. TreeOK(tree, contents) /\ CallsOK(call) /\ CallOK(call[t]) BY DEF DirInv, CallsOK
<1>3. call'[t] = c /\ \A u \in Tasks \ {t} : call'[u] = call[u]
  <2>1. call[t] = [way |-> call[t].way, left |-> call[t].left, add |-> call[t].add, drop |-> call[t].drop] BY <1>2 DEF CallOK, IsCall
  <2> QED BY <1>1, <1>2, <2>1 DEF CallsOK
<1>4. known \in SUBSET Dirs BY <1>2 DEF TreeOK, CallOK
<1>5. Like(tree, tree') /\ tree'.known = known /\ tree'.unheard = tree.unheard
  <2> HIDE DEF known
  <2> QED BY <1>1, <1>2, <1>4, TreeKnown
<1>6. Rooted(tree') /\ Unmoved(tree, tree') BY <1>5, LikeUnmoved DEF DoneInv
<1>7. Apart /\ KnownDirs(tree, call) /\ \A u \in Tasks : Holds(job[u], call[u], tree) BY DEF DoneInv
<1>8. job[t].pc # "idle" /\ CallDone(job[t], call[t], tree) BY <1>1, <1>7 DEF Holds, Noting, Stilled
<1>9. ASSUME NEW u \in Tasks PROVE Holds(job'[u], call'[u], tree')
  <2>1. Holds(job[u], call'[u], tree)
    <3>1. CASE u = t
      <4>1. CallDone(job[t], c, tree) BY <1>8 DEF CallDone
      <4> QED BY <1>3, <1>7, <1>8, <3>1, <4>1 DEF Holds
    <3>2. CASE u # t BY <1>3, <1>7, <3>2
    <3> QED BY <3>1, <3>2
  <2>2. Holds(job[u], call'[u], tree') BY <1>6, <2>1, HoldsOn
  <2> QED BY <1>1, <2>2
<1>10. KnownDirs(tree', call')
  <2> SUFFICES ASSUME tree.kind \in {"smb", "nfs"}, NEW d \in known
               PROVE  d \in tree.dirs \cup tree.unheard \/ \E u \in Tasks : d \in call'[u].drop
    BY <1>5, <1>6 DEF KnownDirs, Unmoved
  <2>1. CASE d \in call[t].add BY <1>8, <2>1 DEF CallDone
  <2>2. CASE d \in tree.known \ call[t].drop
    <3>1. d \in tree.dirs \cup tree.unheard \/ \E u \in Tasks : d \in call[u].drop BY <1>7, <2>2 DEF KnownDirs
    <3>2. ASSUME NEW u \in Tasks, d \in call[u].drop PROVE d \in call'[u].drop BY <1>3, <2>2, <3>2
    <3> QED BY <3>1, <3>2
  <2> QED BY <2>1, <2>2
<1>11. \A u \in Tasks : \A v \in Tasks \ {u} : job'[u].pc # "idle" /\ job'[v].pc # "idle" => ~Clash(job'[u], job'[v])
  BY <1>1, <1>7 DEF Apart, Active
<1>12. DoneInv' BY <1>1, <1>6, <1>9, <1>10, <1>11, EachDone
<1>13. \A u \in Tasks : ~Answers(u) BY <1>1 DEF Answers, Active
<1> QED BY <1>12, <1>13

\* A directory that another task is about to forget is not in the way of this one.
LEMMA ReadyFromDone ==
    ASSUME DirInv, DoneInv, ~muddled, NEW t \in Tasks, Active(t), ~Noting(t)
    PROVE  Ready(t)
<1>1. Apart /\ KnownDirs(tree, call) /\ \A u \in Tasks : Holds(job[u], call[u], tree) BY DEF DoneInv
<1>2. CallDone(job[t], call[t], tree) /\ Stilled(call[t]) BY <1>1 DEF Holds, Active, Noting, Stilled
<1>3. ASSUME tree.kind \in {"smb", "nfs"}, NEW x \in About(job[t]) \cap tree.known, x \notin tree.dirs \cup tree.unheard
      PROVE  FALSE
  <2>1. PICK u \in Tasks : x \in call[u].drop BY <1>1, <1>3 DEF KnownDirs
  <2>2. u # t BY <1>2, <2>1 DEF Stilled
  <2>3. Active(u) /\ CallDone(job[u], call[u], tree) BY <1>1, <2>1 DEF Holds, Active, Stilled
  <2>4. Restructures(job[u]) /\ \E y \in About(job[u]) : Beneath(y, x) BY <2>1, <2>3 DEF CallDone
  <2>5. Clash(job[u], job[t]) BY <1>3, <2>4 DEF Clash
  <2> QED BY <1>1, <2>2, <2>3, <2>5 DEF Apart
<1> QED BY <1>2, <1>3 DEF Ready

LEMMA CrashDone == ASSUME DirInv, DoneInv, ~muddled, Crash PROVE DoneInv' /\ \A u \in Tasks : ~Answers(u)
<1>1. /\ e2ee' = e2ee /\ job' = [t \in Tasks |-> Answered("none")] /\ tree' = [tree EXCEPT !.known = {}]
      /\ call' = [t \in Tasks |-> NoCall]
  BY Zenon DEF Crash
<1>2. TreeOK(tree, contents) /\ Rooted(tree) BY DEF DoneInv, DirInv
<1>3. Rooted(tree') BY <1>1, <1>2, UnknownRooted
<1>4. \A u \in Tasks : job'[u].pc = "idle" /\ job'[u].result = "none" /\ Stilled(call'[u]) BY <1>1 DEF Answered, Stilled, NoCall
<1>5. tree'.known = {} BY <1>1, <1>2 DEF TreeOK, IsTree
<1>6. KnownDirs(tree', call') BY <1>5 DEF KnownDirs
<1>7. \A u \in Tasks : Holds(job'[u], call'[u], tree') BY <1>4 DEF Holds
<1>8. DoneInv' BY <1>1, <1>3, <1>4, <1>6, <1>7, EachDone
<1>9. \A u \in Tasks : ~Answers(u) BY <1>4 DEF Answers
<1> QED BY <1>8, <1>9

\* A command begins with nothing done, and in nobody's way if the names are in order.
LEMMA DispatchDone ==
    ASSUME DirInv, DoneInv, ~muddled, NEW t \in Tasks, ~Active(t), NEW dir, NEW j, Dispatch(t, dir, j), IsJob(j),
           j.cmd \in {"delete", "move"} => j.items = j.all,
           j.cmd = "create" => j.dest \in Dirs /\ Append(j.dest, Seg(j.name)) \in Dirs,
           j.cmd = "move" => \A i, i2 \in j.all : parent_prefix(i.key) = parent_prefix(i2.key)
    PROVE  DoneInv' /\ \A u \in Tasks : ~Answers(u)
<1> DEFINE r == [j EXCEPT !.pc = "start"]
<1>1. /\ job' = [job EXCEPT ![t] = r] /\ tree' = resolve_dir(tree, {dir}) /\ e2ee' = e2ee
      /\ call' = [call EXCEPT ![t] = NoCall]
      /\ muddled' = (muddled \/ (e2ee /\ Nameless(j.dest)) \/ \E u \in Tasks \ {t} : Active(u) /\ Clash(j, job[u]))
  BY Zenon DEF Dispatch
<1>2. /\ r.pc = "start" /\ r.cmd = j.cmd /\ r.all = j.all /\ r.items = j.items /\ r.item = j.item
      /\ r.dest = j.dest /\ r.name = j.name /\ r.to = j.to
  BY JobPc
<1> HIDE DEF r
<1>3. job'[t] = r /\ \A u \in Tasks \ {t} : job'[u] = job[u] BY <1>1 DEF DirInv, IsFun
<1>4. Rooted(tree) /\ Apart /\ KnownDirs(tree, call) /\ \A u \in Tasks : Holds(job[u], call[u], tree) BY DEF DoneInv
<1>8. call'[t] = NoCall /\ \A u \in Tasks \ {t} : call'[u] = call[u] BY <1>1 DEF DirInv, CallsOK
<1>9. Rooted(tree') /\ Unmoved(tree, tree') /\ tree'.known \subseteq tree.known \cup tree.dirs
  <2>1. Like(tree, tree') /\ tree'.unheard = tree.unheard /\ tree'.known \subseteq tree.known \cup tree.dirs
    BY <1>1, ResolveOK DEF DirInv
  <2> QED BY <1>4, <2>1, LikeUnmoved
<1>10. KnownDirs(tree', call')
  <2>1. call[t].drop = {} BY <1>4 DEF Holds, Active, Stilled
  <2>2. \A u \in Tasks : call[u].drop \subseteq call'[u].drop BY <1>8, <2>1
  <2> QED BY <1>4, <1>9, <2>2, StillKnown
<1>5. ASSUME NEW u \in Tasks PROVE ~Answers(u)
  <2>1. CASE u = t BY <2>1 DEF Answers
  <2>2. CASE u # t BY <1>3, <2>2 DEF Answers, Active
  <2> QED BY <2>1, <2>2
<1>6. CASE muddled' BY <1>5, <1>6 DEF DoneInv
<1>7. CASE ~muddled'
  <2>1. ASSUME NEW u \in Tasks \ {t}, Active(u) PROVE ~Clash(j, job[u]) BY <1>1, <1>7, <2>1, Zenon
  <2>2. About(r) = About(j) BY <1>2, SameAbout
  <2>3. Progress(r, tree)
    <3>1. CreateDone(r, tree) BY <1>2 DEF CreateDone
    <3>2. j.cmd = "delete" => DeleteDone(r, tree) BY <1>2 DEF DeleteDone
    <3>3. j.cmd = "move" => MoveDone(r, tree) BY <1>2 DEF MoveDone, CopyDone, OnItem
    <3>4. RenameDone(r, tree) BY <1>2 DEF RenameDone, CopyDone
    <3> QED BY <1>2, <3>1, <3>2, <3>3, <3>4 DEF Progress
  <2>7. CallDone(r, NoCall, tree)
    <3>1. NoCall.way = 0 /\ NoCall.left = {} /\ NoCall.add = {} /\ NoCall.drop = {} BY DEF NoCall
    <3>2. ASSUME j.cmd = "create", NEW x \in About(r) PROVE ~(0 >= Len(x))
      <4>1. x = Append(j.dest, Seg(j.name)) BY <2>2, <3>2 DEF About
      <4>2. j.dest \in Path /\ x \in Path BY <3>2, <4>1, DirsClosed
      <4>3. x # <<>> BY <4>1, <4>2, AppendProperties DEF Path
      <4>4. Len(x) \in Nat /\ Len(x) # 0 BY <4>2, <4>3, LenProperties, EmptySeq DEF Path
      <4> QED BY <4>4
    <3> QED BY <1>2, <3>1, <3>2 DEF CallDone
  <2>4. ASSUME NEW u \in Tasks PROVE Holds(job'[u], call'[u], tree')
    <3>1. Holds(job'[u], call'[u], tree)
      <4>1. CASE u = t BY <1>2, <1>3, <1>8, <2>3, <2>7, <4>1 DEF Holds
      <4>2. CASE u # t BY <1>3, <1>4, <1>8, <4>2
      <4> QED BY <4>1, <4>2
    <3> QED BY <1>9, <3>1, HoldsOn
  <2>5. ASSUME NEW u \in Tasks, NEW v \in Tasks \ {u}, job'[u].pc # "idle", job'[v].pc # "idle"
        PROVE  ~Clash(job'[u], job'[v])
    <3>1. CASE u # t /\ v # t BY <1>3, <1>4, <2>5, <3>1 DEF Apart, Active
    <3>2. CASE u = t
      <4>1. ~Clash(j, job[v]) /\ job'[v] = job[v] BY <1>3, <2>1, <2>5, <3>2 DEF Active
      <4> QED BY <1>2, <1>3, <2>2, <3>2, <4>1, ClashOf
    <3>3. CASE v = t
      <4>1. ~Clash(j, job[u]) /\ job'[u] = job[u] BY <1>3, <2>1, <2>5, <3>3 DEF Active
      <4> QED BY <1>2, <1>3, <2>2, <3>3, <4>1, ClashOf
    <3> QED BY <3>1, <3>2, <3>3
  <2>6. DoneInv' BY <1>1, <1>9, <1>10, <2>4, <2>5, EachDone
  <2> QED BY <1>5, <2>6
<1> QED BY <1>6, <1>7

LEMMA CommandDone == ASSUME DirInv, DoneInv, ~muddled, NEW t \in Tasks, Command(t) PROVE DoneInv' /\ \A u \in Tasks : ~Answers(u)
<1>0. ~Active(t) BY DEF Command
<1>1. CASE Create(t)
  <2>1. PICK dir \in Shown, n \in FolderNames : /\ Append(dir, Seg(n)) \in Dirs
                                                  /\ Dispatch(t, dir, [NewJob("create") EXCEPT !.dest = dir, !.name = n])
    BY <1>1, Zenon DEF Create
  <2> DEFINE j == CreateJob(dir, n)
  <2>2. Dispatch(t, dir, j) BY <2>1 DEF CreateJob
  <2>3. IsJob(j) /\ j.cmd = "create" /\ j.dest = dir /\ j.name = n BY NewCreate
  <2> HIDE DEF j
  <2>4. dir \in Dirs BY ShownDirs DEF DirInv
  <2> QED BY <1>0, <2>1, <2>2, <2>3, <2>4, DispatchDone
<1>2. CASE Delete(t)
  <2>1. PICK dir \in Shown : \E s \in Picked(dir) : Dispatch(t, dir, [NewJob("delete") EXCEPT !.all = s, !.items = s])
    BY <1>2, Zenon DEF Delete
  <2>2. PICK s \in Picked(dir) : Dispatch(t, dir, [NewJob("delete") EXCEPT !.all = s, !.items = s]) BY <2>1, Zenon
  <2> DEFINE j == DeleteJob(s)
  <2>3. Dispatch(t, dir, j) BY <2>2 DEF DeleteJob
  <2>4. IsJob(j) /\ j.cmd = "delete" /\ j.items = j.all BY NewDelete
  <2> HIDE DEF j
  <2> QED BY <1>0, <2>3, <2>4, DispatchDone
<1>3. CASE Move(t)
  <2>1. PICK dir \in Shown, dest \in Shown : \E s \in Picked(dir) :
           Dispatch(t, dir, [NewJob("move") EXCEPT !.all = s, !.items = s, !.dest = dest])
    BY <1>3, Zenon DEF Move
  <2>2. PICK s \in Picked(dir) : Dispatch(t, dir, [NewJob("move") EXCEPT !.all = s, !.items = s, !.dest = dest])
    BY <2>1, Zenon
  <2> DEFINE j == MoveJob(s, dest)
  <2>3. Dispatch(t, dir, j) BY <2>2 DEF MoveJob
  <2>4. IsJob(j) /\ j.cmd = "move" /\ j.items = j.all /\ j.all = s BY NewMove
  <2> HIDE DEF j
  <2>5. \A i \in s : i \in Entries(dir) BY DEF Picked
  <2>6. \A i \in s : parent_prefix(i.key) = dir BY <2>5, EntryOf
  <2> QED BY <1>0, <2>3, <2>4, <2>6, DispatchDone
<1>4. CASE Rename(t)
  <2>1. PICK dir \in Shown : \E i \in Entries(dir), n \in FolderNames \cup FileNames :
           Dispatch(t, dir, [NewJob("rename") EXCEPT !.item = i, !.name = n, !.to = Append(dir, on_disk_segment(i.encrypted, n))])
    BY <1>4, Zenon DEF Rename
  <2>2. PICK i \in Entries(dir), n \in FolderNames \cup FileNames :
           Dispatch(t, dir, [NewJob("rename") EXCEPT !.item = i, !.name = n, !.to = Append(dir, on_disk_segment(i.encrypted, n))])
    BY <2>1, Zenon
  <2> DEFINE to == Append(dir, on_disk_segment(i.encrypted, n))
             j == RenameJob(i, n, to)
  <2>3. Dispatch(t, dir, j) BY <2>2 DEF RenameJob
  <2>4. IsJob(j) /\ j.cmd = "rename" BY NewRename
  <2> HIDE DEF j
  <2> QED BY <1>0, <2>3, <2>4, DispatchDone
<1>5. CASE CalculateSize(t)
  <2>1. PICK dir \in Shown : \E i \in Entries(dir) : Dispatch(t, dir, [NewJob("size") EXCEPT !.item = i])
    BY <1>5 DEF CalculateSize
  <2>2. PICK i \in Entries(dir) : Dispatch(t, dir, [NewJob("size") EXCEPT !.item = i]) BY <2>1
  <2> DEFINE j == SizeJob(i)
  <2>3. Dispatch(t, dir, j) BY <2>2 DEF SizeJob
  <2>4. IsJob(j) /\ j.cmd = "size" BY NewSize
  <2> HIDE DEF j
  <2> QED BY <1>0, <2>3, <2>4, DispatchDone
<1>6. CASE Upload(t)
  <2>1. PICK dir \in Shown, rel \in Rels :
           Dispatch(t, dir, [NewJob("upload") EXCEPT !.dest = dir, !.rel = rel, !.content = contents + 1,
                                                     !.to = dir \o on_disk_path(e2ee, rel)])
    BY <1>6, Zenon DEF Upload
  <2> DEFINE to == dir \o on_disk_path(e2ee, rel)
             c == contents + 1
             j == UploadJob(dir, rel, c, to)
  <2>2. Dispatch(t, dir, j) BY <2>1 DEF UploadJob
  <2>3. IsJob(j) /\ j.cmd = "upload" BY NewUpload
  <2> HIDE DEF j
  <2> QED BY <1>0, <2>2, <2>3, DispatchDone
<1> QED BY <1>1, <1>2, <1>3, <1>4, <1>5, <1>6 DEF Command

-----------------------------------------------------------------------------

LEMMA DoneInit == Init => DoneInv
<1> SUFFICES ASSUME Init PROVE DoneInv OBVIOUS
<1>1. PICK kind \in Kinds, enc \in Modes, d \in OldFolder, f \in FileNames :
         LET dir == on_disk_path(enc, <<d>>)
             manifests == With(With(<<>>, manifest_object_key(<<>>), upsert_folder(Default, d)),
                               manifest_object_key(dir), upsert_file(Default, f, 1))
         IN /\ e2ee = enc
            /\ tree = [kind |-> kind, dirs |-> {<<>>, dir}, known |-> {}, refused |-> {}, unheard |-> {},
                       obj |-> With(IF enc THEN manifests ELSE <<>>, Append(dir, on_disk_segment(enc, f)), 1)]
            /\ job = [t \in Tasks |-> Answered("none")] /\ call = [t \in Tasks |-> NoCall]
  BY Zenon DEF Init
<1> DEFINE dir == on_disk_path(e2ee, <<d>>)
           key == Append(dir, Seg(f))
           manifests == With(With(<<>>, manifest_object_key(<<>>), upsert_folder(Default, d)),
                             manifest_object_key(dir), upsert_file(Default, f, 1))
           obj == With(IF e2ee THEN manifests ELSE <<>>, key, 1)
<1>2. /\ tree = [kind |-> kind, dirs |-> {<<>>, dir}, known |-> {}, refused |-> {}, unheard |-> {}, obj |-> obj]
      /\ job = [t \in Tasks |-> Answered("none")] /\ call = [t \in Tasks |-> NoCall]
  BY <1>1 DEF Seg
<1>3. dir \in Dirs /\ <<>> \in Dirs BY RootIsDir, DirOpsAssumption DEF DirOpsAssumption, Dirs
<1>4. Len(dir) = 1 BY DEF on_disk_path
<1> HIDE DEF dir
<1>5. Chain(<<>>) = {} /\ Chain(dir) \subseteq {dir}
  <2>1. dir \in Path BY <1>3, DirsClosed
  <2>2. \A n \in 1 .. 1 : n = 1 OBVIOUS
  <2>3. Len(<<>>) = 0 /\ 1 .. 0 = {} OBVIOUS
  <2>4. SubSeq(dir, 1, 1) = dir
    <3>1. dir \in Seq(Segs) BY <2>1 DEF Path
    <3> QED BY <1>4, <3>1
  <2> QED BY <1>4, <2>2, <2>3, <2>4 DEF Chain
<1>6. ASSUME NEW k \in DOMAIN obj PROVE parent_prefix(k) \in {<<>>, dir}
  <2>1. dir \in Path /\ <<>> \in Path /\ Seg(f) \in Segs /\ MANIFEST_KEY \in Segs BY <1>3, DirsClosed, SegTypes DEF Seg
  <2>2. parent_prefix(key) = dir BY <2>1, AppendParent DEF Path
  <2>3. parent_prefix(manifest_object_key(<<>>)) = <<>> /\ parent_prefix(manifest_object_key(dir)) = dir
    BY <2>1, AppendParent DEF Path, manifest_object_key
  <2> HIDE DEF key
  <2>4. k = key \/ (e2ee /\ k \in DOMAIN manifests) BY DEF With
  <2>5. DOMAIN manifests = {manifest_object_key(<<>>), manifest_object_key(dir)} BY DEF With
  <2> QED BY <2>2, <2>3, <2>4, <2>5
<1> HIDE DEF obj
<1>7. tree.dirs = {<<>>, dir} /\ tree.obj = obj /\ tree.known = {} BY <1>2
<1>8. Rooted(tree) BY <1>5, <1>6, <1>7 DEF Rooted, Keys
<1>9. \A t \in Tasks : job[t].pc = "idle" /\ Stilled(call[t]) BY <1>2 DEF Answered, Stilled, NoCall
<1>10. KnownDirs(tree, call) BY <1>7 DEF KnownDirs
<1> QED BY <1>8, <1>9, <1>10 DEF DoneInv, Apart, Active, Holds


\* The task of a step is at work.
LEMMA StepActive == ASSUME NEW t \in Tasks, Step(t), ~Noting(t) PROVE Active(t)
<1>1. CASE CreateMake(t) \/ DeleteList(t) \/ DeleteRemove(t) \/ DeleteRmdir(t) \/ MoveNext(t) \/ RenameCheck(t)
  BY <1>1, Zenon DEF CreateMake, DeleteList, DeleteRemove, DeleteRmdir, MoveNext, RenameCheck, Active
<1>2. CASE RenameList(t) \/ RenameCopy(t) \/ RenameRemove(t) \/ RenameRmdir(t) \/ MoveTake(t) \/ MoveInsert(t)
  BY <1>2, Zenon DEF RenameList, RenameCopy, RenameRemove, RenameRmdir, MoveTake, MoveInsert, Active
<1>3. CASE SizeList(t) \/ UploadPrepare(t) \/ UploadPut(t) \/ EditStep(t) \/ FlushStep(t) \/ Retry(t) \/ GiveUp(t)
  BY <1>3, Zenon DEF SizeList, UploadPrepare, UploadPut, EditStep, FlushStep, Retry, GiveUp, Active
<1> QED BY <1>1, <1>2, <1>3, Zenon DEF Step

LEMMA DoneStep ==
    ASSUME NoneNested, DirInv, DoneInv, ~muddled, [Next]_vars
    PROVE  DoneInv' /\ \A u \in Tasks : Answers(u) => Effect(job[u], tree')
<1>0. DirInv' BY DirStep
<1>1. Rooted(tree) BY DEF DoneInv
<1>2. CASE UNCHANGED vars
  <2>1. e2ee' = e2ee /\ job' = job /\ call' = call /\ tree' = tree BY <1>2 DEF vars, tasks
  <2>2. Unmoved(tree, tree') BY <2>1 DEF Unmoved
  <2> QED BY <1>1, <2>1, <2>2, IdleDone
<1>3. ASSUME NEW t \in Tasks, Command(t) PROVE DoneInv' /\ \A u \in Tasks : ~Answers(u) BY <1>3, CommandDone
<1>4. ASSUME NEW t \in Tasks, Step(t) PROVE DoneInv' /\ \A u \in Tasks : Answers(u) => Effect(job[u], tree')
  <2>1. CASE Noting(t)
    <3>1. Note(t) BY <1>4, <2>1, Zenon DEF Step
    <3> QED BY <3>1, NoteDone
  <2>2. CASE ~Noting(t)
    <3>1. Active(t) BY <1>4, <2>2, StepActive
    <3>2. Ready(t) BY <2>2, <3>1, ReadyFromDone
    <3>3. Progress(job[t], tree) /\ Stilled(call[t]) BY <2>2, <3>1 DEF DoneInv, Holds, Active, Noting, Stilled
    <3>4. StepDone(t)
      BY <1>1, <1>4, <2>2, <3>2, <3>3, CreateMakeDone, DeleteListDone, DeleteRemoveDone, DeleteRmdirDone, MoveNextDone,
         RenameCheckDone, RenameListDone, RenameCopyDone, RenameRemoveDone, RenameRmdirDone, MoveTakeDone, MoveInsertDone,
         SizeListDone, UploadPrepareDone, UploadPutDone, EditStepDone, FlushStepDone, RetryDone, GiveUpDone, Zenon
         DEF Step
    <3> QED BY <1>0, <3>1, <3>3, <3>4, TaskDone
  <2> QED BY <2>1, <2>2
<1>5. CASE FlushTimer BY <1>5, FlushTimerDone
<1>6. CASE expand_folder \/ collect_folder_info BY <1>6, ReadersDone
<1>7. CASE Crash BY <1>7, CrashDone
<1> QED BY <1>2, <1>3, <1>4, <1>5, <1>6, <1>7 DEF Next

\* Once names may be missing nothing is claimed any more.
LEMMA MuddledStays == ASSUME [Next]_vars, muddled PROVE muddled'
<1>1. CASE UNCHANGED vars BY <1>1 DEF vars, history
<1>2. ASSUME NEW t \in Tasks, Command(t) PROVE muddled'
  BY <1>2, Zenon DEF Command, Create, Delete, Move, Rename, CalculateSize, Upload, Dispatch
<1>3. ASSUME NEW t \in Tasks, Step(t) PROVE muddled'
  <2>1. CASE CreateMake(t) \/ DeleteList(t) \/ DeleteRemove(t) \/ DeleteRmdir(t) \/ MoveNext(t) \/ RenameCheck(t)
    BY <2>1, Zenon DEF CreateMake, DeleteList, DeleteRemove, DeleteRmdir, MoveNext, RenameCheck, history
  <2>2. CASE RenameList(t) \/ RenameCopy(t) \/ RenameRemove(t) \/ RenameRmdir(t) \/ MoveTake(t) \/ MoveInsert(t)
    BY <2>2, Zenon DEF RenameList, RenameCopy, RenameRemove, RenameRmdir, MoveTake, MoveInsert, history
  <2>3. CASE SizeList(t) \/ UploadPrepare(t) \/ UploadPut(t) \/ EditStep(t) \/ FlushStep(t) \/ Retry(t) \/ GiveUp(t)
    BY <2>3, Zenon DEF SizeList, UploadPrepare, UploadPut, EditStep, FlushStep, Retry, GiveUp, history
  <2>4. CASE Note(t) BY <2>4 DEF Note, history
  <2> QED BY <1>3, <2>1, <2>2, <2>3, <2>4, Zenon DEF Step
<1>4. CASE FlushTimer BY <1>4 DEF FlushTimer, history
<1>5. CASE expand_folder \/ collect_folder_info BY <1>5 DEF expand_folder, collect_folder_info, Walk, history
<1>6. CASE Crash BY <1>6, Zenon DEF Crash
<1> QED BY <1>1, <1>2, <1>3, <1>4, <1>5, <1>6 DEF Next

LEMMA DoneInvariant == NoneNested => (Spec => []DoneInv)
<1> SUFFICES ASSUME NoneNested PROVE Spec => []DoneInv OBVIOUS
<1>1. Init => DoneInv BY DoneInit
<1>2. DirInv /\ DoneInv /\ [Next]_vars => DoneInv'
  <2> SUFFICES ASSUME DirInv, DoneInv, [Next]_vars PROVE DoneInv' OBVIOUS
  <2>1. CASE muddled BY <2>1, MuddledStays DEF DoneInv
  <2>2. CASE ~muddled BY <2>2, DoneStep
  <2> QED BY <2>1, <2>2
<1> QED BY <1>1, <1>2, DirInvariant, PTL DEF Spec

\* A directory that SMB or NFS holds for existing (known_dirs, dir_cache) exists, or the task
\* that has removed it is about to forget it, or the answer to its removal was an error:
\* prepare_parents and rmdir ask the server first and change the cache afterwards, under a
\* lock of its own, and any other task may be between the two.  That is so for any number of
\* tasks, as long as no two of them are in each other's way, and where no folder is in one of
\* its own name.
THEOREM KnownDirsAlwaysExist == NoneNested => (Spec => []KnownDirsExist)
<1> SUFFICES ASSUME NoneNested PROVE Spec => []KnownDirsExist OBVIOUS
<1>1. DoneInv => KnownDirsExist BY DEF DoneInv, KnownDirs, KnownDirsExist
<1> QED BY <1>1, DoneInvariant, PTL

\* A command that answers Ok has done what it was asked for (run_delete, run_move and
\* run_rename leave no file where they took it from, create_folder has the folder), however
\* many commands run, whatever fails on the way, is tried again or is half done when it is
\* tried again.  That is so as long as no two of them are in each other's way and names are
\* known, and where no folder is in one of its own name.
THEOREM SuccessIsDone == NoneNested => (Spec => SuccessMeansDone)
<1> SUFFICES ASSUME NoneNested PROVE Spec => SuccessMeansDone OBVIOUS
<1>1. DirInv /\ DoneInv /\ [Next]_vars => [\A t \in Tasks : Answers(t) /\ ~muddled => Effect(job[t], tree')]_vars
  BY DoneStep
<1> QED BY <1>1, DoneInvariant, DirInvariant, PTL DEF Spec, SuccessMeansDone

=============================================================================
