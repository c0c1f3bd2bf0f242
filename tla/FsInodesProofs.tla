---------------------------- MODULE FsInodesProofs --------------------------
(***************************************************************************)
(* FsInodes for any directories, guests and page sizes: the table stays a  *)
(* bijection, its numbers keep their meaning, and a directory that is read *)
(* in pages is listed in full.                                             *)
(***************************************************************************)
EXTENDS FsInodes, SequenceTheorems, WellFoundedInduction, TLAPS

-----------------------------------------------------------------------------
(* Front and Only, by induction over the entries.                         *)

\* A number is below another as pairs of the well-founded relation.
LEMMA LessPair == \A x, y \in Nat : x < y => <<x, y>> \in OpToRel(<, Nat)
BY DEF OpToRel

\* A set of numbers that is not empty has a least one.
LEMMA Least == ASSUME NEW T \in SUBSET Nat, T # {} PROVE \E x \in T : \A y \in T : x <= y
<1>1. PICK x \in T : \A y \in T : ~(<<y, x>> \in OpToRel(<, Nat))
  BY Zenon, NatLessThanWellFounded, WFMin
<1>2. ASSUME NEW y \in T PROVE ~(y < x)
  <2>1. ~(<<y, x>> \in OpToRel(<, Nat)) /\ x \in Nat /\ y \in Nat
    BY Zenon, <1>1
  <2> QED
    BY Zenon, <2>1, LessPair
<1>3. ASSUME NEW y \in T PROVE x <= y
  BY <1>2
<1> QED
  BY <1>3

\* Induction up to N.
LEMMA Induction ==
  ASSUME NEW N \in Nat, NEW Good, 0 \in Good,
         \A n \in 1..N : n - 1 \in Good => n \in Good
  PROVE  \A n \in 0..N : n \in Good
<1> SUFFICES ASSUME NEW m \in 0..N, m \notin Good PROVE FALSE
  OBVIOUS
<1> DEFINE Bad == {n \in 0..N : n \notin Good}
<1>1. PICK x \in Bad : \A y \in Bad : x <= y
  <2>1. Bad \in SUBSET Nat /\ Bad # {}
    OBVIOUS
  <2> HIDE DEF Bad
  <2> QED
    BY Zenon, <2>1, Least
<1>2. x # 0 /\ x \in 0..N /\ x \notin Good
  OBVIOUS
<1>3. x - 1 \in 0..N /\ x - 1 \notin Good
  BY <1>2
<1>4. x - 1 \in Bad
  BY <1>3
<1> QED
  BY <1>1, <1>2, <1>4

\* The recursive definition of Front has a solution, by induction on the length.
LEMMA FrontDef ==
  ASSUME NEW list, Len(list) \in Nat, NEW S
  PROVE  /\ Front(list, S)[0] = <<>>
         /\ \A n \in 1..Len(list) :
              Front(list, S)[n] = Extend(Front(list, S)[n - 1], list[n], S)
<1> DEFINE F(f, n) == IF n = 0 THEN <<>> ELSE Extend(f[n - 1], list[n], S)
           Is(f, N) == f = [n \in 0..N |-> F(f, n)]
           Good == {N \in Nat : \E f : Is(f, N)}
<1>1. 0 \in Good
  <2>1. Is([n \in 0..0 |-> <<>>], 0)
    OBVIOUS
  <2> QED
    BY Zenon, <2>1
<1>2. ASSUME NEW N \in 1..Len(list), N - 1 \in Good PROVE N \in Good
  <2>1. PICK f : Is(f, N - 1)
    BY <1>2
  <2>2. PICK x : x = Extend(f[N - 1], list[N], S)
    OBVIOUS
  <2>3. PICK h : h = [n \in 0..N |-> IF n = N THEN x ELSE f[n]]
    BY Zenon
  <2>4. ASSUME NEW n \in 0..N PROVE h[n] = F(h, n)
    <3>1. CASE n = N
      BY <2>2, <2>3, <3>1
    <3>2. CASE n # N
      <4>1. f[n] = F(f, n)
        BY <2>1, <3>2
      <4>2. F(f, n) = F(h, n)
        BY <2>3, <3>2
      <4> QED
        BY <2>3, <3>2, <4>1, <4>2
    <3> QED
      BY <3>1, <3>2
  <2>5. Is(h, N)
    <3> HIDE DEF F
    <3> QED
      BY <2>3, <2>4
  <2>6. N \in Nat
    OBVIOUS
  <2> HIDE DEF Is
  <2> QED
    BY Zenon, <2>5, <2>6
<1>3. Len(list) \in Good
  <2> HIDE DEF Good
  <2>1. \A N \in 0..Len(list) : N \in Good
    BY Zenon, <1>1, <1>2, Induction
  <2> QED
    BY <2>1
<1>4. Front(list, S) = CHOOSE f : Is(f, Len(list))
  BY DEF Front
<1>5. Is(Front(list, S), Len(list))
  BY Zenon, <1>3, <1>4
<1> QED
  BY <1>5

\* What is kept of a list is a list of the same things.
LEMMA FrontType ==
  ASSUME NEW X, NEW list \in Seq(X), NEW S
  PROVE  \A n \in 0..Len(list) : Front(list, S)[n] \in Seq(X)
<1> DEFINE Good == {n \in Nat : Front(list, S)[n] \in Seq(X)}
<1>0. Len(list) \in Nat
  OBVIOUS
<1>1. 0 \in Good
  <2>1. Front(list, S)[0] = <<>> /\ <<>> \in Seq(X)
    BY <1>0, FrontDef
  <2> QED
    BY Zenon, <2>1
<1>2. ASSUME NEW n \in 1..Len(list), n - 1 \in Good PROVE n \in Good
  <2>1. PICK kept \in Seq(X) : kept = Front(list, S)[n - 1]
    BY Zenon, <1>2
  <2>2. Extend(kept, list[n], S) \in Seq(X)
    BY DEF Extend
  <2>3. Front(list, S)[n] = Extend(kept, list[n], S)
    BY <1>0, <2>1, FrontDef
  <2>4. n \in Nat
    OBVIOUS
  <2> QED
    BY Zenon, <2>2, <2>3, <2>4
<1> HIDE DEF Good
<1>3. \A n \in 0..Len(list) : n \in Good
  BY Zenon, <1>0, <1>1, <1>2, Induction
<1> QED
  BY <1>3 DEF Good

\* Two lists with the same first m entries.
SameUpTo(a, b, m) ==
  /\ Len(a) \in Nat /\ Len(b) \in Nat /\ m \in Nat
  /\ m <= Len(a) /\ m <= Len(b)
  /\ \A n \in 1..m : a[n] = b[n]

\* Two lists of which the same is kept as long as only m entries are looked at.
KeptUpTo(a, b, S, m) == \A n \in 0..m : Front(a, S)[n] = Front(b, S)[n]

\* What is kept of the first entries does not depend on the others.
LEMMA FrontSame ==
  ASSUME NEW a, NEW b, NEW S, NEW m, SameUpTo(a, b, m)
  PROVE  KeptUpTo(a, b, S, m)
<1>0. /\ Len(a) \in Nat /\ Len(b) \in Nat /\ m \in Nat
      /\ m <= Len(a) /\ m <= Len(b)
      /\ \A n \in 1..m : a[n] = b[n]
  BY Zenon DEF SameUpTo
<1> DEFINE Good == {n \in Nat : Front(a, S)[n] = Front(b, S)[n]}
<1>1. 0 \in Good
  BY <1>0, FrontDef
<1>2. ASSUME NEW n \in 1..m, n - 1 \in Good PROVE n \in Good
  <2>1. /\ Front(a, S)[n] = Extend(Front(a, S)[n - 1], a[n], S)
        /\ Front(b, S)[n] = Extend(Front(b, S)[n - 1], b[n], S)
    BY <1>0, FrontDef
  <2> QED
    BY <1>0, <1>2, <2>1
<1> HIDE DEF Good
<1>3. \A n \in 0..m : n \in Good
  BY Zenon, <1>0, <1>1, <1>2, Induction
<1> QED
  BY <1>3 DEF Good, KeptUpTo

\* One more entry at the end of a list.
LEMMA OnlyExtend ==
  ASSUME NEW X, NEW list \in Seq(X), NEW p \in X, NEW E, NEW S
  PROVE  Only(Extend(list, p, E), S) =
           IF p \in E THEN Extend(Only(list, S), p, S) ELSE Only(list, S)
<1>1. CASE p \notin E
  BY <1>1 DEF Extend
<1>2. CASE p \in E
  <2>1. PICK longer : longer = Append(list, p)
    BY Zenon
  <2>2. /\ Len(list) \in Nat /\ Len(longer) = Len(list) + 1 /\ longer[Len(list) + 1] = p
        /\ \A n \in 1..Len(list) : longer[n] = list[n]
    BY <2>1
  <2>3. /\ Len(longer) \in Nat /\ Len(list) <= Len(longer) /\ Len(list) <= Len(list)
        /\ Len(list) + 1 \in 1..Len(longer) /\ (Len(list) + 1) - 1 = Len(list)
        /\ \A n \in 0..Len(list) : Front(longer, S)[n] = Front(list, S)[n]
        /\ Len(list) \in 0..Len(list)
    <3>1. /\ Len(longer) \in Nat /\ Len(list) <= Len(longer) /\ Len(list) <= Len(list)
          /\ Len(list) + 1 \in 1..Len(longer) /\ (Len(list) + 1) - 1 = Len(list)
          /\ Len(list) \in 0..Len(list)
      BY <2>2
    <3>2. SameUpTo(longer, list, Len(list))
      BY Zenon, <2>2, <3>1 DEF SameUpTo
    <3>3. \A n \in 0..Len(list) : Front(longer, S)[n] = Front(list, S)[n]
      <4>1. KeptUpTo(longer, list, S, Len(list))
        BY Zenon, <3>2, FrontSame
      <4> QED
        BY Zenon, <4>1 DEF KeptUpTo
    <3> QED
      BY Zenon, <3>1, <3>3
  <2>4. Front(longer, S)[Len(list) + 1] = Extend(Front(list, S)[Len(list)], p, S)
    <3>1. Front(longer, S)[Len(list) + 1] =
            Extend(Front(longer, S)[(Len(list) + 1) - 1], longer[Len(list) + 1], S)
      BY Zenon, <2>3, FrontDef
    <3> QED
      BY Zenon, <2>2, <2>3, <3>1
  <2>5. Extend(list, p, E) = longer
    BY <1>2, <2>1 DEF Extend
  <2> QED
    BY Zenon, <1>2, <2>2, <2>4, <2>5 DEF Only
<1> QED
  BY <1>1, <1>2

\* Keeping twice keeps what is in both sets.
LEMMA OnlyTwice ==
  ASSUME NEW X, NEW list \in Seq(X), NEW E, NEW S
  PROVE  Only(Only(list, E), S) = Only(list, E \cap S)
<1> DEFINE Good == {n \in Nat : Only(Front(list, E)[n], S) = Front(list, E \cap S)[n]}
<1>0. Len(list) \in Nat
  OBVIOUS
<1>1. 0 \in Good
  <2>1. Front(list, E)[0] = <<>> /\ Front(list, E \cap S)[0] = <<>>
    BY <1>0, FrontDef
  <2>2. Len(<<>>) = 0
    OBVIOUS
  <2>3. Front(<<>>, S)[0] = <<>>
    BY <2>2, FrontDef
  <2> QED
    BY <2>1, <2>2, <2>3 DEF Only
<1>2. ASSUME NEW n \in 1..Len(list), n - 1 \in Good PROVE n \in Good
  <2>1. PICK kept : kept = Front(list, E)[n - 1]
    OBVIOUS
  <2>2. kept \in Seq(X) /\ list[n] \in X
    BY <2>1, FrontType
  <2>3. Only(kept, S) = Front(list, E \cap S)[n - 1]
    BY <1>2, <2>1
  <2>4. /\ Front(list, E)[n] = Extend(kept, list[n], E)
        /\ Front(list, E \cap S)[n] = Extend(Only(kept, S), list[n], E \cap S)
    BY <1>0, <2>1, <2>3, FrontDef
  <2>5. Only(Extend(kept, list[n], E), S) =
          IF list[n] \in E THEN Extend(Only(kept, S), list[n], S) ELSE Only(kept, S)
    BY <2>2, OnlyExtend
  <2>6. Only(Front(list, E)[n], S) = Front(list, E \cap S)[n]
    BY <2>4, <2>5 DEF Extend
  <2> QED
    BY <2>6
<1> HIDE DEF Good
<1>3. \A n \in 0..Len(list) : n \in Good
  BY Zenon, <1>0, <1>1, <1>2, Induction
<1>4. Len(list) \in Good
  BY <1>0, <1>3
<1> QED
  BY <1>4 DEF Good, Only

-----------------------------------------------------------------------------
(* The table.                                                              *)

\* The numbers given out are those below next, and the root's is one of them.
TableInv ==
  /\ TypeOK
  /\ OneNumberPerPath
  /\ next > FUSE_ROOT_ID
  /\ exists \subseteq Paths

\* The table keeps what it has.
Grows == \A i \in DOMAIN by_id : i \in DOMAIN by_id' /\ by_id'[i] = by_id[i]

\* A number that means path now.
Means(i, path) == i \in DOMAIN by_id /\ by_id[i] = path

\* id_for_path gives a path its number and forgets nothing.
LEMMA TableStep ==
  ASSUME TableInv, UNCHANGED exists, NEW p \in Paths, ~Overflows(p), IdForPath(p)
  PROVE  TableInv' /\ Grows /\ \E n \in Nat : n = IdOf(p) /\ Means(n, p)'
<1> USE DEF TableInv, TypeOK, OneNumberPerPath, Grows, Means, FUSE_ROOT_ID
<1>1. CASE p \in DOMAIN by_path
  <2>1. by_path[p] \in Nat /\ IdOf(p) = by_path[p]
    BY <1>1 DEF IdOf
  <2> QED
    BY <1>1, <2>1 DEF IdForPath, inodes
<1>2. CASE p \notin DOMAIN by_path
  <2>1. next \notin DOMAIN by_id /\ next < Top
    BY <1>2, FsAssumption DEF Overflows
  <2>2. /\ next' = next + 1
        /\ DOMAIN by_id' = DOMAIN by_id \cup {next}
        /\ \A i \in DOMAIN by_id' : by_id'[i] = IF i = next THEN p ELSE by_id[i]
        /\ DOMAIN by_path' = DOMAIN by_path \cup {p}
        /\ \A x \in DOMAIN by_path' : by_path'[x] = IF x = p THEN next ELSE by_path[x]
    BY <1>2 DEF IdForPath, With
  <2>3. next' <= Top
    BY <2>1, <2>2, FsAssumption
  <2>5. TypeOK' /\ (next > FUSE_ROOT_ID)'
    BY <2>1, <2>2, <2>3
  <2>6. OneNumberPerPath'
    BY <1>2, <2>1, <2>2
  <2>7. Grows
    BY <2>1, <2>2
  <2>8. \E n \in Nat : n = IdOf(p) /\ Means(n, p)'
    BY <1>2, <2>2 DEF IdOf
  <2> QED
    BY <2>5, <2>6, <2>7, <2>8
<1> QED
  BY <1>1, <1>2

\* A step that leaves the table alone.
LEMMA TableSame ==
  ASSUME TableInv, UNCHANGED inodes, exists' \subseteq Paths
  PROVE  TableInv' /\ Grows
BY DEF TableInv, TypeOK, OneNumberPerPath, Grows, inodes

-----------------------------------------------------------------------------
(* The requests in progress.                                               *)

Dirents == [node_id : Nat, offset : Nat, path : Paths]

\* What a worker carries from one lock of the table to the next: the path that
\* a READ has taken, and the records that a READDIR has written.
GoodPage(page) == \A k \in 1..Len(page) : Means(page[k].node_id, page[k].path)

GoodReaddir(j) ==
  /\ j.pc = "page"
  /\ {"pc", "todo", "size", "index", "page"} \subseteq DOMAIN j
  /\ j.index \in Nat
  /\ j.page \in Seq(Dirents)
  /\ GoodPage(j.page)

GoodJob(j) ==
  \/ j = Idle
  \/ j.pc = "read" /\ Means(j.node_id, j.path)
  \/ GoodReaddir(j)

ToldInv == \A i \in DOMAIN told : Means(i, told[i])

MeaningInv ==
  /\ TableInv
  /\ ToldInv
  /\ job = [g \in Guests |-> job[g]]
  /\ \A g \in Guests : GoodJob(job[g])

\* What was meant is meant still.
LEMMA MeansStill ==
  ASSUME Grows
  PROVE  /\ \A i, path : Means(i, path) => Means(i, path)'
         /\ \A j : GoodJob(j) => GoodJob(j)'
<1>1. ASSUME NEW i, NEW path, Means(i, path) PROVE Means(i, path)'
  BY <1>1 DEF Grows, Means
<1>2. ASSUME NEW j, GoodJob(j) PROVE GoodJob(j)'
  BY <1>1, <1>2 DEF GoodJob, GoodReaddir, GoodPage
<1> QED
  BY <1>1, <1>2

\* Where one guest's request moves on, the others need only the table.
LEMMA OneJob ==
  ASSUME MeaningInv, TableInv', Grows, NEW g \in Guests, NEW j,
         job' = [job EXCEPT ![g] = j], GoodJob(j)',
         ToldInv'
  PROVE  MeaningInv'
<1>1. job' = [h \in Guests |-> IF h = g THEN j ELSE job[h]]
  BY DEF MeaningInv
<1>2. job' = [h \in Guests |-> job'[h]]
  BY Zenon, <1>1
<1>3. ASSUME NEW h \in Guests PROVE GoodJob(job[h])'
  BY <1>1, MeansStill DEF MeaningInv
<1> QED
  BY <1>2, <1>3 DEF MeaningInv

\* What the guest was told stays true while the table only grows.
LEMMA SameTold ==
  ASSUME MeaningInv, Grows, UNCHANGED told
  PROVE  ToldInv'
BY MeansStill DEF MeaningInv, ToldInv

\* The new table has the root, and no request is in progress.
LEMMA MeaningInit == Init => MeaningInv
<1> SUFFICES ASSUME Init PROVE MeaningInv
  OBVIOUS
<1>1. TableInv
  BY FsAssumption DEF Init, TableInv, TypeOK, OneNumberPerPath, FUSE_ROOT_ID
<1> QED
  BY <1>1 DEF Init, MeaningInv, ToldInv, Means, GoodJob

\* A page being written, as a worker's state.
LEMMA Page ==
  ASSUME MeaningInv, NEW g \in Guests, job[g].pc = "page"
  PROVE  GoodReaddir(job[g])
BY DEF MeaningInv, GoodJob, Idle

\* lookup_reply gives the guest the number it has just entered.
LEMMA LookupInv == ASSUME MeaningInv, NEW g \in Guests, Lookup(g) PROVE MeaningInv'
<1>0. PICK d \in Dirs : \E p \in Range(Entries[d]) :
        ~Overflows(p) /\ IdForPath(p) /\ told' = With(told, IdOf(p), p)
  BY DEF Lookup
<1>1. PICK p \in Range(Entries[d]) :
        ~Overflows(p) /\ IdForPath(p) /\ told' = With(told, IdOf(p), p)
  BY <1>0
<1>2. p \in Paths
  BY <1>1, FsAssumption DEF Range
<1>3. TableInv' /\ Grows /\ \E n \in Nat : n = IdOf(p) /\ Means(n, p)'
  BY <1>1, <1>2, TableStep DEF Lookup, MeaningInv
<1>4. ToldInv'
  BY <1>1, <1>3, MeansStill DEF With, MeaningInv, ToldInv
<1> QED
  BY <1>3, <1>4, MeansStill DEF Lookup, MeaningInv

\* read_reply carries a path past the end of its lock.
LEMMA ReadInv ==
  ASSUME MeaningInv, NEW g \in Guests, ReadLock(g) \/ ReadFile(g) PROVE MeaningInv'
<1>1. TableInv' /\ Grows
  BY TableSame DEF ReadLock, ReadFile, MeaningInv, TableInv
<1>2. ToldInv'
  BY <1>1, SameTold DEF ReadLock, ReadFile
<1>3. CASE ReadLock(g)
  <2>1. PICK i, path :
          /\ Means(i, path)
          /\ job' = [job EXCEPT ![g] = [pc |-> "read", node_id |-> i, path |-> path]]
    BY Zenon, <1>3 DEF ReadLock, Means
  <2>2. GoodJob([pc |-> "read", node_id |-> i, path |-> path])'
    BY <1>1, <2>1, MeansStill DEF GoodJob
  <2> QED
    BY Zenon, <1>1, <1>2, <2>1, <2>2, OneJob
<1>4. CASE ReadFile(g)
  BY Zenon, <1>1, <1>2, <1>4, OneJob DEF ReadFile, GoodJob
<1> QED
  BY <1>3, <1>4

\* readdir_reply starts with an empty page.
LEMMA ReaddirStartInv == ASSUME MeaningInv, NEW g \in Guests, ReaddirStart(g) PROVE MeaningInv'
<1>1. PICK todo, size :
        job' = [job EXCEPT ![g] = [pc |-> "page", todo |-> todo, size |-> size,
                                   index |-> 0, page |-> <<>>]]
  BY Zenon DEF ReaddirStart
<1>2. TableInv' /\ Grows
  BY TableSame DEF ReaddirStart, MeaningInv, TableInv
<1>3. GoodPage(<<>>)' /\ <<>> \in Seq(Dirents)
  BY DEF GoodPage
<1>4. PICK j : j = [pc |-> "page", todo |-> todo, size |-> size, index |-> 0, page |-> <<>>]
  BY Zenon
<1>5. GoodJob(j)'
  BY <1>3, <1>4 DEF GoodJob, GoodReaddir
<1> QED
  BY Zenon, <1>1, <1>2, <1>4, <1>5, OneJob, SameTold DEF ReaddirStart

\* An entry that is passed over leaves the page alone.
LEMMA ReaddirSkipInv == ASSUME MeaningInv, NEW g \in Guests, ReaddirSkip(g) PROVE MeaningInv'
<1>1. GoodReaddir(job[g])
  BY Page DEF ReaddirSkip
<1>2. PICK j : j = [job[g] EXCEPT !.todo = Tail(job[g].todo), !.index = job[g].index + 1]
  OBVIOUS
<1>3. job' = [job EXCEPT ![g] = j]
  BY Zenon, <1>1, <1>2 DEF ReaddirSkip, MeaningInv, GoodReaddir
<1>4. TableInv' /\ Grows
  BY TableSame DEF ReaddirSkip, MeaningInv, TableInv
<1>5. GoodReaddir(j)
  BY <1>1, <1>2 DEF GoodReaddir
<1>6. GoodJob(j)'
  BY <1>4, <1>5, MeansStill DEF GoodJob
<1> QED
  BY Zenon, <1>3, <1>4, <1>6, OneJob, SameTold DEF ReaddirSkip

\* A request that fails is forgotten.
LEMMA ReaddirFailInv == ASSUME MeaningInv, NEW g \in Guests, ReaddirFail(g) PROVE MeaningInv'
<1>1. TableInv' /\ Grows
  BY TableSame DEF ReaddirFail, MeaningInv, TableInv
<1> QED
  BY Zenon, <1>1, OneJob, SameTold DEF ReaddirFail, GoodJob

\* A record carries the number that id_for_path has just given.
LEMMA ReaddirEntryInv == ASSUME MeaningInv, NEW g \in Guests, ReaddirEntry(g) PROVE MeaningInv'
<1>1. GoodReaddir(job[g])
  BY Page DEF ReaddirEntry
<1>2. PICK p \in Paths : p = Head(job[g].todo) /\ ~Overflows(p) /\ IdForPath(p)
  BY DEF ReaddirEntry, MeaningInv, TableInv
<1>3. TableInv' /\ Grows /\ \E n \in Nat : n = IdOf(p) /\ Means(n, p)'
  BY <1>2, TableStep DEF ReaddirEntry, MeaningInv
<1>4. PICK n \in Nat : n = IdOf(p) /\ Means(n, p)'
  BY <1>3
<1>5. PICK r : r = Dirent(n, job[g].index + 1, p)
  OBVIOUS
<1>6. r \in Dirents /\ r.node_id = n /\ r.path = p
  BY <1>1, <1>5 DEF Dirent, Dirents, GoodReaddir
<1>7. PICK page : page = job[g].page
  OBVIOUS
<1>8. page \in Seq(Dirents) /\ GoodPage(page)'
  BY <1>1, <1>3, <1>7, MeansStill DEF GoodReaddir, GoodPage
<1>9. Append(page, r) \in Seq(Dirents) /\ GoodPage(Append(page, r))'
  BY <1>4, <1>6, <1>8 DEF GoodPage
<1>10. CASE Len(page) = job[g].size
  <2>1. PICK j : j = [job[g] EXCEPT !.todo = <<>>]
    BY Zenon
  <2>2. job' = [job EXCEPT ![g] = j]
    BY <1>7, <1>10, <2>1 DEF ReaddirEntry, MeaningInv
  <2>3. GoodJob(j)'
    BY <1>1, <1>7, <1>8, <2>1 DEF GoodReaddir, GoodJob
  <2> QED
    BY Zenon, <1>3, <2>2, <2>3, OneJob, SameTold DEF ReaddirEntry
<1>11. CASE Len(page) # job[g].size
  <2>1. PICK j : j = [job[g] EXCEPT !.todo = Tail(job[g].todo), !.index = job[g].index + 1,
                                    !.page = Append(page, r)]
    OBVIOUS
  <2>2. job' = [job EXCEPT ![g] = j]
    <3>2. r = Dirent(IdOf(p), job[g].index + 1, p)
      BY <1>4, <1>5
    <3> DEFINE full == [job[g] EXCEPT !.todo = <<>>]
               more == [job[g] EXCEPT !.todo = Tail(@), !.index = @ + 1, !.page = Append(@, r)]
    <3>3. job' = [job EXCEPT ![g] = IF Len(job[g].page) = job[g].size THEN full ELSE more]
      BY <1>2, <3>2 DEF ReaddirEntry
    <3>4. j = more
      BY <1>1, <1>7, <2>1 DEF GoodReaddir
    <3> HIDE DEF full, more
    <3> QED
      BY <1>7, <1>11, <3>3, <3>4
  <2>3. GoodJob(j)'
    BY <1>1, <1>9, <2>1 DEF GoodReaddir, GoodJob
  <2> QED
    BY Zenon, <1>3, <2>2, <2>3, OneJob, SameTold DEF ReaddirEntry
<1> QED
  BY <1>10, <1>11

\* The guest learns the numbers of a page that was written under earlier locks.
LEMMA ReaddirReplyInv == ASSUME MeaningInv, NEW g \in Guests, ReaddirReply(g) PROVE MeaningInv'
<1>1. PICK page : page = job[g].page
  OBVIOUS
<1>2. TableInv' /\ Grows
  BY TableSame DEF ReaddirReply, MeaningInv, TableInv
<1>3. ToldInv'
  <2>1. CASE page = <<>>
    BY <1>1, <1>2, <2>1, SameTold DEF ReaddirReply
  <2>2. CASE page # <<>>
    <3> DEFINE Of(i) == CHOOSE r \in Range(page) : r.node_id = i
    <3>1. told' = [i \in DOMAIN told \cup {r.node_id : r \in Range(page)} |->
                     IF \E r \in Range(page) : r.node_id = i THEN Of(i).path ELSE told[i]]
      BY <1>1, <2>2 DEF ReaddirReply
    <3>2. page \in Seq(Dirents) /\ GoodPage(page)
      BY <1>1, Page DEF ReaddirReply, GoodReaddir
    <3>3. \A r \in Range(page) : Means(r.node_id, r.path)
      BY <3>2 DEF GoodPage, Range
    <3>4. ASSUME NEW i \in DOMAIN told' PROVE Means(i, told'[i])
      <4>1. CASE \E r \in Range(page) : r.node_id = i
        <5>1. Of(i) \in Range(page) /\ Of(i).node_id = i
          BY <4>1
        <5> HIDE DEF Of
        <5> QED
          BY <3>1, <3>3, <4>1, <5>1
      <4>2. CASE ~\E r \in Range(page) : r.node_id = i
        <5>1. i \in DOMAIN told /\ told'[i] = told[i]
          BY <3>1, <3>4, <4>2
        <5> QED
          BY <5>1 DEF MeaningInv, ToldInv
      <4> QED
        BY <4>1, <4>2
    <3> QED
      BY <1>2, <3>4 DEF ToldInv, Means, Grows
  <2> QED
    BY <2>1, <2>2
<1> QED
  BY Zenon, <1>2, <1>3, OneJob DEF ReaddirReply, GoodJob

\* Every step keeps the invariant.
LEMMA MeaningNext == MeaningInv /\ [Next]_vars => MeaningInv'
<1> SUFFICES ASSUME MeaningInv, [Next]_vars PROVE MeaningInv'
  OBVIOUS
<1>1. ASSUME NEW g \in Guests, Request(g) PROVE MeaningInv'
  <2>1. CASE Opendir(g)
    <3>1. TableInv' /\ Grows
      BY <2>1, TableSame DEF Opendir, MeaningInv, TableInv
    <3> QED
      BY <2>1, <3>1, SameTold, MeansStill DEF Opendir, MeaningInv
  <2> QED
    BY <1>1, <2>1, LookupInv, ReadInv, ReaddirStartInv, ReaddirSkipInv, ReaddirFailInv,
       ReaddirEntryInv, ReaddirReplyInv DEF Request
<1>2. CASE HostChange \/ UNCHANGED vars
  <2>1. exists' \subseteq Paths /\ UNCHANGED <<inodes, told, job>>
    BY <1>2, FsAssumption DEF HostChange, vars, MeaningInv, TableInv
  <2>2. TableInv' /\ Grows
    BY <2>1, TableSame DEF MeaningInv
  <2> QED
    BY <2>1, <2>2, SameTold, MeansStill DEF MeaningInv
<1> QED
  BY <1>1, <1>2 DEF Next

-----------------------------------------------------------------------------
(* What a page does to a listing.                                          *)

\* What a directory shows: everything but symbolic links.
Visible == Paths \ Symlinks

\* The paths of the records of a page.
PathsOf(page) == [i \in DOMAIN page |-> page[i].path]

\* What a guest remembers of the directory it reads.
Listings == [dir : Nat, offset : Nat, listed : Seq(Paths), clean : BOOLEAN, ended : BOOLEAN]

\* What is left of a list after its first n entries.
Rest(todo, n, list) ==
  Len(todo) = Len(list) - n /\ \A k \in 1..Len(todo) : todo[k] = list[n + k]

\* Between two pages the guest has what the entries before the offset show.
Between(l, list) ==
  /\ l.offset \in 0..Len(list)
  /\ l.listed = Front(list, Visible)[l.offset]

\* What the guest has seen is what the first n entries show, once n has reached
\* its offset.
Reaches(list, offset, seen, n) == offset <= n => seen = Front(list, Visible)[n]

\* Between the entry of the last record and the count there are only symbolic
\* links.
Closed(list, page, n) ==
  page # <<>> =>
    /\ page[Len(page)].offset \in 0..Len(list)
    /\ Front(list, Visible)[page[Len(page)].offset] = Front(list, Visible)[n]

\* Within a page: what the guest has and the page together are what the entries
\* counted so far show.  A page with room ends with the list.
Within(l, j, list) ==
  /\ j.size \in Nat \ {0}
  /\ j.todo \in Seq(Paths)
  /\ j.index \in 0..Len(list)
  /\ Rest(j.todo, j.index, list) \/ (j.todo = <<>> /\ j.page # <<>>)
  /\ j.page = <<>> \/ l.offset <= j.index
  /\ Reaches(list, l.offset, l.listed \o PathsOf(j.page), j.index)
  /\ Closed(list, j.page, j.index)

GoodListing(l, j, list) ==
  /\ l \in Listings
  /\ l.listed = <<>> => l.offset = 0
  /\ l.ended => j.pc # "page"
  /\ l.clean =>
       IF l.ended THEN l.listed = Front(list, Visible)[Len(list)]
       ELSE Between(l, list) /\ (j.pc = "page" => Within(l, j, list))

\* The paths of the records, and where the last one is.
LEMMA PageParts ==
  ASSUME NEW page \in Seq(Dirents)
  PROVE  /\ PathsOf(page) \in Seq(Paths) /\ Len(PathsOf(page)) = Len(page)
         /\ page # <<>> => page[Len(page)].offset \in Nat
<1>1. ASSUME NEW k \in 1..Len(page) PROVE page[k].path \in Paths /\ page[k].offset \in Nat
  <2>1. page[k] \in Dirents
    OBVIOUS
  <2> QED
    BY <2>1 DEF Dirents
<1>2. PathsOf(page) = [k \in 1..Len(page) |-> page[k].path]
  BY DEF PathsOf
<1>3. page # <<>> => Len(page) \in 1..Len(page)
  OBVIOUS
<1> QED
  BY <1>1, <1>2, <1>3

\* An empty page shows nothing.
LEMMA EmptyPage == \A l \in Seq(Paths) : l \o PathsOf(<<>>) = l
<1>1. PathsOf(<<>>) = <<>>
  BY DEF PathsOf
<1> QED
  BY <1>1

\* One more record shows one more path.
LEMMA LongerPage ==
  ASSUME NEW page \in Seq(Dirents), NEW r \in Dirents, NEW l \in Seq(Paths)
  PROVE  l \o PathsOf(Append(page, r)) = Append(l \o PathsOf(page), r.path)
<1>1. PICK p \in Paths : p = r.path
  BY DEF Dirents
<1>2. PICK s \in Seq(Paths) : s = PathsOf(page) /\ Len(s) = Len(page)
  BY PageParts
<1>3. PathsOf(Append(page, r)) = Append(s, p)
  BY <1>1, <1>2 DEF PathsOf
<1>4. l \o Append(s, p) = Append(l \o s, p)
  OBVIOUS
<1> QED
  BY Zenon, <1>1, <1>2, <1>3, <1>4

\* The last record of a page is the one that was added.
LEMMA PageLast ==
  \A page \in Seq(Dirents), r \in Dirents :
    Append(page, r) # <<>> /\ Append(page, r)[Len(Append(page, r))] = r
OBVIOUS

\* What a page that is not empty adds to what the guest has.
LEMMA SeenType ==
  ASSUME NEW page \in Seq(Dirents), NEW l \in Seq(Paths), page # <<>>
  PROVE  l \o PathsOf(page) \in Seq(Paths) /\ l \o PathsOf(page) # <<>>
<1>1. PICK s \in Seq(Paths) : s = PathsOf(page) /\ Len(s) = Len(page)
  BY PageParts
<1>2. Len(s) > 0
  BY <1>1
<1>3. l \o s \in Seq(Paths) /\ l \o s # <<>>
  BY <1>2
<1> QED
  BY Zenon, <1>1, <1>3

\* The next entry of what is left of a list.
LEMMA RestTail ==
  ASSUME NEW list \in Seq(Paths), NEW todo \in Seq(Paths), NEW n \in 0..Len(list),
         Rest(todo, n, list), todo # <<>>
  PROVE  /\ n + 1 \in 0..Len(list)
         /\ Rest(Tail(todo), n + 1, list) /\ Tail(todo) \in Seq(Paths)
         /\ Front(list, Visible)[n + 1] = Extend(Front(list, Visible)[n], Head(todo), Visible)
<1>1. /\ n + 1 \in 1..Len(list) /\ Head(todo) = list[n + 1]
      /\ Rest(Tail(todo), n + 1, list) /\ Tail(todo) \in Seq(Paths)
  BY DEF Rest
<1>2. n + 1 - 1 = n /\ Len(list) \in Nat /\ n + 1 \in 0..Len(list)
  BY <1>1
<1> QED
  BY <1>1, <1>2, FrontDef

\* The list of a page that starts is that of the directory.
LEMMA StartGood ==
  ASSUME NEW l, NEW j, NEW k, NEW list \in Seq(Paths), GoodListing(l, j, list), ~l.ended,
         k.pc = "page", k.todo = list, k.index = 0, k.page = <<>>, k.size \in Nat \ {0}
  PROVE  GoodListing(l, k, list)
<1>1. ASSUME l.clean PROVE Within(l, k, list)
  <2>1. Between(l, list) /\ l.listed \in Seq(Paths)
    BY <1>1 DEF GoodListing, Listings
  <2>2. l.listed \o PathsOf(<<>>) = l.listed
    BY Zenon, <2>1, EmptyPage
  <2>3. Rest(list, 0, list)
    BY DEF Rest
  <2>4. l.offset <= 0 => l.offset = 0
    BY <2>1 DEF Between
  <2> QED
    BY <2>1, <2>2, <2>3, <2>4 DEF Within, Between, Reaches, Closed
<1> QED
  BY <1>1 DEF GoodListing

\* An entry that is passed over is of an earlier page or shows nothing.
LEMMA SkipGood ==
  ASSUME NEW l, NEW j, NEW k, NEW list \in Seq(Paths), GoodListing(l, j, list), j.pc = "page",
         j.todo # <<>>, j.index < l.offset \/ Head(j.todo) \notin Visible,
         k.pc = "page", k.todo = Tail(j.todo), k.index = j.index + 1, k.page = j.page, k.size = j.size
  PROVE  GoodListing(l, k, list)
<1>1. ASSUME l.clean PROVE Within(l, k, list)
  <2>1. Between(l, list) /\ Within(l, j, list) /\ l.listed \in Seq(Paths)
    BY <1>1 DEF GoodListing, Listings
  <2>2. PICK n \in 0..Len(list) : n = j.index
    BY <2>1 DEF Within
  <2>3. PICK o \in 0..Len(list) : o = l.offset
    BY <2>1 DEF Between
  <2>4. PICK todo \in Seq(Paths) : todo = j.todo
    BY <2>1 DEF Within
  <2>5. Rest(todo, n, list) /\ todo # <<>>
    BY Zenon, <2>1, <2>2, <2>4 DEF Within
  <2>6. n + 1 \in 0..Len(list) /\ Rest(Tail(todo), n + 1, list) /\ Tail(todo) \in Seq(Paths)
    BY Zenon, <2>5, RestTail
  <2>7. Front(list, Visible)[n + 1] = Extend(Front(list, Visible)[n], Head(todo), Visible)
    BY Zenon, <2>5, RestTail
  <2>9. CASE n < o
    <3>1. j.page = <<>>
      BY <2>1, <2>2, <2>3, <2>9 DEF Within
    <3>2. l.listed \o PathsOf(<<>>) = Front(list, Visible)[o]
      BY Zenon, <2>1, <2>3, EmptyPage DEF Between
    <3>3. Reaches(list, o, l.listed \o PathsOf(<<>>), n + 1)
      BY <2>9, <3>2 DEF Reaches
    <3>4. Closed(list, <<>>, n + 1)
      BY DEF Closed
    <3> QED
      BY <2>1, <2>2, <2>3, <2>4, <2>6, <3>1, <3>3, <3>4 DEF Within
  <2>10. CASE ~(n < o)
    <3>1. Front(list, Visible)[n + 1] = Front(list, Visible)[n]
      BY <2>2, <2>3, <2>4, <2>7, <2>10 DEF Extend
    <3>2. o <= n /\ o <= n + 1
      BY <2>10
    <3>3. Reaches(list, o, l.listed \o PathsOf(j.page), n + 1)
      BY Zenon, <2>1, <2>2, <2>3, <3>1, <3>2 DEF Within, Reaches
    <3>4. Closed(list, j.page, n + 1)
      BY <2>1, <2>2, <3>1 DEF Within, Closed
    <3> QED
      BY <2>1, <2>2, <2>3, <2>4, <2>6, <3>2, <3>3, <3>4 DEF Within
  <2> QED
    BY <2>9, <2>10
<1> QED
  BY <1>1 DEF GoodListing

\* An entry for which the page has no room ends it.
LEMMA FullGood ==
  ASSUME NEW l, NEW j, NEW k, NEW list \in Seq(Paths), GoodListing(l, j, list), j.pc = "page",
         j.page \in Seq(Dirents), Len(j.page) = j.size,
         k.pc = "page", k.todo = <<>>, k.index = j.index, k.page = j.page, k.size = j.size
  PROVE  GoodListing(l, k, list)
<1>1. ASSUME l.clean PROVE Within(l, k, list)
  <2>1. Within(l, j, list)
    BY <1>1 DEF GoodListing
  <2>2. j.page # <<>>
    <3>1. Len(j.page) # 0
      BY <2>1 DEF Within
    <3> QED
      BY <3>1
  <2> QED
    BY <2>1, <2>2 DEF Within
<1> QED
  BY <1>1 DEF GoodListing

\* A record shows the entry it is for.
LEMMA EntryGood ==
  ASSUME NEW l, NEW j, NEW k, NEW list \in Seq(Paths), GoodListing(l, j, list), j.pc = "page",
         j.page \in Seq(Dirents), j.index \in Nat,
         j.todo # <<>>, ~(j.index < l.offset), Head(j.todo) \in Visible,
         NEW r \in Dirents, r.offset = j.index + 1, r.path = Head(j.todo),
         k.pc = "page", k.todo = Tail(j.todo), k.index = j.index + 1,
         k.page = Append(j.page, r), k.size = j.size
  PROVE  GoodListing(l, k, list)
<1>1. ASSUME l.clean PROVE Within(l, k, list)
  <2>1. Between(l, list) /\ Within(l, j, list) /\ l.listed \in Seq(Paths)
    BY <1>1 DEF GoodListing, Listings
  <2>2. PICK n \in 0..Len(list) : n = j.index
    BY <2>1 DEF Within
  <2>3. PICK o \in 0..Len(list) : o = l.offset
    BY <2>1 DEF Between
  <2>4. PICK todo \in Seq(Paths) : todo = j.todo
    BY <2>1 DEF Within
  <2>5. Rest(todo, n, list) /\ todo # <<>>
    BY Zenon, <2>1, <2>2, <2>4 DEF Within
  <2>6. n + 1 \in 0..Len(list) /\ Rest(Tail(todo), n + 1, list) /\ Tail(todo) \in Seq(Paths)
    BY Zenon, <2>5, RestTail
  <2>7. Front(list, Visible)[n + 1] = Extend(Front(list, Visible)[n], Head(todo), Visible)
    BY Zenon, <2>5, RestTail
  <2>9. o <= n /\ o <= n + 1
    BY <2>2, <2>3
  <2>10. l.listed \o PathsOf(k.page) = Front(list, Visible)[n + 1]
    <3>1. l.listed \o PathsOf(j.page) = Front(list, Visible)[n]
      BY Zenon, <2>1, <2>2, <2>3, <2>9 DEF Within, Reaches
    <3>2. l.listed \o PathsOf(Append(j.page, r)) = Append(l.listed \o PathsOf(j.page), r.path)
      BY Zenon, <2>1, LongerPage
    <3> QED
      BY <2>4, <2>7, <3>1, <3>2 DEF Extend
  <2>11. Append(j.page, r) # <<>> /\ Append(j.page, r)[Len(Append(j.page, r))] = r
    BY Zenon, PageLast
  <2>12. Reaches(list, o, l.listed \o PathsOf(k.page), n + 1)
    BY <2>10 DEF Reaches
  <2>13. Closed(list, k.page, n + 1)
    BY <2>2, <2>6, <2>11 DEF Closed
  <2> QED
    BY <2>1, <2>2, <2>3, <2>4, <2>6, <2>9, <2>12, <2>13 DEF Within
<1> QED
  BY <1>1 DEF GoodListing

\* An empty page is the end.
LEMMA EndGood ==
  ASSUME NEW l, NEW j, NEW k, NEW list \in Seq(Paths), GoodListing(l, j, list), j.pc = "page",
         j.todo = <<>>, j.page = <<>>, k.pc # "page"
  PROVE  GoodListing([l EXCEPT !.ended = TRUE], k, list)
<1>1. PICK m : m = [l EXCEPT !.ended = TRUE]
  BY Zenon
<1>2. m \in Listings /\ m.listed = l.listed /\ m.offset = l.offset /\ m.clean = l.clean /\ m.ended
  BY Zenon, <1>1 DEF GoodListing, Listings
<1>3. ASSUME l.clean PROVE l.listed = Front(list, Visible)[Len(list)]
  <2>1. Between(l, list) /\ Within(l, j, list) /\ l.listed \in Seq(Paths)
    BY <1>3 DEF GoodListing, Listings
  <2>2. j.index = Len(list) /\ l.offset <= j.index
    BY <2>1 DEF Within, Between, Rest
  <2> QED
    BY Zenon, <2>1, <2>2, EmptyPage DEF Within, Reaches
<1> QED
  BY Zenon, <1>1, <1>2, <1>3 DEF GoodListing

\* A page is continued after its last record.
LEMMA ReplyGood ==
  ASSUME NEW l, NEW j, NEW k, NEW list \in Seq(Paths), GoodListing(l, j, list), j.pc = "page",
         j.page \in Seq(Dirents), j.page # <<>>, k.pc # "page"
  PROVE  GoodListing([l EXCEPT !.offset = j.page[Len(j.page)].offset,
                               !.listed = l.listed \o PathsOf(j.page)], k, list)
<1>1. PICK m : m = [l EXCEPT !.offset = j.page[Len(j.page)].offset,
                             !.listed = l.listed \o PathsOf(j.page)]
  BY Zenon
<1>2. j.page[Len(j.page)].offset \in Nat
  BY Zenon, PageParts
<1>3. l.listed \in Seq(Paths) /\ ~l.ended
  BY DEF GoodListing, Listings
<1>4. PICK seen \in Seq(Paths) : seen = l.listed \o PathsOf(j.page) /\ seen # <<>>
  BY Zenon, <1>3, SeenType
<1>5. /\ m \in Listings /\ m.clean = l.clean /\ ~m.ended
      /\ m.listed = seen /\ m.offset = j.page[Len(j.page)].offset
  BY Zenon, <1>1, <1>2, <1>3, <1>4 DEF GoodListing, Listings
<1>6. ASSUME l.clean PROVE Between(m, list)
  <2>1. Within(l, j, list)
    BY <1>3, <1>6 DEF GoodListing
  <2> QED
    BY Zenon, <1>4, <1>5, <2>1 DEF Within, Reaches, Closed, Between
<1> QED
  BY Zenon, <1>1, <1>4, <1>5, <1>6 DEF GoodListing

-----------------------------------------------------------------------------
(* The listings.                                                           *)

\* A page that is not being written has no part in a listing.
LEMMA OtherGood ==
  ASSUME NEW l, NEW j, NEW k, NEW list, GoodListing(l, j, list), j.pc # "page", k.pc # "page"
  PROVE  GoodListing(l, k, list)
BY Zenon DEF GoodListing

\* A listing starts with nothing.
LEMMA NewGood ==
  ASSUME NEW d \in Nat, NEW k, NEW list \in Seq(Paths), k.pc # "page"
  PROVE  GoodListing(NewListing(d), k, list)
<1>1. PICK l : l = NewListing(d)
  BY Zenon
<1>2. l.offset = 0 /\ l.listed = <<>> /\ ~l.ended /\ l \in Listings
  BY <1>1 DEF NewListing, Listings
<1>3. Front(list, Visible)[0] = <<>> /\ 0 \in 0..Len(list)
  BY FrontDef
<1>4. Between(l, list)
  BY <1>2, <1>3 DEF Between
<1> QED
  BY Zenon, <1>1, <1>2, <1>4 DEF GoodListing

\* A change of the host spares only a listing that has nothing yet.
LEMMA HostGood ==
  ASSUME NEW l, NEW j, NEW list, NEW other \in Seq(Paths), GoodListing(l, j, list), NEW m,
         m = [l EXCEPT !.clean = l.clean /\ j.pc # "page" /\ l.listed = <<>> /\ ~l.ended]
  PROVE  GoodListing(m, j, other)
<1>1. l \in Listings
  BY DEF GoodListing
<1>2. m.offset = l.offset /\ m.listed = l.listed /\ m.ended = l.ended /\ m \in Listings
  BY Zenon, <1>1 DEF Listings
<1>3. m.clean => j.pc # "page" /\ l.listed = <<>> /\ ~l.ended
  BY Zenon, <1>1 DEF Listings
<1>4. Front(other, Visible)[0] = <<>> /\ 0 \in 0..Len(other)
  BY FrontDef
<1>5. m.clean => Between(m, other)
  BY <1>2, <1>3, <1>4 DEF Between, GoodListing
<1> QED
  BY Zenon, <1>2, <1>3, <1>5 DEF GoodListing

\* What the host has in a directory.
Present(d) == Only(Entries[by_id[d]], exists)

\* A directory whose number the guest was given.
Opened(d) == d \in DOMAIN told /\ by_id[d] \in Dirs

GoodAt(g) ==
  Opened(listing[g].dir) /\ GoodListing(listing[g], job[g], Present(listing[g].dir))

ListingInv ==
  /\ MeaningInv
  /\ listing = [g \in Guests |-> listing[g]]
  /\ \A g \in Guests : GoodAt(g)

\* What the host has in a directory are paths.
LEMMA PresentType ==
  ASSUME NEW path \in Dirs, NEW S PROVE Only(Entries[path], S) \in Seq(Paths)
<1>1. PICK list : list = Entries[path]
  BY Zenon
<1>2. list \in Seq(Paths)
  <2>1. list \in Seq(Paths \ {Root})
    BY <1>1, FsAssumption
  <2> QED
    BY <2>1
<1>3. Len(list) \in 0..Len(list)
  BY <1>2
<1> QED
  BY Zenon, <1>1, <1>2, <1>3, FrontType DEF Only

\* A request keeps what the table has and what the guest was told.
LEMMA RequestGrows ==
  ASSUME MeaningInv, NEW g \in Guests, Request(g)
  PROVE  Grows /\ DOMAIN told \subseteq DOMAIN told' /\ UNCHANGED exists
<1>1. CASE Lookup(g)
  <2>0. PICK d \in Dirs : \E p \in Range(Entries[d]) :
          ~Overflows(p) /\ IdForPath(p) /\ told' = With(told, IdOf(p), p)
    BY <1>1 DEF Lookup
  <2>1. PICK p \in Range(Entries[d]) :
          ~Overflows(p) /\ IdForPath(p) /\ told' = With(told, IdOf(p), p)
    BY <2>0
  <2>2. p \in Paths
    BY <2>1, FsAssumption DEF Range
  <2>3. Grows
    BY <1>1, <2>1, <2>2, TableStep DEF Lookup, MeaningInv
  <2> QED
    BY <1>1, <2>1, <2>3 DEF Lookup, With
<1>2. CASE ReaddirEntry(g)
  <2>1. PICK p \in Paths : ~Overflows(p) /\ IdForPath(p)
    BY <1>2 DEF ReaddirEntry, MeaningInv, TableInv
  <2>2. Grows
    BY <1>2, <2>1, TableStep DEF ReaddirEntry, MeaningInv
  <2> QED
    BY <1>2, <2>2 DEF ReaddirEntry
<1>3. CASE ReaddirReply(g)
  BY <1>3 DEF ReaddirReply, Grows, inodes
<1>4. CASE \/ ReadLock(g) \/ ReadFile(g) \/ ReaddirStart(g) \/ ReaddirSkip(g)
           \/ ReaddirFail(g) \/ Opendir(g)
  BY Zenon, <1>4 DEF ReadLock, ReadFile, ReaddirStart, ReaddirSkip, ReaddirFail, Opendir,
                     Grows, inodes
<1> QED
  BY <1>1, <1>2, <1>3, <1>4 DEF Request

\* While the host changes nothing, an open directory has the same entries.
LEMMA PresentSame ==
  ASSUME MeaningInv, Grows, DOMAIN told \subseteq DOMAIN told', UNCHANGED exists,
         NEW d, Opened(d)
  PROVE  Opened(d)' /\ Present(d)' = Present(d)
<1>1. d \in DOMAIN by_id
  BY DEF MeaningInv, ToldInv, Means, Opened
<1>2. by_id'[d] = by_id[d]
  BY <1>1 DEF Grows
<1> QED
  BY Zenon, <1>2 DEF Opened, Present

\* Where one guest's request moves on, the other listings stay as they are.
LEMMA OneListing ==
  ASSUME ListingInv, MeaningInv', NEW g \in Guests, Request(g),
         NEW l, listing' = [listing EXCEPT ![g] = l],
         NEW j, job' = [job EXCEPT ![g] = j],
         Opened(l.dir)', GoodListing(l, j, Present(l.dir)')
  PROVE  ListingInv'
<1>1. Grows /\ DOMAIN told \subseteq DOMAIN told' /\ UNCHANGED exists
  BY RequestGrows DEF ListingInv
<1>2. /\ listing' = [h \in Guests |-> IF h = g THEN l ELSE listing[h]]
      /\ job' = [h \in Guests |-> IF h = g THEN j ELSE job[h]]
  BY Zenon DEF ListingInv, MeaningInv
<1>3. listing' = [h \in Guests |-> listing'[h]]
  BY Zenon, <1>2
<1>4. GoodAt(g)'
  BY Zenon, <1>2 DEF GoodAt
<1>5. ASSUME NEW h \in Guests, h # g PROVE GoodAt(h)'
  <2>1. PICK d : d = listing[h].dir
    BY Zenon
  <2>2. Opened(d)' /\ Present(d)' = Present(d)
    BY <1>1, <2>1, PresentSame DEF ListingInv, GoodAt
  <2>3. listing'[h] = listing[h] /\ job'[h] = job[h]
    BY <1>2, <1>5
  <2> QED
    BY Zenon, <2>1, <2>2, <2>3 DEF ListingInv, GoodAt
<1> QED
  BY <1>3, <1>4, <1>5 DEF ListingInv

\* What a request finds of its own listing, and what still holds after it.
LEMMA OwnListing ==
  ASSUME ListingInv, NEW g \in Guests, Request(g)
  PROVE  \E l \in Listings, list \in Seq(Paths) :
           /\ l = listing[g] /\ listing = [listing EXCEPT ![g] = l]
           /\ Opened(l.dir)' /\ Present(l.dir)' = list
           /\ GoodListing(l, job[g], list)
<1>1. PICK l, list : l = listing[g] /\ list = Present(l.dir)
  BY Zenon
<1>2. Opened(l.dir) /\ GoodListing(l, job[g], list)
  BY Zenon, <1>1 DEF ListingInv, GoodAt
<1>3. l \in Listings /\ list \in Seq(Paths)
  BY Zenon, <1>1, <1>2, PresentType DEF GoodListing, Opened, Present
<1>4. Grows /\ DOMAIN told \subseteq DOMAIN told' /\ UNCHANGED exists
  BY RequestGrows DEF ListingInv
<1>5. PICK d : d = l.dir
  BY Zenon
<1>6. Opened(d)' /\ Present(d)' = Present(d)
  BY <1>2, <1>4, <1>5, PresentSame DEF ListingInv
<1>7. listing = [listing EXCEPT ![g] = l]
  BY <1>1 DEF ListingInv
<1> QED
  BY Zenon, <1>1, <1>2, <1>3, <1>5, <1>6, <1>7

\* The job of a guest that has none, or keeps the one it has, is no page.
LEMMA SameJob ==
  ASSUME ListingInv, NEW g \in Guests
  PROVE  /\ job = [job EXCEPT ![g] = job[g]]
         /\ Idle.pc # "page" /\ (job[g].pc = "idle" => job[g].pc # "page")
<1>1. job = [job EXCEPT ![g] = job[g]]
  BY DEF ListingInv, MeaningInv
<1> QED
  BY <1>1 DEF Idle

\* LOOKUP and READ have no part in a listing.
LEMMA OtherListing ==
  ASSUME ListingInv, MeaningInv', NEW g \in Guests, Request(g),
         Lookup(g) \/ ReadLock(g) \/ ReadFile(g)
  PROVE  ListingInv'
<1>1. PICK l \in Listings, list \in Seq(Paths) :
        /\ l = listing[g] /\ listing = [listing EXCEPT ![g] = l]
        /\ Opened(l.dir)' /\ Present(l.dir)' = list
        /\ GoodListing(l, job[g], list)
  BY OwnListing
<1>2. PICK j : job' = [job EXCEPT ![g] = j] /\ j.pc # "page"
  <2>1. CASE Lookup(g)
    BY Zenon, <2>1, SameJob DEF Lookup
  <2>2. CASE ReadLock(g)
    <3>1. PICK i : job' = [job EXCEPT ![g] = [pc |-> "read", node_id |-> i, path |-> by_id[i]]]
      BY Zenon, <2>2 DEF ReadLock
    <3>2. PICK j : j = [pc |-> "read", node_id |-> i, path |-> by_id[i]]
      BY Zenon
    <3>3. j.pc # "page"
      BY <3>2
    <3> QED
      BY Zenon, <3>1, <3>2, <3>3
  <2>3. CASE ReadFile(g)
    BY Zenon, <2>3, SameJob DEF ReadFile
  <2> QED
    BY <2>1, <2>2, <2>3
<1>3. job[g].pc # "page" /\ listing' = listing
  BY Zenon DEF Lookup, ReadLock, ReadFile
<1>4. GoodListing(l, j, list)
  BY Zenon, <1>1, <1>2, <1>3, OtherGood
<1> QED
  BY Zenon, <1>1, <1>2, <1>3, <1>4, OneListing

\* A page starts with all the entries.
LEMMA StartListing ==
  ASSUME ListingInv, MeaningInv', NEW g \in Guests, Request(g), ReaddirStart(g) PROVE ListingInv'
<1>1. PICK l \in Listings, list \in Seq(Paths) :
        /\ l = listing[g] /\ listing = [listing EXCEPT ![g] = l]
        /\ Opened(l.dir)' /\ Present(l.dir)' = list
        /\ GoodListing(l, job[g], list)
  BY OwnListing
<1>2. Present(l.dir) = list /\ ~l.ended /\ listing' = listing
  BY Zenon, <1>1 DEF ReaddirStart, Present, inodes
<1>3. PICK size \in Sizes :
        job' = [job EXCEPT ![g] = [pc |-> "page", todo |-> Present(listing[g].dir), size |-> size,
                                   index |-> 0, page |-> <<>>]]
  BY Zenon DEF ReaddirStart, Present
<1>4. PICK j : j = [pc |-> "page", todo |-> list, size |-> size, index |-> 0, page |-> <<>>]
  BY Zenon
<1>5. /\ job' = [job EXCEPT ![g] = j]
      /\ j.pc = "page" /\ j.todo = list /\ j.size = size /\ j.index = 0 /\ j.page = <<>>
  BY Zenon, <1>1, <1>2, <1>3, <1>4
<1>6. size \in Nat \ {0}
  BY FsAssumption
<1>7. GoodListing(l, j, list)
  BY Zenon, <1>1, <1>2, <1>5, <1>6, StartGood
<1> QED
  BY Zenon, <1>1, <1>2, <1>5, <1>7, OneListing

\* An entry is passed over.
LEMMA SkipListing ==
  ASSUME ListingInv, MeaningInv', NEW g \in Guests, Request(g), ReaddirSkip(g) PROVE ListingInv'
<1>1. PICK l \in Listings, list \in Seq(Paths) :
        /\ l = listing[g] /\ listing = [listing EXCEPT ![g] = l]
        /\ Opened(l.dir)' /\ Present(l.dir)' = list
        /\ GoodListing(l, job[g], list)
  BY OwnListing
<1>2. GoodReaddir(job[g])
  BY Page DEF ReaddirSkip, ListingInv
<1>3. PICK j : j = [job[g] EXCEPT !.todo = Tail(job[g].todo), !.index = job[g].index + 1]
  BY Zenon
<1>4. job' = [job EXCEPT ![g] = j]
  BY <1>2, <1>3 DEF ReaddirSkip, ListingInv, MeaningInv, GoodReaddir
<1>5. /\ j.pc = "page" /\ j.todo = Tail(job[g].todo) /\ j.index = job[g].index + 1
      /\ j.page = job[g].page /\ j.size = job[g].size
  BY <1>2, <1>3 DEF GoodReaddir
<1>6. /\ job[g].pc = "page" /\ job[g].todo # <<>> /\ listing' = listing
      /\ job[g].index < l.offset \/ Head(job[g].todo) \notin Visible
  BY Zenon, <1>1 DEF ReaddirSkip, Skips, Visible
<1>7. GoodListing(l, j, list)
  BY Zenon, <1>1, <1>5, <1>6, SkipGood
<1> QED
  BY Zenon, <1>1, <1>4, <1>6, <1>7, OneListing

\* A request that fails starts the listing over, as Opendir does.
LEMMA NewListingStep ==
  ASSUME ListingInv, MeaningInv', NEW g \in Guests, Request(g), ReaddirFail(g) \/ Opendir(g)
  PROVE  ListingInv'
<1>1. PICK d \in DOMAIN told' : /\ by_id'[d] \in Dirs
                                /\ listing' = [listing EXCEPT ![g] = NewListing(d)]
  <2>1. CASE ReaddirFail(g)
    <3>1. listing' = [listing EXCEPT ![g] = NewListing(listing[g].dir)]
      BY <2>1 DEF ReaddirFail
    <3>2. Opened(listing[g].dir)
      BY Zenon DEF ListingInv, GoodAt
    <3> QED
      BY Zenon, <2>1, <3>1, <3>2 DEF ReaddirFail, Opened, inodes
  <2>2. CASE Opendir(g)
    BY Zenon, <2>2 DEF Opendir, inodes, ListingInv, MeaningInv, ToldInv, Means
  <2> QED
    BY <2>1, <2>2
<1>2. PICK j : job' = [job EXCEPT ![g] = j] /\ j.pc # "page"
  <2>1. CASE ReaddirFail(g)
    BY Zenon, <2>1, SameJob DEF ReaddirFail
  <2>2. CASE Opendir(g)
    BY Zenon, <2>2, SameJob DEF Opendir
  <2> QED
    BY <2>1, <2>2
<1>3. Opened(d)' /\ d \in Nat
  BY <1>1 DEF Opened, MeaningInv, TableInv, TypeOK, ToldInv, Means, FUSE_ROOT_ID
<1>4. PICK list \in Seq(Paths) : list = Present(d)'
  BY Zenon, <1>3, PresentType DEF Opened, Present
<1>5. PICK l : l = NewListing(d)
  BY Zenon
<1>6. l.dir = d
  BY <1>5 DEF NewListing
<1>7. GoodListing(l, j, list)
  BY Zenon, <1>2, <1>3, <1>5, NewGood
<1> QED
  BY Zenon, <1>1, <1>2, <1>3, <1>4, <1>5, <1>6, <1>7, OneListing

\* An entry gets its record, or finds the page full.
LEMMA EntryListing ==
  ASSUME ListingInv, MeaningInv', NEW g \in Guests, Request(g), ReaddirEntry(g) PROVE ListingInv'
<1>1. PICK l \in Listings, list \in Seq(Paths) :
        /\ l = listing[g] /\ listing = [listing EXCEPT ![g] = l]
        /\ Opened(l.dir)' /\ Present(l.dir)' = list
        /\ GoodListing(l, job[g], list)
  BY OwnListing
<1>2. GoodReaddir(job[g])
  BY Page DEF ReaddirEntry, ListingInv
<1>3. PICK p \in Paths : /\ p = Head(job[g].todo) /\ p \in exists
                         /\ ~Skips(g, p) /\ ~Overflows(p) /\ IdForPath(p)
  BY Zenon DEF ReaddirEntry, ListingInv, MeaningInv, TableInv
<1>4. PICK n \in Nat : n = IdOf(p)
  BY <1>3, TableStep DEF ReaddirEntry, ListingInv, MeaningInv
<1>5. PICK r : r = Dirent(n, job[g].index + 1, p)
  BY Zenon
<1>6. job[g].index \in Nat /\ job[g].index + 1 \in Nat
  BY <1>2 DEF GoodReaddir
<1>7. r \in Dirents /\ r.offset = job[g].index + 1 /\ r.path = p
  BY <1>5, <1>6 DEF Dirent, Dirents
<1>8. /\ job[g].pc = "page" /\ job[g].todo # <<>> /\ listing' = listing
      /\ ~(job[g].index < l.offset) /\ p \in Visible
  BY Zenon, <1>1, <1>3 DEF ReaddirEntry, Skips, Visible
<1>9. job[g].page \in Seq(Dirents)
  BY <1>2 DEF GoodReaddir
<1> DEFINE full == [job[g] EXCEPT !.todo = <<>>]
           more == [job[g] EXCEPT !.todo = Tail(@), !.index = @ + 1, !.page = Append(@, r)]
<1>10. job' = [job EXCEPT ![g] = IF Len(job[g].page) = job[g].size THEN full ELSE more]
  BY <1>3, <1>4, <1>5 DEF ReaddirEntry
<1>11. CASE Len(job[g].page) = job[g].size
  <2>1. job' = [job EXCEPT ![g] = full]
    BY Zenon, <1>10, <1>11
  <2>2. /\ full.pc = "page" /\ full.todo = <<>> /\ full.index = job[g].index
        /\ full.page = job[g].page /\ full.size = job[g].size
    BY Zenon, <1>2 DEF GoodReaddir
  <2> HIDE DEF full
  <2>3. GoodListing(l, full, list)
    BY Zenon, <1>1, <1>8, <1>9, <1>11, <2>2, FullGood
  <2> QED
    BY Zenon, <1>1, <1>8, <2>1, <2>3, OneListing
<1>12. CASE Len(job[g].page) # job[g].size
  <2>1. job' = [job EXCEPT ![g] = more]
    BY Zenon, <1>10, <1>12
  <2>2. /\ more.pc = "page" /\ more.todo = Tail(job[g].todo) /\ more.index = job[g].index + 1
        /\ more.page = Append(job[g].page, r) /\ more.size = job[g].size
    BY Zenon, <1>2 DEF GoodReaddir
  <2> HIDE DEF more
  <2>3. GoodListing(l, more, list)
    BY Zenon, <1>1, <1>3, <1>6, <1>7, <1>8, <1>9, <2>2, EntryGood
  <2> QED
    BY Zenon, <1>1, <1>8, <2>1, <2>3, OneListing
<1> QED
  BY <1>11, <1>12

\* The guest gets a page, or learns that there is nothing more.
LEMMA ReplyListing ==
  ASSUME ListingInv, MeaningInv', NEW g \in Guests, Request(g), ReaddirReply(g) PROVE ListingInv'
<1>1. PICK l \in Listings, list \in Seq(Paths) :
        /\ l = listing[g] /\ listing = [listing EXCEPT ![g] = l]
        /\ Opened(l.dir)' /\ Present(l.dir)' = list
        /\ GoodListing(l, job[g], list)
  BY OwnListing
<1>2. PICK j : j = job[g]
  BY Zenon
<1>3. j.pc = "page" /\ j.todo = <<>> /\ job' = [job EXCEPT ![g] = Idle]
  BY Zenon, <1>2 DEF ReaddirReply
<1>4. j.page \in Seq(Dirents)
  BY <1>2, <1>3, Page DEF ListingInv, GoodReaddir
<1>5. Idle.pc # "page"
  BY DEF Idle
<1>6. CASE j.page = <<>>
  <2>1. PICK m : m = [l EXCEPT !.ended = TRUE]
    BY Zenon
  <2>2. listing' = [listing EXCEPT ![g] = m] /\ m.dir = l.dir
    BY <1>1, <1>2, <1>6, <2>1 DEF ReaddirReply, ListingInv, Listings
  <2>3. GoodListing(m, Idle, list)
    BY Zenon, <1>1, <1>2, <1>3, <1>5, <1>6, <2>1, EndGood
  <2> QED
    BY Zenon, <1>1, <1>3, <2>2, <2>3, OneListing
<1>7. CASE j.page # <<>>
  <2>1. PICK m : m = [l EXCEPT !.offset = j.page[Len(j.page)].offset,
                               !.listed = l.listed \o PathsOf(j.page)]
    BY Zenon
  <2>2. listing' = [listing EXCEPT ![g] = m] /\ m.dir = l.dir
    <3>1. listing' = [listing EXCEPT ![g].offset = j.page[Len(j.page)].offset,
                                     ![g].listed = @ \o PathsOf(j.page)]
      BY Zenon, <1>2, <1>7 DEF ReaddirReply, PathsOf
    <3> QED
      BY Zenon, <1>1, <2>1, <3>1 DEF ListingInv, Listings
  <2>3. GoodListing(m, Idle, list)
    BY Zenon, <1>1, <1>2, <1>3, <1>4, <1>5, <1>7, <2>1, ReplyGood
  <2> QED
    BY Zenon, <1>1, <1>3, <2>2, <2>3, OneListing
<1> QED
  BY <1>6, <1>7

\* The host changes what is in a directory.
LEMMA HostListing == ASSUME ListingInv, MeaningInv', HostChange PROVE ListingInv'
<1>1. UNCHANGED <<by_id, told, job>>
  BY DEF HostChange, inodes
<1>2. \A g \in Guests :
        listing'[g] = [listing[g] EXCEPT
                         !.clean = listing[g].clean /\ job[g].pc # "page"
                                   /\ listing[g].listed = <<>> /\ ~listing[g].ended]
  BY Zenon DEF HostChange
<1>3. listing' = [g \in Guests |-> listing'[g]]
  BY Zenon DEF HostChange
<1>4. ASSUME NEW g \in Guests PROVE GoodAt(g)'
  <2>1. PICK l, list, m : l = listing[g] /\ list = Present(l.dir) /\ m = listing'[g]
    BY Zenon
  <2>2. Opened(l.dir) /\ GoodListing(l, job[g], list)
    BY Zenon, <2>1 DEF ListingInv, GoodAt
  <2>3. m = [l EXCEPT !.clean = l.clean /\ job[g].pc # "page" /\ l.listed = <<>> /\ ~l.ended]
    BY Zenon, <1>2, <2>1
  <2>4. m.dir = l.dir
    BY Zenon, <2>2, <2>3 DEF GoodListing, Listings
  <2>5. PICK d : d = l.dir
    BY Zenon
  <2>6. Opened(d)'
    BY Zenon, <1>1, <2>2, <2>5 DEF Opened
  <2>7. Present(d)' \in Seq(Paths)
    BY Zenon, <2>6, PresentType DEF Opened, Present
  <2>8. GoodListing(m, job[g], Present(d)')
    BY Zenon, <2>2, <2>3, <2>7, HostGood
  <2> QED
    BY Zenon, <1>1, <2>1, <2>4, <2>5, <2>6, <2>8 DEF GoodAt
<1> QED
  BY Zenon, <1>3, <1>4 DEF ListingInv

\* Every step keeps the listings good.
LEMMA ListingNext == ListingInv /\ [Next]_vars => ListingInv'
<1> SUFFICES ASSUME ListingInv, [Next]_vars PROVE ListingInv'
  OBVIOUS
<1>1. MeaningInv'
  BY MeaningNext DEF ListingInv
<1>2. ASSUME NEW g \in Guests, Request(g) PROVE ListingInv'
  <2>1. CASE Lookup(g) \/ ReadLock(g) \/ ReadFile(g)
    BY Zenon, <1>1, <1>2, <2>1, OtherListing
  <2>2. CASE ReaddirStart(g)
    BY Zenon, <1>1, <1>2, <2>2, StartListing
  <2>3. CASE ReaddirSkip(g)
    BY Zenon, <1>1, <1>2, <2>3, SkipListing
  <2>4. CASE ReaddirFail(g) \/ Opendir(g)
    BY Zenon, <1>1, <1>2, <2>4, NewListingStep
  <2>5. CASE ReaddirEntry(g)
    BY Zenon, <1>1, <1>2, <2>5, EntryListing
  <2>6. CASE ReaddirReply(g)
    BY Zenon, <1>1, <1>2, <2>6, ReplyListing
  <2> QED
    BY Zenon, <1>2, <2>1, <2>2, <2>3, <2>4, <2>5, <2>6 DEF Request
<1>3. CASE HostChange
  BY Zenon, <1>1, <1>3, HostListing
<1>4. CASE UNCHANGED vars
  BY Zenon, <1>1, <1>4 DEF vars, inodes, ListingInv, GoodAt, Opened, Present
<1> QED
  BY Zenon, <1>2, <1>3, <1>4 DEF Next

\* Every guest starts with a listing of the root that has nothing yet.
LEMMA ListingInit == Init => ListingInv
<1> SUFFICES ASSUME Init PROVE ListingInv
  OBVIOUS
<1>1. MeaningInv
  BY MeaningInit
<1>2. listing = [g \in Guests |-> listing[g]]
  BY DEF Init
<1>3. ASSUME NEW g \in Guests PROVE GoodAt(g)
  <2>1. listing[g] = NewListing(1) /\ job[g] = Idle /\ Opened(1)
    BY FsAssumption DEF Init, FUSE_ROOT_ID, Opened
  <2>2. NewListing(1).dir = 1 /\ Idle.pc # "page" /\ 1 \in Nat
    BY DEF NewListing, Idle
  <2>3. Present(1) \in Seq(Paths)
    BY Zenon, <2>1, PresentType DEF Opened, Present
  <2>4. GoodListing(NewListing(1), Idle, Present(1))
    BY Zenon, <2>2, <2>3, NewGood
  <2> QED
    BY Zenon, <2>1, <2>2, <2>4 DEF GoodAt
<1> QED
  BY Zenon, <1>1, <1>2, <1>3 DEF ListingInv

-----------------------------------------------------------------------------
(* The theorems.                                                           *)

\* The numbers of the table are those below next, and id_for_path never goes
\* past the last one there is.
THEOREM TypeCorrect == Spec => []TypeOK
<1>1. MeaningInv => TypeOK
  BY DEF MeaningInv, TableInv
<1> QED
  BY <1>1, MeaningInit, MeaningNext, PTL DEF Spec

\* However the workers interleave, a path has one number and a number one path,
\* up to the last number there is.
THEOREM TableIsBijective == Spec => []OneNumberPerPath
<1>1. MeaningInv => OneNumberPerPath
  BY DEF MeaningInv, TableInv
<1> QED
  BY <1>1, MeaningInit, MeaningNext, PTL DEF Spec

\* A number means to the guest, and to a READ that has let go of the lock, what
\* it meant when it was given out.
THEOREM MeaningIsKept == Spec => []NumbersKeepMeaning
<1>1. MeaningInv => NumbersKeepMeaning
  BY DEF MeaningInv, ToldInv, NumbersKeepMeaning, Means, GoodJob, GoodReaddir, Idle
<1> QED
  BY <1>1, MeaningInit, MeaningNext, PTL DEF Spec

\* A directory of any length, read in pages of whatever sizes while the host
\* leaves it alone and other workers enter numbers, is listed in full, in order
\* and without repetition, but for its symbolic links.
THEOREM ListingsAreComplete == Spec => []ListingIsComplete
<1>1. ListingInv => ListingIsComplete
  <2> SUFFICES ASSUME ListingInv, NEW g \in Guests, listing[g].ended, listing[g].clean
               PROVE  listing[g].listed = Only(Entries[told[listing[g].dir]], exists \ Symlinks)
    BY Zenon DEF ListingIsComplete
  <2>1. PICK l, d : l = listing[g] /\ d = l.dir
    BY Zenon
  <2>2. Opened(d) /\ GoodListing(l, job[g], Present(d))
    BY Zenon, <2>1 DEF ListingInv, GoodAt
  <2>3. l.listed = Only(Present(d), Visible)
    BY Zenon, <2>1, <2>2 DEF GoodListing, Only
  <2>4. by_id[d] = told[d] /\ told[d] \in Dirs
    BY <2>2 DEF ListingInv, MeaningInv, ToldInv, Means, Opened
  <2>5. exists \cap Visible = exists \ Symlinks
    BY DEF ListingInv, MeaningInv, TableInv, Visible
  <2>6. PICK list \in Seq(Paths) : list = Entries[told[d]]
    <3>1. Entries[told[d]] \in Seq(Paths \ {Root})
      BY <2>4, FsAssumption
    <3> QED
      BY <3>1
  <2>7. Only(Only(list, exists), Visible) = Only(list, exists \cap Visible)
    BY OnlyTwice
  <2>8. Present(d) = Only(list, exists)
    BY Zenon, <2>4, <2>6 DEF Present
  <2> QED
    BY Zenon, <2>1, <2>3, <2>5, <2>6, <2>7, <2>8
<1> QED
  BY <1>1, ListingInit, ListingNext, PTL DEF Spec
=============================================================================
