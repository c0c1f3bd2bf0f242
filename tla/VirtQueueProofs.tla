--------------------------- MODULE VirtQueueProofs --------------------------
(***************************************************************************)
(* Proofs about VirtQueue for every queue size: the rings never overflow,  *)
(* no check of pop fires, and the rings implement RequestChannel.          *)
(*                                                                         *)
(* The argument is that a head is in one place at a time.  Heads waiting   *)
(* in the available ring, heads in flight and heads answered but not       *)
(* collected are different, and each has a chain; a head with no chain,    *)
(* or one in flight, therefore leaves room in the ring it goes to.         *)
(***************************************************************************)
EXTENDS VirtQueue, TLAPS

Indices == 0..(IdxMod - 1)

-----------------------------------------------------------------------------
(* The wrapping indices.                                                   *)

\* A remainder is what it is said to be.
LEMMA ModIs ==
  ASSUME NEW N \in Nat \ {0}, NEW q \in Int, NEW r \in 0..(N - 1)
  PROVE  (q * N + r) % N = r
OBVIOUS

\* A remainder and its quotient.
LEMMA ModDef ==
  ASSUME NEW N \in Nat \ {0}, NEW i \in Int
  PROVE  \E q \in Int : i % N \in 0..(N - 1) /\ i = q * N + (i % N)
<1>1. i \div N \in Int /\ i % N \in 0..(N - 1) /\ i = (i \div N) * N + (i % N)
  OBVIOUS
<1> QED
  BY Zenon, <1>1

\* An index goes round at the modulus.
LEMMA IncIs ==
  ASSUME NEW i \in Indices
  PROVE  Inc(i) = (IF i = IdxMod - 1 THEN 0 ELSE i + 1) /\ Inc(i) \in Indices
BY SizeAssumption DEF Inc, Indices

\* wrapping_sub of two indices.
LEMMA DiffIs ==
  ASSUME NEW i \in Indices, NEW j \in Indices
  PROVE  Diff(i, j) = (IF i >= j THEN i - j ELSE i - j + IdxMod) /\ Diff(i, j) \in Indices
BY SizeAssumption DEF Diff, Indices

\* wrapping_sub follows an advance of either index, short of a whole round.
LEMMA DiffInc ==
  ASSUME NEW i \in Indices, NEW j \in Indices
  PROVE  /\ Diff(i, j) = 0 <=> i = j
         /\ Diff(i, j) < IdxMod - 1 => Diff(Inc(i), j) = Diff(i, j) + 1
         /\ Diff(i, j) > 0 => Diff(i, Inc(j)) = Diff(i, j) - 1
<1>1. /\ IdxMod \in Nat /\ IdxMod >= 2
      /\ Inc(i) = (IF i = IdxMod - 1 THEN 0 ELSE i + 1) /\ Inc(i) \in Indices
      /\ Inc(j) = (IF j = IdxMod - 1 THEN 0 ELSE j + 1) /\ Inc(j) \in Indices
      /\ Diff(i, j) = IF i >= j THEN i - j ELSE i - j + IdxMod
      /\ Diff(Inc(i), j) = IF Inc(i) >= j THEN Inc(i) - j ELSE Inc(i) - j + IdxMod
      /\ Diff(i, Inc(j)) = IF i >= Inc(j) THEN i - Inc(j) ELSE i - Inc(j) + IdxMod
  BY SizeAssumption, IncIs, DiffIs
<1>4. /\ Diff(i, j) = 0 <=> i = j
      /\ Diff(i, j) < IdxMod - 1 => Diff(Inc(i), j) = Diff(i, j) + 1
      /\ Diff(i, j) > 0 => Diff(i, Inc(j)) = Diff(i, j) - 1
  BY <1>1 DEF Indices
<1> QED
  BY <1>4

\* The slot p places after slot s.
At(s, p) == IF s + p < QSize THEN s + p ELSE s + p - QSize

\* Places in a ring are different slots, and the next start shifts them by one.
LEMMA AtFacts ==
  ASSUME NEW s \in Index
  PROVE  /\ \A p \in 0..QSize : At(s, p) \in Index
         /\ \A p, r \in 0..QSize - 1 : At(s, p) = At(s, r) => p = r
         /\ At(s, 0) = s
         /\ \A p \in 0..QSize - 1 : At(At(s, 1), p) = At(s, p + 1)
BY SizeAssumption DEF At, Index

\* The slot goes round at the size.
LEMMA SlotAdd ==
  ASSUME NEW i \in Nat, NEW d \in 0..QSize
  PROVE  Slot(i) \in Index /\ Slot(i + d) = At(Slot(i), d)
<1>0. QSize \in Nat \ {0} /\ i \in Int /\ d \in Int
  BY SizeAssumption
<1>1. PICK q \in Int : Slot(i) \in 0..(QSize - 1) /\ i = q * QSize + Slot(i)
  <2>1. \E q \in Int : i % QSize \in 0..(QSize - 1) /\ i = q * QSize + (i % QSize)
    BY Zenon, <1>0, ModDef
  <2> QED
    BY <2>1 DEF Slot
<1>2. PICK r \in 0..(QSize - 1) : r = At(Slot(i), d)
  BY <1>0, <1>1 DEF At
<1>3. PICK a \in Int : a = IF Slot(i) + d < QSize THEN q ELSE q + 1
  BY <1>1
<1>4. i + d = a * QSize + r
  BY <1>0, <1>1, <1>2, <1>3 DEF At
<1>5. /\ (a * QSize + r) % QSize = r
      /\ Slot(i + d) = (i + d) % QSize
  BY <1>0 DEF Slot
<1> QED
  BY <1>1, <1>2, <1>4, <1>5 DEF Index

\* Going round at the modulus is not seen, since the size divides it.
LEMMA SlotWrap ==
  ASSUME NEW i \in Nat
  PROVE  Slot(i + IdxMod) = Slot(i)
<1>0. QSize \in Nat \ {0} /\ i \in Int /\ IdxMod \in Int
  BY SizeAssumption
<1>1. PICK q \in Int : i % QSize \in 0..(QSize - 1) /\ i = q * QSize + (i % QSize)
  BY Zenon, <1>0, ModDef
<1>2. PICK k \in Int : IdxMod = k * QSize
  <2>1. PICK k \in Int : IdxMod = k * QSize + (IdxMod % QSize)
    BY Zenon, <1>0, ModDef
  <2>2. /\ k * QSize \in Int
        /\ IdxMod % QSize = 0
        /\ IdxMod = k * QSize + 0
    BY SizeAssumption, <2>1
  <2> QED
    BY <2>2
<1>3. PICK r \in 0..(QSize - 1) : r = i % QSize
  BY <1>1
<1>4. PICK a \in Int : a = q + k
  OBVIOUS
<1>5. i + IdxMod = a * QSize + r
  BY <1>0, <1>1, <1>2, <1>3, <1>4
<1>6. (a * QSize + r) % QSize = r
  BY <1>0
<1> QED
  BY <1>3, <1>5, <1>6 DEF Slot

\* The slots of two indices are as far apart as the indices.
LEMMA SlotDiff ==
  ASSUME NEW i \in Indices, NEW j \in Indices, Diff(i, j) \in 0..QSize
  PROVE  Slot(i) = At(Slot(j), Diff(i, j))
<1>0. /\ i \in Nat /\ j \in Nat /\ IdxMod \in Nat
      /\ Slot(j + Diff(i, j)) = At(Slot(j), Diff(i, j))
  BY SizeAssumption, SlotAdd DEF Indices
<1>2. j + Diff(i, j) = IF i >= j THEN i ELSE i + IdxMod
  BY <1>0, DiffIs
<1> QED
  BY <1>0, <1>2, SlotWrap

\* Advancing an index advances its slot.
LEMMA SlotInc ==
  ASSUME NEW i \in Indices
  PROVE  Slot(i) \in Index /\ Slot(Inc(i)) = At(Slot(i), 1)
<1>0. /\ i \in Nat /\ IdxMod \in Nat /\ 0 \in Nat /\ 1 \in 0..QSize
      /\ Slot(i) \in Index /\ Slot(i + 1) = At(Slot(i), 1)
      /\ Slot(0 + IdxMod) = Slot(0)
      /\ i = IdxMod - 1 => i + 1 = 0 + IdxMod
  BY SizeAssumption, SlotAdd, SlotWrap DEF Indices
<1> QED
  BY <1>0, IncIs

-----------------------------------------------------------------------------
(* The inductive invariant.                                                *)

\* The head p places into the available ring, and how many are written there,
\* the one whose index is not stored yet included.
Posted(p) == availRing[At(Slot(last_available), p)]
Count == Diff(availIdx, last_available)
Waiting == IF publishing THEN Count + 1 ELSE Count

\* The head u places into the answers the driver has not collected.
Answered(u) == usedRing[At(Slot(usedSeen), u)].head
Unread == Diff(usedIdx, usedSeen)

\* The rings are never overfull.
RingInv == Waiting <= QSize /\ Unread <= QSize

\* A head is in one place: waiting, in flight, or answered, and only once.
HeadInv ==
  /\ \A p \in 0..Waiting - 1 : chainOf[Posted(p)] # <<>>
  /\ \A u \in 0..Unread - 1 : chainOf[Answered(u)] # <<>>
  /\ \A c \in inflight : c.descriptors = chainOf[c.head]
  /\ \A p, r \in 0..Waiting - 1 : Posted(p) = Posted(r) => p = r
  /\ \A u, v \in 0..Unread - 1 : Answered(u) = Answered(v) => u = v
  /\ \A p \in 0..Waiting - 1, u \in 0..Unread - 1 : Posted(p) # Answered(u)
  /\ \A p \in 0..Waiting - 1, c \in inflight : Posted(p) # c.head
  /\ \A u \in 0..Unread - 1, c \in inflight : Answered(u) # c.head

\* The table links the descriptors of every outstanding chain.
LinkInv ==
  \A h \in Index : chainOf[h] # <<>> =>
    /\ chainOf[h][1] = h
    /\ \A k \in 1..Len(chainOf[h]) :
         desc[chainOf[h][k]] = IF k = Len(chainOf[h]) THEN End ELSE chainOf[h][k + 1]

\* pop has read a proper prefix of the oldest chain.
WalkInv ==
  /\ pc \in {"head", "chain"} => Count > 0
  /\ pc = "chain" =>
       /\ head = Posted(0)
       /\ Len(walked) < Len(chainOf[head])
       /\ current = chainOf[head][Len(walked) + 1]
       /\ \A k \in 1..Len(walked) : walked[k] = chainOf[head][k]
  /\ pc \in {"idle", "head", "len", "index"} => walked = <<>>

\* complete is writing the answer of a chain in flight into the next slot, or
\* there is none.
AnswerInv ==
  /\ pc # "error" => next_used = usedIdx
  /\ pc \in {"idle", "head", "chain"} => answer = NoAnswer
  /\ pc \in {"len", "index"} =>
       /\ \E c \in inflight : c.head = answer.head
       /\ answer.len \in Lens
       /\ usedRing[Slot(usedIdx)].head = answer.head
  /\ pc = "index" => usedRing[Slot(usedIdx)].len = answer.len

IInv ==
  TypeOK /\ OnlyRevokeFails /\ RingInv /\ HeadInv /\ LinkInv /\ WalkInv /\ AnswerInv

-----------------------------------------------------------------------------
(* Lists, and the types of what the invariant is about.                    *)

\* Sequences with the same elements are equal.
LEMMA SeqEq ==
  ASSUME NEW S, NEW s \in Seq(S), NEW t \in Seq(S), Len(t) = Len(s),
         \A i \in 1..Len(s) : t[i] = s[i]
  PROVE  t = s
<1>1. s \in [1..Len(s) -> S] /\ t \in [1..Len(s) -> S]
  OBVIOUS
<1> QED
  BY <1>1

\* A list is a nonempty sequence of at most MaxChain distinct descriptors.
LEMMA ListFacts ==
  ASSUME NEW s \in Lists
  PROVE  /\ s \in Seq(Index) /\ s # <<>>
         /\ Len(s) \in Nat /\ Len(s) \in 1..MaxChain /\ DOMAIN s = 1..Len(s)
         /\ \A k \in 1..Len(s) : s[k] \in Index
         /\ s[1] \in Index
         /\ \A i, j \in 1..Len(s) : s[i] = s[j] => i = j
<1>1. PICK n \in 1..MaxChain : s \in [1..n -> Index]
  BY DEF Lists
<1>2. /\ \A i, j \in DOMAIN s : s[i] = s[j] => i = j
      /\ n \in Nat /\ n >= 1
      /\ s \in Seq(Index) /\ Len(s) = n /\ DOMAIN s = 1..n
      /\ s # <<>>
  BY <1>1 DEF Lists
<1> QED
  BY <1>2

\* A short sequence of distinct descriptors is a list.
LEMMA ListIntro ==
  ASSUME NEW s \in Seq(Index), Len(s) \in 1..MaxChain,
         \A i, j \in 1..Len(s) : s[i] = s[j] => i = j
  PROVE  s \in Lists
<1>1. s \in [1..Len(s) -> Index] /\ DOMAIN s = 1..Len(s)
  OBVIOUS
<1> QED
  BY DEF Lists

\* The check that a descriptor lies in the table passes for one that does.
LEMMA BelowSize ==
  ASSUME NEW i \in Index
  PROVE  ~(i >= QSize)
BY SizeAssumption DEF Index

\* A place that is not the last has one after it.
LEMMA NextPlace ==
  ASSUME NEW n \in Nat, NEW k \in 1..n, k # n
  PROVE  k + 1 \in 1..n
OBVIOUS

\* The indices, counts, slots and heads have their types.
LEMMA Bounds ==
  ASSUME IInv
  PROVE  /\ QSize \in Nat /\ QSize >= 1 /\ IdxMod \in Nat /\ IdxMod >= QSize + QSize
         /\ availIdx \in Indices /\ usedIdx \in Indices /\ usedSeen \in Indices
         /\ last_available \in Indices /\ next_used \in Indices
         /\ Count \in 0..QSize /\ Waiting \in 0..QSize /\ Unread \in 0..QSize
         /\ Count <= Waiting
         /\ Slot(availIdx) \in Index /\ Slot(usedIdx) \in Index
         /\ Slot(usedSeen) \in Index /\ Slot(last_available) \in Index
         /\ \A p \in 0..QSize - 1 : Posted(p) \in Index
         /\ \A u \in 0..QSize - 1 : Answered(u) \in Index
<1>1. /\ QSize \in Nat /\ QSize >= 1 /\ IdxMod \in Nat /\ IdxMod >= QSize + QSize
      /\ availIdx \in Indices /\ usedIdx \in Indices /\ usedSeen \in Indices
      /\ last_available \in Indices /\ next_used \in Indices
      /\ Count \in Indices /\ Unread \in Indices
  BY SizeAssumption, DiffIs DEF IInv, TypeOK, Indices, Count, Unread
<1>4. /\ Count \in 0..QSize /\ Waiting \in 0..QSize /\ Unread \in 0..QSize
      /\ Count <= Waiting
      /\ Slot(availIdx) \in Index /\ Slot(usedIdx) \in Index
      /\ Slot(usedSeen) \in Index /\ Slot(last_available) \in Index
      /\ \A p \in 0..QSize - 1 : p \in 0..QSize
      /\ \A p \in 0..QSize - 1 : Posted(p) \in Index
      /\ \A u \in 0..QSize - 1 : Answered(u) \in Index
  BY <1>1, SlotInc, AtFacts DEF IInv, TypeOK, RingInv, Waiting, Indices, Posted, Answered
<1> QED
  BY <1>1, <1>4

\* The heads waiting, answered and in flight are descriptors.
LEMMA HeadTypes ==
  ASSUME IInv
  PROVE  /\ \A p \in 0..Waiting - 1 : Posted(p) \in Index
         /\ \A u \in 0..Unread - 1 : Answered(u) \in Index
         /\ \A c \in inflight : c.head \in Index
<1>1. /\ \A p \in 0..Waiting - 1 : p \in 0..QSize - 1
      /\ \A u \in 0..Unread - 1 : u \in 0..QSize - 1
  BY Bounds
<1>2. \A c \in inflight : c.head \in Index
  BY ListFacts DEF IInv, TypeOK, Chains
<1> QED
  BY <1>2, Bounds

\* A head in flight has a chain.
LEMMA InflightChain ==
  ASSUME IInv, NEW c \in inflight
  PROVE  c.head \in Index /\ chainOf[c.head] # <<>>
<1>1. PICK s \in Lists : c = [head |-> s[1], descriptors |-> s]
  BY Zenon DEF IInv, TypeOK, Chains
<1>2. c.descriptors = s /\ s # <<>>
  BY Zenon, <1>1, ListFacts
<1>3. c.descriptors = chainOf[c.head] /\ c.head \in Index
  BY Zenon, HeadTypes DEF IInv, HeadInv
<1> QED
  BY Zenon, <1>2, <1>3

\* There is room for the answer of a chain in flight, and for a head that has
\* no chain.  It follows from the invariant by counting, RoomHolds below.
Room ==
  /\ inflight # {} => Unread < QSize
  /\ \A h \in Index : chainOf[h] = <<>> => Waiting < QSize

\* While a chain is in flight the used ring has a slot for its answer, and a
\* write to that slot changes no answer the driver has not collected.
LEMMA RoomForAnswer ==
  ASSUME IInv, Room, inflight # {}
  PROVE  /\ Unread < QSize
         /\ Slot(usedIdx) = At(Slot(usedSeen), Unread)
         /\ \A u \in 0..Unread - 1 : At(Slot(usedSeen), u) \in Index \ {Slot(usedIdx)}
<1>2. Unread < QSize
  BY DEF Room
<1>3. Slot(usedIdx) = At(Slot(usedSeen), Unread)
  BY Bounds, SlotDiff DEF Unread
<1>4. ASSUME NEW u \in 0..Unread - 1
      PROVE  At(Slot(usedSeen), u) \in Index \ {Slot(usedIdx)}
  <2>1. /\ u \in 0..QSize - 1 /\ u \in 0..QSize /\ Unread \in 0..QSize - 1 /\ u # Unread
        /\ Slot(usedSeen) \in Index
    BY <1>2, Bounds
  <2> QED
    BY <1>3, <2>1, AtFacts
<1> QED
  BY <1>2, <1>3, <1>4

-----------------------------------------------------------------------------
(* The invariant holds at first and is kept by every action.               *)

\* The empty rings satisfy the invariant.
LEMMA InitInv == Init => IInv
<1> SUFFICES ASSUME Init PROVE IInv
  OBVIOUS
<1>0. QSize \in Nat \ {0} /\ IdxMod \in Nat /\ IdxMod >= 2 /\ 0 \in Indices /\ 0 \in Index
  BY SizeAssumption DEF Indices, Index
<1>1. /\ desc \in [Index -> Index \cup {End}]
      /\ availRing \in [Index -> Index]
      /\ answer \in [head : Index \cup {End}, len : Lens \cup {0}]
      /\ usedRing \in [Index -> [head : Index, len : Lens \cup {0}]]
  BY <1>0 DEF Init, NoAnswer
<1>2. chainOf \in [Index -> Lists \cup {<<>>}] /\ \A h \in Index : chainOf[h] = <<>>
  BY Zenon DEF Init
<1>3. TypeOK
  BY Zenon, <1>0, <1>1, <1>2 DEF Init, TypeOK, Indices
<1>4. Count = 0 /\ Waiting = 0 /\ Unread = 0
  BY <1>0, DiffIs DEF Init, Count, Waiting, Unread
<1>5. RingInv /\ HeadInv
  BY <1>0, <1>4 DEF Init, RingInv, HeadInv
<1>6. LinkInv
  BY Zenon, <1>2 DEF LinkInv
<1>7. WalkInv /\ AnswerInv /\ OnlyRevokeFails
  BY Zenon DEF Init, WalkInv, AnswerInv, OnlyRevokeFails
<1> QED
  BY <1>3, <1>5, <1>6, <1>7 DEF IInv

\* A step that writes no ring, moves no index and takes no chain.
Quiet ==
  UNCHANGED <<desc, availRing, availIdx, usedRing, usedIdx, chainOf, publishing, usedSeen,
              last_available, inflight>>

\* Such a step keeps the parts of the invariant about rings and chains.
LEMMA QuietStep ==
  ASSUME IInv, Quiet
  PROVE  /\ RingInv' /\ HeadInv' /\ LinkInv'
         /\ Count' = Count
         /\ \A p \in 0..QSize - 1 : Posted(p)' = Posted(p)
<1>1. /\ Count' = Count /\ Waiting' = Waiting /\ Unread' = Unread
      /\ \A p : Posted(p)' = Posted(p)
      /\ \A u : Answered(u)' = Answered(u)
      /\ RingInv'
      /\ HeadInv'
      /\ LinkInv'
  BY DEF Quiet, Count, Waiting, Unread, Posted, Answered, IInv, RingInv, HeadInv, LinkInv
<1> QED
  BY <1>1

\* A step that changes nothing keeps the invariant.
LEMMA StutterKeeps == IInv /\ UNCHANGED vars => IInv'
BY DEF IInv, vars, guest, driver, device, TypeOK, OnlyRevokeFails, RingInv, HeadInv, LinkInv,
   WalkInv, AnswerInv, Waiting, Count, Unread, Posted, Answered

\* stop() may revoke at any moment.
LEMMA RevokeKeeps == IInv /\ Revoke => IInv'
<1> SUFFICES ASSUME IInv, Revoke PROVE IInv'
  OBVIOUS
<1>1. /\ Quiet
      /\ RingInv' /\ HeadInv' /\ LinkInv' /\ Count' = Count
      /\ TypeOK' /\ OnlyRevokeFails'
      /\ WalkInv'
      /\ AnswerInv'
  BY ZenonT(30), QuietStep DEF Revoke, guest, driver, device, Quiet, IInv, TypeOK, OnlyRevokeFails,
     WalkInv, Posted, AnswerInv
<1> QED
  BY <1>1 DEF IInv

\* The index check of pop passes: no more chains wait than the ring holds.
LEMMA PopIndexKeeps == IInv /\ PopIndex => IInv'
<1> SUFFICES ASSUME IInv, PopIndex PROVE IInv'
  OBVIOUS
<1>1. /\ Quiet
      /\ RingInv' /\ HeadInv' /\ LinkInv' /\ Count' = Count
      /\ Count > 0 /\ Count <= QSize /\ Count \in Nat /\ QSize \in Nat
      /\ pc' = "head"
  BY QuietStep, Bounds, DiffInc DEF PopIndex, guest, driver, Quiet, Count
<1>5. /\ TypeOK' /\ OnlyRevokeFails'
      /\ WalkInv'
      /\ AnswerInv'
  BY Zenon, <1>1 DEF IInv, TypeOK, OnlyRevokeFails, PopIndex, guest, driver, WalkInv, AnswerInv
<1> QED
  BY <1>1, <1>5 DEF IInv

\* The head read from the ring is the oldest chain waiting.
LEMMA PopHeadKeeps == IInv /\ PopHead => IInv'
<1> SUFFICES ASSUME IInv, PopHead PROVE IInv'
  OBVIOUS
<1>1. /\ Quiet
      /\ RingInv' /\ HeadInv' /\ LinkInv' /\ Count' = Count
      /\ \A p \in 0..QSize - 1 : Posted(p)' = Posted(p)
      /\ Count > 0 /\ walked = <<>>
      /\ 0 \in 0..QSize - 1 /\ 0 \in 0..Waiting - 1
  BY QuietStep, Bounds DEF PopHead, guest, driver, Quiet, IInv, WalkInv
<1>5. head' = Posted(0) /\ head' \in Index /\ head' < QSize
  <2>1. head' = Posted(0)
    BY Zenon, Bounds, AtFacts DEF Posted, PopHead
  <2>2. Posted(0) \in Index
    BY Bounds
  <2> QED
    BY <2>1, <2>2, SizeAssumption DEF Index
<1>6. pc' = "chain"
  BY <1>5, SizeAssumption DEF PopHead, Index
<1>7. chainOf[head'] # <<>> /\ chainOf[head'] \in Lists /\ chainOf[head'][1] = head'
  <2>1. chainOf[head'] # <<>>
    BY Zenon, <1>1, <1>5 DEF IInv, HeadInv
  <2>2. chainOf[head'] \in Lists \cup {<<>>}
    BY Zenon, <1>5 DEF IInv, TypeOK
  <2> QED
    BY Zenon, <1>5, <2>1, <2>2 DEF IInv, LinkInv
<1>8. TypeOK' /\ OnlyRevokeFails' /\ AnswerInv'
  BY Zenon, <1>5, <1>6 DEF IInv, TypeOK, PopHead, OnlyRevokeFails, guest, driver, AnswerInv
<1>9. WalkInv'
  <2>1. Len(<<>>) = 0 /\ Len(chainOf[head']) \in Nat /\ Len(chainOf[head']) > 0
    BY <1>7, ListFacts
  <2>2. /\ walked' = <<>> /\ current' = head' /\ chainOf' = chainOf
        /\ head' = Posted(0)' /\ Count' > 0
    BY <1>1, <1>5 DEF PopHead, driver
  <2> QED
    BY <1>6, <1>7, <2>1, <2>2 DEF WalkInv
<1> QED
  BY <1>1, <1>8, <1>9 DEF IInv

\* After a refused lease the rings are as they were.
LEMMA LeaseFailsKeeps == IInv /\ LeaseFails => IInv'
<1> SUFFICES ASSUME IInv, LeaseFails PROVE IInv'
  OBVIOUS
<1>1. /\ Quiet
      /\ RingInv' /\ HeadInv' /\ LinkInv'
      /\ pc' = "error" /\ revoked'
  BY QuietStep DEF LeaseFails, guest, driver, Quiet
<1>4. TypeOK' /\ OnlyRevokeFails'
  <2>1. next_used' \in Indices
    BY Bounds, IncIs DEF LeaseFails
  <2> QED
    BY Zenon, <2>1 DEF IInv, TypeOK, OnlyRevokeFails, LeaseFails, guest, driver, Indices
<1>5. WalkInv' /\ AnswerInv'
  BY <1>1 DEF WalkInv, AnswerInv
<1> QED
  BY <1>1, <1>4, <1>5 DEF IInv

\* Storing the available index counts the chain written before.
Published ==
  /\ publishing /\ publishing' = FALSE /\ availIdx' = Inc(availIdx)
  /\ UNCHANGED <<desc, availRing, usedRing, usedIdx, chainOf, usedSeen, last_available,
                 next_used, pc, head, current, walked, answer, inflight, revoked>>
  /\ Count < QSize /\ Waiting = Count + 1
  /\ Count' = Count + 1 /\ Waiting' = Waiting /\ Unread' = Unread

\* The step has these effects.
LEMMA PublishStep ==
  ASSUME IInv, DriverPublish
  PROVE  Published
<1>1. /\ publishing /\ publishing' = FALSE /\ availIdx' = Inc(availIdx)
      /\ UNCHANGED <<desc, availRing, usedRing, usedIdx, chainOf, usedSeen, last_available,
                     next_used, pc, head, current, walked, answer, inflight, revoked>>
      /\ Count < QSize /\ Count < IdxMod - 1 /\ Waiting = Count + 1
      /\ Count' = Count + 1 /\ Waiting' = Waiting /\ Unread' = Unread
  BY Bounds, DiffInc DEF DriverPublish, device, Waiting, Count, Unread
<1> QED
  BY Zenon, <1>1 DEF Published

\* Publishing keeps the invariant.
LEMMA DriverPublishKeeps == IInv /\ DriverPublish => IInv'
<1> SUFFICES ASSUME IInv, DriverPublish PROVE IInv'
  OBVIOUS
<1>0. Published
  BY PublishStep
<1>4. /\ \A p : Posted(p)' = Posted(p)
      /\ \A u : Answered(u)' = Answered(u)
      /\ availIdx' \in Indices
  BY Zenon, <1>0, Bounds, IncIs DEF Posted, Answered, Published
<1>7. TypeOK' /\ OnlyRevokeFails'
  BY ZenonT(30), <1>0, <1>4 DEF IInv, TypeOK, OnlyRevokeFails, Indices, Published
<1>8. RingInv'
  BY Zenon, <1>0 DEF IInv, RingInv, Published
<1>9. HeadInv'
  <2>1. /\ HeadInv
        /\ Waiting' = Waiting /\ Unread' = Unread /\ UNCHANGED <<chainOf, inflight>>
    BY ZenonT(30), <1>0 DEF IInv, Published
  <2> QED
    BY Zenon, <1>4, <2>1 DEF HeadInv
<1>10. LinkInv'
  BY <1>0 DEF IInv, LinkInv, Published
<1>11. WalkInv'
  <2>1. Count \in Nat /\ Count' = Count + 1
    BY Bounds, <1>0 DEF Published
  <2>2. Count' > 0
    BY <2>1
  <2> QED
    BY Zenon, <1>0, <1>4, <2>2 DEF IInv, WalkInv, Published
<1>12. AnswerInv'
  BY Zenon, <1>0 DEF IInv, AnswerInv, Published
<1> QED
  BY <1>7, <1>8, <1>9, <1>10, <1>11, <1>12 DEF IInv

\* Collecting frees the oldest answered head and moves the others up.
Collected ==
  /\ usedSeen' = Inc(usedSeen)
  /\ UNCHANGED <<desc, availRing, availIdx, usedRing, usedIdx, publishing, last_available,
                 next_used, pc, head, current, walked, answer, inflight, revoked>>
  /\ Unread > 0 /\ Unread \in Nat
  /\ Unread' = Unread - 1 /\ Waiting' = Waiting /\ Count' = Count
  /\ Answered(0) \in Index /\ 0 \in 0..Unread - 1
  /\ chainOf' = [chainOf EXCEPT ![Answered(0)] = <<>>]
  /\ chainOf \in [Index -> Lists \cup {<<>>}]
  /\ \A p : Posted(p)' = Posted(p)
  /\ \A u \in 0..Unread' - 1 :
       /\ At(Slot(usedSeen'), u) = At(Slot(usedSeen), u + 1)
       /\ Answered(u)' = Answered(u + 1) /\ u + 1 \in 0..Unread - 1

\* The step has these effects.
LEMMA CollectStep ==
  ASSUME IInv, DriverCollect
  PROVE  Collected
<1>1. /\ usedSeen # usedIdx /\ usedSeen' = Inc(usedSeen)
      /\ UNCHANGED <<desc, availRing, availIdx, usedRing, usedIdx, publishing, last_available,
                     next_used, pc, head, current, walked, answer, inflight, revoked>>
      /\ Unread > 0 /\ Unread \in Nat
      /\ Unread' = Unread - 1 /\ Waiting' = Waiting /\ Count' = Count
  BY Bounds, DiffInc DEF DriverCollect, guest, device, Unread, Waiting, Count
<1>4. /\ Answered(0) \in Index /\ 0 \in 0..Unread - 1
      /\ chainOf' = [chainOf EXCEPT ![Answered(0)] = <<>>]
  <2>1. /\ 0 \in 0..Unread - 1 /\ 0 \in 0..QSize - 1
        /\ Answered(0) \in Index
    BY <1>1, Bounds
  <2>2. Answered(0) = usedRing[Slot(usedSeen)].head
    BY Zenon, Bounds, AtFacts DEF Answered
  <2> QED
    BY Zenon, <2>1, <2>2 DEF DriverCollect
<1>5. /\ chainOf \in [Index -> Lists \cup {<<>>}]
      /\ \A p : Posted(p)' = Posted(p)
  BY Zenon, <1>1 DEF IInv, TypeOK, Posted
<1>9. \A u \in 0..Unread' - 1 :
        /\ At(Slot(usedSeen'), u) = At(Slot(usedSeen), u + 1)
        /\ Answered(u)' = Answered(u + 1) /\ u + 1 \in 0..Unread - 1
  <2> SUFFICES ASSUME NEW u \in 0..Unread' - 1
               PROVE  /\ At(Slot(usedSeen'), u) = At(Slot(usedSeen), u + 1)
                      /\ Answered(u)' = Answered(u + 1) /\ u + 1 \in 0..Unread - 1
    OBVIOUS
  <2>1. u \in 0..QSize - 1 /\ u + 1 \in 0..Unread - 1
    BY <1>1, Bounds
  <2>2. At(Slot(usedSeen'), u) = At(Slot(usedSeen), u + 1)
    BY <1>1, Bounds, SlotInc, AtFacts
  <2> QED
    BY <1>1, <2>2 DEF Answered
<1> QED
  BY Zenon, <1>1, <1>4, <1>5, <1>9 DEF Collected

\* Collecting keeps the invariant: the freed head is nowhere else.
LEMMA DriverCollectKeeps == IInv /\ DriverCollect => IInv'
<1> SUFFICES ASSUME IInv, DriverCollect PROVE IInv'
  OBVIOUS
<1>0. Collected
  BY CollectStep
<1> DEFINE f == Answered(0)
<1> HIDE DEF f
<1>10. TypeOK' /\ OnlyRevokeFails'
  <2>1. /\ usedSeen' \in Indices
        /\ chainOf' \in [Index -> Lists \cup {<<>>}]
    BY Zenon, <1>0, Bounds, IncIs DEF Collected
  <2> QED
    BY <1>0, <2>1 DEF IInv, TypeOK, OnlyRevokeFails, Indices, Collected
<1>11. RingInv'
  <2>1. /\ RingInv /\ Unread' = Unread - 1 /\ Waiting' = Waiting
        /\ Unread \in 0..QSize /\ QSize \in Nat
    BY Zenon, <1>0, Bounds DEF IInv, Collected
  <2> QED
    BY <2>1 DEF RingInv
<1>12. /\ HeadInv'
       /\ LinkInv'
  BY <1>0 DEF IInv, HeadInv, LinkInv, Collected
<1>14. WalkInv'
  <2>1. ASSUME pc = "chain" PROVE head # f /\ head \in Index
    <3>1. /\ head = Posted(0) /\ Count > 0
          /\ 0 \in 0..Waiting - 1
      BY <2>1, Bounds DEF IInv, WalkInv
    <3> QED
      BY Zenon, <1>0, <3>1 DEF IInv, HeadInv, TypeOK, f, Collected
  <2>2. pc = "chain" => chainOf'[head] = chainOf[head]
    BY Zenon, <1>0, <2>1 DEF f, Collected
  <2> QED
    BY Zenon, <1>0, <2>2 DEF IInv, WalkInv, Collected
<1>15. AnswerInv'
  BY Zenon, <1>0 DEF IInv, AnswerInv, Collected
<1> QED
  BY Zenon, <1>10, <1>11, <1>12, <1>14, <1>15 DEF IInv

\* The id goes into a slot that holds no uncollected answer.
LEMMA CompleteIdKeeps == IInv /\ Room /\ CompleteId => IInv'
<1> SUFFICES ASSUME IInv, Room, CompleteId PROVE IInv'
  OBVIOUS
<1>0. TypeOK /\ RingInv /\ next_used = usedIdx /\ pc = "idle" /\ pc' = "len"
  BY DEF IInv, AnswerInv, CompleteId
<1>1. PICK c \in inflight, len \in Lens :
        /\ answer' = [head |-> c.head, len |-> len]
        /\ usedRing' = [usedRing EXCEPT ![Slot(usedIdx)].head = c.head]
  BY Zenon, <1>0 DEF CompleteId
<1>2. /\ UNCHANGED <<desc, availRing, availIdx, usedIdx, chainOf, publishing, usedSeen,
                     last_available, next_used, head, current, walked, inflight, revoked>>
      /\ c.head \in Index
      /\ Slot(usedIdx) \in Index
      /\ usedRing \in [Index -> [head : Index, len : Lens \cup {0}]]
  BY Zenon, <1>0, HeadTypes, Bounds DEF CompleteId, driver, TypeOK
<1>4. /\ usedRing' \in [Index -> [head : Index, len : Lens \cup {0}]]
      /\ usedRing'[Slot(usedIdx)].head = c.head
      /\ \A i \in Index \ {Slot(usedIdx)} : usedRing'[i] = usedRing[i]
      /\ Count' = Count /\ Waiting' = Waiting /\ Unread' = Unread
      /\ \A p : Posted(p)' = Posted(p)
      /\ \A u \in 0..Unread - 1 : Answered(u)' = Answered(u)
      /\ RingInv'
  BY <1>1, <1>2, RoomForAnswer, <1>0 DEF Count, Waiting, Unread, Posted, Answered, RingInv
<1>5. TypeOK' /\ OnlyRevokeFails'
  BY Zenon, <1>0, <1>1, <1>2, <1>4 DEF TypeOK, OnlyRevokeFails
<1>6. HeadInv'
  BY <1>2, <1>4 DEF IInv, HeadInv
<1>11. /\ LinkInv'
       /\ WalkInv'
       /\ AnswerInv'
  BY <1>2, <1>0, <1>1 DEF IInv, LinkInv, WalkInv, AnswerInv
<1> QED
  BY <1>4, <1>5, <1>6, <1>11 DEF IInv

\* So does the length.
LEMMA CompleteLenKeeps == IInv /\ Room /\ CompleteLen => IInv'
<1> SUFFICES ASSUME IInv, Room, CompleteLen PROVE IInv'
  OBVIOUS
<1>0. /\ TypeOK /\ RingInv /\ next_used = usedIdx /\ pc = "len" /\ pc' = "index"
      /\ inflight # {}
      /\ usedRing' = [usedRing EXCEPT ![Slot(usedIdx)].len = answer.len]
      /\ UNCHANGED <<desc, availRing, availIdx, usedIdx, chainOf, publishing, usedSeen, answer,
                     last_available, next_used, head, current, walked, inflight, revoked>>
  BY DEF IInv, AnswerInv, CompleteLen, driver
<1>3. /\ answer.len \in Lens \cup {0}
      /\ Slot(usedIdx) \in Index
      /\ usedRing \in [Index -> [head : Index, len : Lens \cup {0}]]
  BY Zenon, <1>0, Bounds DEF TypeOK
<1>4. /\ usedRing' \in [Index -> [head : Index, len : Lens \cup {0}]]
      /\ usedRing'[Slot(usedIdx)].head = usedRing[Slot(usedIdx)].head
      /\ usedRing'[Slot(usedIdx)].len = answer.len
      /\ \A i \in Index \ {Slot(usedIdx)} : usedRing'[i] = usedRing[i]
      /\ Count' = Count /\ Waiting' = Waiting /\ Unread' = Unread
      /\ \A p : Posted(p)' = Posted(p)
      /\ \A u \in 0..Unread - 1 : Answered(u)' = Answered(u)
      /\ TypeOK' /\ OnlyRevokeFails'
      /\ RingInv'
  BY <1>0, <1>3 DEF Count, Waiting, Unread, Posted, Answered, TypeOK, OnlyRevokeFails, RingInv
<1>10. /\ HeadInv'
       /\ LinkInv'
       /\ WalkInv'
       /\ AnswerInv'
  BY <1>0, <1>4 DEF IInv, HeadInv, LinkInv, WalkInv, AnswerInv
<1> QED
  BY <1>4, <1>10 DEF IInv

\* Storing the used index counts the element just written.
IndexStored ==
  /\ TypeOK /\ RingInv /\ next_used = usedIdx /\ pc = "index" /\ pc' = "idle"
  /\ usedRing[Slot(usedIdx)].head = answer.head
  /\ usedIdx' = Inc(usedIdx) /\ next_used' = Inc(usedIdx)
  /\ inflight' = {c \in inflight : c.head # answer.head}
  /\ answer' = NoAnswer
  /\ UNCHANGED <<desc, availRing, availIdx, usedRing, chainOf, publishing, usedSeen,
                 last_available, head, current, walked, revoked>>
  /\ \E d \in inflight : d.head = answer.head
  /\ Unread < QSize /\ Unread \in Nat /\ Slot(usedIdx) = At(Slot(usedSeen), Unread)
  /\ Count' = Count /\ Waiting' = Waiting /\ Unread' = Unread + 1

\* The step has these effects.
LEMMA IndexStep ==
  ASSUME IInv, Room, CompleteIndex
  PROVE  IndexStored
<1>0. /\ TypeOK /\ RingInv /\ next_used = usedIdx /\ pc = "index" /\ pc' = "idle"
      /\ usedRing[Slot(usedIdx)].head = answer.head
      /\ usedIdx' = Inc(usedIdx) /\ next_used' = Inc(usedIdx)
      /\ inflight' = {c \in inflight : c.head # answer.head}
      /\ answer' = NoAnswer
      /\ UNCHANGED <<desc, availRing, availIdx, usedRing, chainOf, publishing, usedSeen,
                     last_available, head, current, walked, revoked>>
  BY DEF IInv, AnswerInv, CompleteIndex, driver
<1>2. PICK d \in inflight : d.head = answer.head
  BY Zenon, <1>0 DEF IInv, AnswerInv
<1>3. /\ Unread < QSize /\ Unread \in Nat /\ Slot(usedIdx) = At(Slot(usedSeen), Unread)
      /\ Count' = Count /\ Waiting' = Waiting /\ Unread' = Unread + 1
  BY <1>0, RoomForAnswer, Bounds, DiffInc DEF Unread, Count, Waiting
<1> QED
  BY Zenon, <1>0, <1>2, <1>3 DEF IndexStored

\* The head moves from those in flight to those answered.
LEMMA CompleteIndexKeeps == IInv /\ Room /\ CompleteIndex => IInv'
<1> SUFFICES ASSUME IInv, Room, CompleteIndex PROVE IInv'
  OBVIOUS
<1>0. IndexStored
  BY IndexStep
<1>2. PICK d \in inflight : d.head = answer.head
  BY Zenon, <1>0 DEF IndexStored
<1>5. /\ \A p : Posted(p)' = Posted(p)
      /\ \A u : Answered(u)' = Answered(u)
      /\ Answered(Unread) = d.head
  BY Zenon, <1>0, <1>2 DEF Posted, Answered, IndexStored
<1>8. TypeOK' /\ OnlyRevokeFails'
  <2>1. /\ usedIdx' \in Indices /\ next_used' \in Indices
        /\ answer' \in [head : Index \cup {End}, len : Lens \cup {0}]
    BY <1>0, Bounds, IncIs DEF NoAnswer, Index, IndexStored
  <2>3. inflight' \subseteq Chains
    BY Zenon, <1>0 DEF TypeOK, IndexStored
  <2> QED
    BY Zenon, <1>0, <2>1 DEF TypeOK, OnlyRevokeFails, Indices, IndexStored
<1>9. RingInv'
  <2>1. /\ RingInv /\ Unread' = Unread + 1 /\ Waiting' = Waiting
        /\ Unread < QSize /\ Unread \in Nat /\ QSize \in Nat
    BY Zenon, <1>0, Bounds DEF IndexStored
  <2> QED
    BY <2>1 DEF RingInv
<1>10. HeadInv'
  <2>0. \A u \in 0..Unread' - 1 : u \in 0..Unread - 1 \/ u = Unread
    BY <1>0 DEF IndexStored
  <2>2. \A u \in 0..Unread' - 1 : u \in 0..Unread - 1 \/ Answered(u) = d.head
    BY Zenon, <1>5, <2>0
  <2>1. \A u \in 0..Unread' - 1 : chainOf[Answered(u)] # <<>>
    <3>1. chainOf[d.head] # <<>>
      BY Zenon, <1>2, InflightChain
    <3>2. \A u \in 0..Unread - 1 : chainOf[Answered(u)] # <<>>
      BY Zenon DEF IInv, HeadInv
    <3> QED
      BY Zenon, <2>2, <3>1, <3>2
  <2>3. \A p \in 0..Waiting - 1, u \in 0..Unread' - 1 : Posted(p) # Answered(u)
    BY Zenon, <1>2, <2>2 DEF IInv, HeadInv
  <2>4. \A u \in 0..Unread' - 1, c \in inflight' : Answered(u) # c.head
    <3>1. \A c \in inflight' : c \in inflight /\ c.head # d.head
      BY Zenon, <1>0, <1>2 DEF IndexStored
    <3>2. \A u \in 0..Unread - 1, c \in inflight : Answered(u) # c.head
      BY Zenon DEF IInv, HeadInv
    <3> QED
      BY Zenon, <2>2, <3>1, <3>2
  <2>5. \A u, v \in 0..Unread' - 1 : Answered(u) = Answered(v) => u = v
    <3>1. \A u \in 0..Unread - 1 : Answered(u) # Answered(Unread)
      BY Zenon, <1>2, <1>5 DEF IInv, HeadInv
    <3>2. \A u, v \in 0..Unread - 1 : Answered(u) = Answered(v) => u = v
      BY Zenon DEF IInv, HeadInv
    <3> QED
      BY Zenon, <2>0, <3>1, <3>2
  <2> QED
    BY ZenonT(30), <1>0, <1>5, <2>1, <2>3, <2>4, <2>5 DEF IInv, HeadInv, IndexStored
<1>11. /\ LinkInv'
       /\ WalkInv'
       /\ AnswerInv'
  BY ZenonT(30), <1>0 DEF IInv, LinkInv, WalkInv, AnswerInv, IndexStored
<1> QED
  BY <1>8, <1>9, <1>10, <1>11 DEF IInv

\* What pop knows of the descriptor it is about to read.
LEMMA Walking ==
  ASSUME IInv, pc = "chain"
  PROVE  /\ head = Posted(0) /\ head \in Index /\ chainOf[head] \in Lists
         /\ Count > 0 /\ 0 \in 0..Waiting - 1
         /\ walked \in Seq(Index) /\ Len(walked) \in Nat /\ current \in Index
         /\ desc[current] = IF Len(walked) + 1 = Len(chainOf[head])
                           THEN End ELSE chainOf[head][Len(walked) + 2]
         /\ Append(walked, current) \in Seq(Index)
         /\ Len(Append(walked, current)) = Len(walked) + 1
         /\ \A k \in 1..Len(walked) + 1 : Append(walked, current)[k] = chainOf[head][k]
<1>1. /\ head = Posted(0) /\ Count > 0
      /\ Len(walked) < Len(chainOf[head])
      /\ current = chainOf[head][Len(walked) + 1]
      /\ \A k \in 1..Len(walked) : walked[k] = chainOf[head][k]
      /\ 0 \in 0..Waiting - 1
  BY Bounds DEF IInv, WalkInv
<1>3. /\ head \in Index /\ current \in Index /\ chainOf[head] # <<>>
      /\ chainOf[head] \in Lists
  <2>1. head \in Index /\ current \in Index /\ chainOf[head] \in Lists \cup {<<>>}
    BY Zenon DEF IInv, TypeOK
  <2>2. chainOf[head] # <<>>
    BY Zenon, <1>1 DEF IInv, HeadInv
  <2> QED
    BY Zenon, <2>1, <2>2
<1>5. walked \in Seq(Index) /\ Len(walked) \in Nat
  <2>1. walked \in Lists \/ walked = <<>>
    BY Zenon DEF IInv, TypeOK
  <2>2. CASE walked \in Lists
    BY <2>2, ListFacts
  <2>3. CASE walked = <<>>
    BY <2>3
  <2> QED
    BY <2>1, <2>2, <2>3
<1>6. /\ Len(chainOf[head]) \in Nat /\ Len(walked) + 1 \in 1..Len(chainOf[head])
      /\ desc[current] = IF Len(walked) + 1 = Len(chainOf[head])
                         THEN End ELSE chainOf[head][(Len(walked) + 1) + 1]
      /\ Append(walked, current) \in Seq(Index)
      /\ Len(Append(walked, current)) = Len(walked) + 1
      /\ \A k \in 1..Len(walked) + 1 : Append(walked, current)[k] = chainOf[head][k]
      /\ (Len(walked) + 1) + 1 = Len(walked) + 2
  <2>1. /\ Len(chainOf[head]) \in Nat /\ Len(walked) + 1 \in 1..Len(chainOf[head])
        /\ (Len(walked) + 1) + 1 = Len(walked) + 2
    BY <1>1, <1>3, <1>5, ListFacts
  <2>2. desc[current] = IF Len(walked) + 1 = Len(chainOf[head])
                        THEN End ELSE chainOf[head][(Len(walked) + 1) + 1]
    BY ZenonT(30), <1>1, <1>3, <2>1 DEF IInv, LinkInv
  <2>3. /\ Append(walked, current) \in Seq(Index)
        /\ Len(Append(walked, current)) = Len(walked) + 1
        /\ \A k \in 1..Len(walked) + 1 : Append(walked, current)[k] = chainOf[head][k]
    BY <1>1, <1>3, <1>5
  <2> QED
    BY <2>1, <2>2, <2>3
<1> QED
  BY Zenon, <1>1, <1>3, <1>5, <1>6

\* Following a link: the bound of read_chain is not reached inside a chain.
LEMMA PopNextKeeps == IInv /\ PopChain /\ desc[current] # End => IInv'
<1> SUFFICES ASSUME IInv, PopChain, desc[current] # End PROVE IInv'
  OBVIOUS
<1>0. TypeOK /\ RingInv /\ pc = "chain" /\ next_used = usedIdx
  BY Zenon DEF IInv, PopChain, AnswerInv
<1> DEFINE chain == Append(walked, current)
<1>1. /\ walked' = chain /\ current' = desc[current]
      /\ pc' = IF desc[current] >= QSize \/ Len(chain) = QSize THEN "error" ELSE "chain"
      /\ UNCHANGED <<desc, availRing, availIdx, usedRing, usedIdx, chainOf, publishing, usedSeen,
                     last_available, next_used, head, answer, inflight, revoked>>
      /\ Quiet
      /\ RingInv' /\ HeadInv' /\ LinkInv' /\ Count' = Count
      /\ \A p \in 0..QSize - 1 : Posted(p)' = Posted(p)
  BY QuietStep DEF PopChain, guest, driver, Quiet
<1> HIDE DEF chain
<1>4. /\ chain \in Seq(Index) /\ Len(chain) = Len(walked) + 1 /\ Len(walked) \in Nat
      /\ \A k \in 1..Len(walked) + 1 : chain[k] = chainOf[head][k]
      /\ Len(walked) + 1 # Len(chainOf[head])
      /\ desc[current] = chainOf[head][Len(walked) + 2]
      /\ chainOf[head] \in Lists /\ head \in Index
      /\ Len(chainOf[head]) \in 1..MaxChain /\ MaxChain \in 1..QSize /\ QSize \in Nat
      /\ \A k \in 1..Len(chainOf[head]) : chainOf[head][k] \in Index
      /\ \A i, j \in 1..Len(chainOf[head]) : chainOf[head][i] = chainOf[head][j] => i = j
  BY Zenon, <1>0, Walking, ListFacts, ChainAssumption, SizeAssumption DEF chain
<1>6. /\ Len(walked) < Len(chainOf[head])
      /\ Len(chain) < Len(chainOf[head]) /\ Len(chain) < QSize /\ Len(chain) \in 1..MaxChain
      /\ current' \in Index /\ current' = chainOf[head][Len(chain) + 1]
  <2>1. Len(walked) < Len(chainOf[head])
    BY Zenon, <1>0 DEF IInv, WalkInv
  <2>2. PICK m \in 1..MaxChain, w \in Nat : m = Len(chainOf[head]) /\ w = Len(walked)
    BY Zenon, <1>4
  <2>3. w < m /\ w + 1 # m /\ MaxChain \in 1..QSize /\ QSize \in Nat
    BY Zenon, <1>4, <2>1, <2>2
  <2>4. /\ w + 1 < m /\ w + 1 < QSize /\ w + 1 \in 1..MaxChain
        /\ w + 2 \in 1..m /\ (w + 1) + 1 = w + 2
    BY <2>3
  <2> QED
    BY Zenon, <1>1, <1>4, <2>1, <2>2, <2>4
<1>9. pc' = "chain"
  <2>1. ~(desc[current] >= QSize)
    BY Zenon, <1>1, <1>6, BelowSize
  <2>2. Len(chain) # QSize
    BY <1>4, <1>6
  <2> QED
    BY Zenon, <1>1, <2>1, <2>2
<1>10. chain \in Lists
  <2>1. \A i, j \in 1..Len(chain) : chain[i] = chain[j] => i = j
    <3>1. \A i \in 1..Len(chain) : i \in 1..Len(chainOf[head]) /\ i \in 1..Len(walked) + 1
      BY <1>4, <1>6
    <3>2. \A i \in 1..Len(chain) : chain[i] = chainOf[head][i]
      BY Zenon, <1>4, <3>1
    <3> QED
      BY ZenonT(30), <1>4, <3>1, <3>2
  <2> QED
    BY Zenon, <1>4, <1>6, <2>1, ListIntro
<1>11. TypeOK' /\ OnlyRevokeFails'
  BY Zenon, <1>0, <1>1, <1>9, <1>10 DEF TypeOK, OnlyRevokeFails
<1>12. WalkInv'
  <2>1. /\ pc' = "chain" /\ Count' > 0 /\ head' = Posted(0)'
        /\ Len(walked') < Len(chainOf'[head'])
        /\ current' = chainOf'[head'][Len(walked') + 1]
    <3>1. 0 \in 0..QSize - 1
      BY SizeAssumption
    <3>2. Count > 0 /\ head = Posted(0)
      BY Zenon, <1>0 DEF IInv, WalkInv
    <3> QED
      BY Zenon, <1>1, <1>6, <1>9, <3>1, <3>2
  <2>2. \A k \in 1..Len(walked') : walked'[k] = chainOf'[head'][k]
    BY Zenon, <1>1, <1>4
  <2> QED
    BY Zenon, <2>1, <2>2 DEF WalkInv
<1>13. AnswerInv'
  BY Zenon, <1>0, <1>1, <1>9 DEF IInv, AnswerInv
<1> QED
  BY <1>1, <1>11, <1>12, <1>13 DEF IInv

\* The last descriptor: what pop takes is the chain the driver linked.
Popped ==
  /\ TypeOK /\ RingInv /\ pc = "chain" /\ pc' = "idle" /\ next_used = usedIdx
  /\ last_available' = Inc(last_available)
  /\ walked' = <<>>
  /\ inflight' = inflight \cup {[head |-> head, descriptors |-> chainOf[head]]}
  /\ head = Posted(0) /\ head \in Index /\ chainOf[head] \in Lists
  /\ chainOf[head][1] = head
  /\ UNCHANGED <<desc, availRing, availIdx, usedRing, usedIdx, chainOf, publishing,
                 usedSeen, next_used, head, current, answer, revoked>>
  /\ Count > 0 /\ 0 \in 0..Waiting - 1
  /\ Count' = Count - 1 /\ Waiting' = Waiting - 1 /\ Unread' = Unread
  /\ \A p \in 0..Waiting' - 1 : Posted(p)' = Posted(p + 1) /\ p + 1 \in 0..Waiting - 1
  /\ \A u : Answered(u)' = Answered(u)

\* The step has these effects.
LEMMA PopLast ==
  ASSUME IInv, PopChain, desc[current] = End
  PROVE  Popped
<1>0. TypeOK /\ RingInv /\ pc = "chain" /\ next_used = usedIdx
  BY DEF IInv, PopChain, AnswerInv
<1> DEFINE chain == Append(walked, current)
<1>1. /\ last_available' = Inc(last_available) /\ pc' = "idle" /\ walked' = <<>>
      /\ inflight' = inflight \cup {[head |-> head, descriptors |-> chain]}
      /\ UNCHANGED <<desc, availRing, availIdx, usedRing, usedIdx, chainOf, publishing,
                     usedSeen, next_used, head, current, answer, revoked>>
  BY ZenonT(30) DEF PopChain, guest, driver
<1> HIDE DEF chain
<1>2. /\ head = Posted(0) /\ head \in Index /\ chainOf[head] \in Lists
      /\ Count > 0 /\ 0 \in 0..Waiting - 1
      /\ chain \in Seq(Index) /\ Len(chain) = Len(walked) + 1 /\ Len(walked) \in Nat
      /\ \A k \in 1..Len(walked) + 1 : chain[k] = chainOf[head][k]
      /\ desc[current] = IF Len(walked) + 1 = Len(chainOf[head])
                         THEN End ELSE chainOf[head][Len(walked) + 2]
      /\ chainOf[head] \in Seq(Index) /\ chainOf[head][1] = head
  BY Zenon, <1>0, Walking, ListFacts DEF chain, IInv, LinkInv
<1>4. Len(walked) + 1 = Len(chainOf[head])
  <2> SUFFICES ASSUME Len(walked) + 1 # Len(chainOf[head]) PROVE FALSE
    BY Zenon
  <2>1. /\ Len(walked) < Len(chainOf[head]) /\ Len(chainOf[head]) \in Nat
        /\ Len(walked) + 2 \in 1..Len(chainOf[head])
        /\ chainOf[head][Len(walked) + 2] \in Index
    BY <1>0, <1>2 DEF IInv, WalkInv
  <2>4. End \notin Index
    BY SizeAssumption DEF End, Index
  <2> QED
    BY <1>2, <2>1, <2>4
<1>5. chain = chainOf[head]
  <2>1. /\ Len(chain) = Len(chainOf[head])
        /\ \A i \in 1..Len(chainOf[head]) : chain[i] = chainOf[head][i]
    BY Zenon, <1>2, <1>4
  <2> QED
    BY Zenon, <1>2, <2>1, SeqEq
<1>6. Count' = Count - 1 /\ Waiting' = Waiting - 1 /\ Unread' = Unread
  BY <1>1, <1>2, Bounds, DiffInc DEF Count, Waiting, Unread
<1>7. \A p \in 0..Waiting' - 1 : Posted(p)' = Posted(p + 1) /\ p + 1 \in 0..Waiting - 1
  <2> SUFFICES ASSUME NEW p \in 0..Waiting' - 1
               PROVE  Posted(p)' = Posted(p + 1) /\ p + 1 \in 0..Waiting - 1
    OBVIOUS
  <2>1. /\ p \in 0..QSize - 1 /\ p + 1 \in 0..Waiting - 1
        /\ Slot(last_available) \in Index /\ last_available \in Indices
    BY <1>6, Bounds
  <2>3. At(Slot(Inc(last_available)), p) = At(Slot(last_available), p + 1)
    BY <2>1, SlotInc, AtFacts
  <2> QED
    BY <1>1, <2>1, <2>3 DEF Posted
<1>8. \A u : Answered(u)' = Answered(u)
  BY <1>1 DEF Answered
<1> QED
  BY Zenon, <1>0, <1>1, <1>2, <1>5, <1>6, <1>7, <1>8 DEF Popped

\* The head moves from those waiting to those in flight.
LEMMA PopLastKeeps == IInv /\ PopChain /\ desc[current] = End => IInv'
<1> SUFFICES ASSUME IInv, PopChain, desc[current] = End PROVE IInv'
  OBVIOUS
<1>0. Popped
  BY Zenon, PopLast
<1>4. TypeOK' /\ OnlyRevokeFails'
  <2>1. /\ last_available' \in Indices
        /\ [head |-> head, descriptors |-> chainOf[head]] \in Chains
    BY ZenonT(30), <1>0, Bounds, IncIs DEF Chains, Popped
  <2>3. inflight' \subseteq Chains
    BY ZenonT(30), <1>0, <2>1 DEF TypeOK, Popped
  <2> QED
    BY Zenon, <1>0, <2>1 DEF TypeOK, OnlyRevokeFails, Indices, Popped
<1>5. RingInv'
  <2>1. /\ RingInv /\ Unread' = Unread /\ Waiting' = Waiting - 1
        /\ Waiting \in 0..QSize /\ QSize \in Nat
    BY Zenon, <1>0, Bounds DEF IInv, Popped
  <2> QED
    BY <2>1 DEF RingInv
<1>6. HeadInv'
  <2>0. /\ \A p \in 0..Waiting - 1 : chainOf[Posted(p)] # <<>>
        /\ \A u \in 0..Unread - 1 : chainOf[Answered(u)] # <<>>
        /\ \A p, r \in 0..Waiting - 1 : Posted(p) = Posted(r) => p = r
        /\ \A u, v \in 0..Unread - 1 : Answered(u) = Answered(v) => u = v
        /\ \A p \in 0..Waiting - 1, u \in 0..Unread - 1 : Posted(p) # Answered(u)
    BY Zenon DEF IInv, HeadInv
  <2>7. /\ chainOf' = chainOf /\ Unread' = Unread /\ \A u : Answered(u)' = Answered(u)
        /\ \A p \in 0..Waiting' - 1 : Posted(p)' = Posted(p + 1) /\ p + 1 \in 0..Waiting - 1
        /\ 0 \in 0..Waiting - 1
    BY Zenon, <1>0 DEF Popped
  <2>1. \A p \in 0..Waiting' - 1 : Posted(p + 1) # Posted(0)
    <3>1. \A p \in 0..Waiting' - 1 : p + 1 # 0
      OBVIOUS
    <3> QED
      BY Zenon, <2>0, <2>7, <3>1
  <2>2. \A p, r \in 0..Waiting' - 1 : Posted(p)' = Posted(r)' => p = r
    <3>1. \A p, r \in 0..Waiting' - 1 : p + 1 = r + 1 => p = r
      OBVIOUS
    <3> QED
      BY Zenon, <2>0, <2>7, <3>1
  <2>3. /\ \A p \in 0..Waiting' - 1 : chainOf'[Posted(p)'] # <<>>
        /\ \A p \in 0..Waiting' - 1, u \in 0..Unread' - 1 : Posted(p)' # Answered(u)'
        /\ \A u \in 0..Unread' - 1 : chainOf'[Answered(u)'] # <<>>
        /\ \A u, v \in 0..Unread' - 1 : Answered(u)' = Answered(v)' => u = v
    BY <2>0, <2>7
  <2>4. \A c \in inflight' :
          c \in inflight \/ (c.head = Posted(0) /\ c.descriptors = chainOf[c.head])
    BY <1>0 DEF Popped
  <2>5. /\ \A c \in inflight : c.descriptors = chainOf[c.head]
        /\ \A p \in 0..Waiting - 1, c \in inflight : Posted(p) # c.head
        /\ \A u \in 0..Unread - 1, c \in inflight : Answered(u) # c.head
        /\ \A u \in 0..Unread - 1 : Answered(u) # Posted(0)
    BY Zenon, <1>0 DEF IInv, HeadInv, Popped
  <2>6. /\ \A c \in inflight' : c.descriptors = chainOf'[c.head]
        /\ \A p \in 0..Waiting' - 1, c \in inflight' : Posted(p)' # c.head
        /\ \A u \in 0..Unread' - 1, c \in inflight' : Answered(u)' # c.head
    BY <2>1, <2>4, <2>5, <2>7
  <2> QED
    BY Zenon, <2>2, <2>3, <2>6 DEF HeadInv
<1>7. /\ LinkInv'
      /\ WalkInv' /\ AnswerInv'
  BY <1>0 DEF IInv, LinkInv, WalkInv, AnswerInv, Popped
<1> QED
  BY <1>4, <1>5, <1>6, <1>7 DEF IInv

\* What the driver writes: a chain of free descriptors, linked in the table and
\* put into the slot after those waiting.
LEMMA Written ==
  ASSUME IInv, Room, ~publishing, NEW s \in Lists, Elems(s) \subseteq Free
  PROVE  /\ s[1] \in Index /\ chainOf[s[1]] = <<>>
         /\ \A h \in Index : \A k \in 1..Len(chainOf[h]) : chainOf[h][k] \notin Elems(s)
         /\ Waiting = Count /\ Count < QSize
         /\ Slot(availIdx) = At(Slot(last_available), Count)
         /\ \A p \in 0..Count - 1 : At(Slot(last_available), p) \in Index \ {Slot(availIdx)}
<1>1. chainOf \in [Index -> Lists \cup {<<>>}]
  BY Zenon DEF IInv, TypeOK
<1>2. \A h \in Index : \A k \in 1..Len(chainOf[h]) : chainOf[h][k] \notin Elems(s)
  <2> SUFFICES ASSUME NEW h \in Index, NEW k \in 1..Len(chainOf[h]), chainOf[h][k] \in Elems(s)
               PROVE  FALSE
    OBVIOUS
  <2>1. /\ chainOf[h] \in Lists \/ chainOf[h] = <<>>
        /\ k \in DOMAIN chainOf[h]
        /\ chainOf[h][k] \in Elems(chainOf[h])
    <3>1. chainOf[h] \in Lists \/ chainOf[h] = <<>>
      BY Zenon, <1>1
    <3>2. k \in DOMAIN chainOf[h]
      BY <3>1, ListFacts
    <3> QED
      BY Zenon, <3>1, <3>2 DEF Elems
  <2> QED
    BY <2>1 DEF Free
<1>3. /\ s[1] \in Index /\ s[1] \in Elems(s)
      /\ chainOf[s[1]] = <<>>
      /\ Waiting = Count
  <2>1. s[1] \in Index /\ 1 \in DOMAIN s
    BY ListFacts
  <2>2. s[1] \in Elems(s)
    BY Zenon, <2>1 DEF Elems
  <2>3. ASSUME chainOf[s[1]] # <<>> PROVE FALSE
    <3>1. chainOf[s[1]] \in Lists /\ chainOf[s[1]][1] = s[1]
      BY Zenon, <1>1, <2>1, <2>3 DEF IInv, LinkInv
    <3>2. 1 \in 1..Len(chainOf[s[1]])
      BY <3>1, ListFacts
    <3> QED
      BY Zenon, <1>2, <2>1, <2>2, <3>1, <3>2
  <2>4. Waiting = Count
    BY DEF Waiting
  <2> QED
    BY Zenon, <2>1, <2>2, <2>3, <2>4
<1>6. Count < QSize
  BY <1>3 DEF Room
<1>7. Slot(availIdx) = At(Slot(last_available), Count)
  BY Bounds, SlotDiff DEF Count
<1>8. ASSUME NEW p \in 0..Count - 1
      PROVE  At(Slot(last_available), p) \in Index \ {Slot(availIdx)}
  <2>1. /\ p \in 0..QSize - 1 /\ p \in 0..QSize /\ Count \in 0..QSize - 1 /\ p # Count
        /\ Slot(last_available) \in Index
    BY <1>6, Bounds
  <2> QED
    BY <1>7, <2>1, AtFacts
<1> QED
  BY Zenon, <1>2, <1>3, <1>6, <1>7, <1>8

\* A chain of free descriptors disturbs no outstanding one.
LEMMA DriverWriteKeeps == IInv /\ Room /\ DriverWrite => IInv'
<1> SUFFICES ASSUME IInv, Room, DriverWrite PROVE IInv'
  OBVIOUS
<1>0. TypeOK /\ RingInv /\ ~publishing /\ publishing' = TRUE
  BY DEF IInv, DriverWrite
<1>1. PICK s \in Lists :
        /\ Elems(s) \subseteq Free
        /\ chainOf' = [chainOf EXCEPT ![s[1]] = s]
        /\ desc' = [i \in Index |->
                      IF \E k \in DOMAIN s : s[k] = i
                      THEN LET k == CHOOSE k \in DOMAIN s : s[k] = i
                           IN  IF k = Len(s) THEN End ELSE s[k + 1]
                      ELSE desc[i]]
        /\ availRing' = [availRing EXCEPT ![Slot(availIdx)] = s[1]]
  BY Zenon DEF DriverWrite
<1>2. /\ UNCHANGED <<availIdx, usedRing, usedIdx, usedSeen, last_available, next_used, pc, head,
                     current, walked, answer, inflight, revoked>>
      /\ s[1] \in Index /\ chainOf[s[1]] = <<>>
      /\ \A h \in Index : \A k \in 1..Len(chainOf[h]) : chainOf[h][k] \notin Elems(s)
      /\ Waiting = Count /\ Count < QSize
      /\ Slot(availIdx) = At(Slot(last_available), Count)
      /\ \A p \in 0..Count - 1 : At(Slot(last_available), p) \in Index \ {Slot(availIdx)}
  BY ZenonT(30), <1>1, Written DEF DriverWrite, device
<1>4. /\ chainOf \in [Index -> Lists \cup {<<>>}] /\ availRing \in [Index -> Index]
      /\ desc \in [Index -> Index \cup {End}] /\ Slot(availIdx) \in Index
      /\ Count \in Nat /\ QSize \in Nat
      /\ chainOf' \in [Index -> Lists \cup {<<>>}] /\ chainOf'[s[1]] = s
      /\ \A h \in Index : chainOf[h] # <<>> => chainOf'[h] = chainOf[h]
      /\ \A h \in Index : h # s[1] => chainOf'[h] = chainOf[h]
      /\ Count' = Count /\ Waiting' = Count + 1 /\ Unread' = Unread
      /\ \A u : Answered(u)' = Answered(u)
  BY <1>0, Bounds, <1>1, <1>2 DEF TypeOK, Count, Waiting, Unread, Answered
<1> PICK n \in Nat : n = Count
  BY Zenon, <1>4
<1>8. /\ availRing' \in [Index -> Index]
      /\ \A p \in 0..Waiting - 1 : Posted(p)' = Posted(p)
      /\ Posted(n)' = s[1]
      /\ \A p \in 0..Waiting' - 1 : p \in 0..Waiting - 1 \/ p = n
      /\ DOMAIN s = 1..Len(s) /\ Len(s) \in Nat /\ s # <<>>
      /\ \A k \in 1..Len(s) : s[k] \in Index
      /\ \A i, j \in 1..Len(s) : s[i] = s[j] => i = j
  BY <1>1, <1>2, <1>4, ListFacts DEF Posted
<1>11. \A k \in 1..Len(s) : desc'[s[k]] = IF k = Len(s) THEN End ELSE s[k + 1]
  <2> SUFFICES ASSUME NEW k \in 1..Len(s)
               PROVE  desc'[s[k]] = IF k = Len(s) THEN End ELSE s[k + 1]
    OBVIOUS
  <2>1. /\ s[k] \in Index /\ \E j \in DOMAIN s : s[j] = s[k]
        /\ (CHOOSE j \in DOMAIN s : s[j] = s[k]) = k
    BY <1>8
  <2> QED
    BY Zenon, <1>1, <2>1
<1>12. \A i \in Index : i \notin Elems(s) => desc'[i] = desc[i]
  BY ZenonT(30), <1>1 DEF Elems
<1>13. TypeOK' /\ OnlyRevokeFails'
  <2>1. desc' \in [Index -> Index \cup {End}]
    <3>1. ASSUME NEW i \in Index PROVE desc'[i] \in Index \cup {End}
      <4>1. CASE i \in Elems(s)
        <5>1. PICK k \in 1..Len(s) : i = s[k]
          BY Zenon, <1>8, <4>1 DEF Elems
        <5>2. ASSUME k # Len(s) PROVE k + 1 \in 1..Len(s)
          BY ZenonT(30), <1>8, <5>2, NextPlace
        <5> QED
          BY Zenon, <1>8, <1>11, <5>1, <5>2
      <4>2. CASE i \notin Elems(s)
        BY <1>4, <1>12, <4>2
      <4> QED
        BY <4>1, <4>2
    <3>2. desc' = [i \in Index |-> desc'[i]]
      BY Zenon, <1>1
    <3> QED
      BY <3>1, <3>2
  <2> QED
    BY Zenon, <1>0, <1>2, <1>4, <1>8, <2>1 DEF IInv, TypeOK, OnlyRevokeFails
<1>14. RingInv'
  BY <1>0, <1>2, <1>4 DEF RingInv
<1>15. HeadInv'
  <2>1. /\ \A p \in 0..Waiting - 1 : Posted(p) \in Index
        /\ \A u \in 0..Unread - 1 : Answered(u) \in Index
        /\ \A c \in inflight : c.head \in Index /\ chainOf[c.head] # <<>>
    BY ZenonT(30), HeadTypes, InflightChain
  <2>2. /\ \A p \in 0..Waiting' - 1 : chainOf'[Posted(p)'] # <<>>
        /\ \A u \in 0..Unread' - 1 : chainOf'[Answered(u)'] # <<>>
        /\ \A c \in inflight' : c.descriptors = chainOf'[c.head]
    BY <1>2, <1>4, <1>8, <2>1 DEF IInv, HeadInv
  <2>3. /\ \A p \in 0..Waiting - 1 : Posted(p) # s[1]
        /\ \A u \in 0..Unread - 1 : Answered(u) # s[1]
        /\ \A c \in inflight : c.head # s[1]
    BY Zenon, <1>2, <2>1 DEF IInv, HeadInv
  <2>4. \A p, r \in 0..Waiting' - 1 : Posted(p)' = Posted(r)' => p = r
    <3>1. \A p, r \in 0..Waiting - 1 : Posted(p) = Posted(r) => p = r
      BY Zenon DEF IInv, HeadInv
    <3>2. /\ \A p \in 0..Waiting' - 1 :
               (p \in 0..Waiting - 1 /\ Posted(p)' = Posted(p)) \/ (p = n /\ Posted(p)' = s[1])
      BY Zenon, <1>8
    <3> QED
      BY <2>3, <3>1, <3>2
  <2>5. /\ \A p \in 0..Waiting' - 1, u \in 0..Unread' - 1 : Posted(p)' # Answered(u)'
        /\ \A p \in 0..Waiting' - 1, c \in inflight' : Posted(p)' # c.head
    <3>1. /\ \A p \in 0..Waiting - 1, u \in 0..Unread - 1 : Posted(p) # Answered(u)
          /\ \A p \in 0..Waiting - 1, c \in inflight : Posted(p) # c.head
      BY Zenon DEF IInv, HeadInv
    <3>2. /\ \A p \in 0..Waiting' - 1 :
               (p \in 0..Waiting - 1 /\ Posted(p)' = Posted(p)) \/ Posted(p)' = s[1]
          /\ Unread' = Unread /\ inflight' = inflight /\ \A u : Answered(u)' = Answered(u)
      BY ZenonT(30), <1>2, <1>4, <1>8
    <3> QED
      BY <2>3, <3>1, <3>2
  <2>9. /\ \A u, v \in 0..Unread' - 1 : Answered(u)' = Answered(v)' => u = v
        /\ \A u \in 0..Unread' - 1, c \in inflight' : Answered(u)' # c.head
    BY Zenon, <1>2, <1>4 DEF IInv, HeadInv
  <2> QED
    BY ZenonT(30), <2>2, <2>4, <2>5, <2>9 DEF HeadInv
<1>16. LinkInv'
  <2> SUFFICES ASSUME NEW h \in Index, chainOf'[h] # <<>>
               PROVE  /\ chainOf'[h][1] = h
                      /\ \A k \in 1..Len(chainOf'[h]) :
                           desc'[chainOf'[h][k]] = IF k = Len(chainOf'[h]) THEN End
                                                   ELSE chainOf'[h][k + 1]
    BY Zenon DEF LinkInv
  <2>1. CASE h = s[1]
    BY Zenon, <1>4, <1>11, <2>1
  <2>2. CASE h # s[1]
    <3>1. chainOf'[h] = chainOf[h] /\ chainOf[h] \in Lists
      BY Zenon, <1>4, <2>2
    <3>2. \A k \in 1..Len(chainOf[h]) : chainOf[h][k] \in Index
      BY Zenon, <3>1, ListFacts
    <3>3. \A k \in 1..Len(chainOf[h]) : desc'[chainOf[h][k]] = desc[chainOf[h][k]]
      BY Zenon, <1>2, <1>12, <3>2
    <3>4. /\ chainOf[h][1] = h
          /\ \A k \in 1..Len(chainOf[h]) :
               desc[chainOf[h][k]] = IF k = Len(chainOf[h]) THEN End ELSE chainOf[h][k + 1]
      BY Zenon, <3>1 DEF IInv, LinkInv
    <3> QED
      BY Zenon, <3>1, <3>3, <3>4
  <2> QED
    BY <2>1, <2>2
<1>17. WalkInv'
  <2>1. ASSUME pc = "chain"
        PROVE  head = Posted(0)' /\ chainOf'[head] = chainOf[head]
    <3>1. head = Posted(0) /\ head \in Index /\ chainOf[head] \in Lists /\ 0 \in 0..Waiting - 1
      BY Zenon, <2>1, Walking
    <3>2. chainOf[head] # <<>>
      BY Zenon, <3>1, ListFacts
    <3> QED
      BY Zenon, <1>4, <1>8, <3>1, <3>2
  <2> QED
    BY Zenon, <1>2, <1>4, <2>1 DEF IInv, WalkInv
<1>18. AnswerInv'
  BY Zenon, <1>2 DEF IInv, AnswerInv
<1> QED
  BY Zenon, <1>13, <1>14, <1>15, <1>16, <1>17, <1>18 DEF IInv

-----------------------------------------------------------------------------
(* Counting heads, and the theorems.                                       *)

LOCAL INSTANCE FiniteSetTheorems

\* Different heads, none of them x, are fewer than the descriptors.
LEMMA Pigeon ==
  ASSUME NEW n \in Nat, NEW f \in [0..n - 1 -> Index], NEW x \in Index,
         \A p \in 0..n - 1 : f[p] # x,
         \A p, r \in 0..n - 1 : f[p] = f[r] => p = r
  PROVE  n < QSize
<1>1. IsFiniteSet(Index) /\ Cardinality(Index) = QSize
  BY SizeAssumption, FS_Interval DEF Index
<1>2. IsFiniteSet(Index \ {x}) /\ Cardinality(Index \ {x}) = QSize - 1
  BY Zenon, <1>1, FS_RemoveElement
<1>3. IsFiniteSet(0..n - 1) /\ Cardinality(0..n - 1) = n
  BY FS_Interval
<1>4. /\ f \in [0..n - 1 -> Index \ {x}]
      /\ ~(QSize - 1 < n)
  BY <1>2, <1>3, FS_PigeonHole
<1> QED
  BY <1>4, SizeAssumption

\* The invariant leaves room: heads waiting, or answered, are different, each has
\* a chain, and none of them is in flight.
LEMMA RoomHolds == IInv => Room
<1> SUFFICES ASSUME IInv PROVE Room
  OBVIOUS
<1>1. ASSUME NEW c \in inflight PROVE Unread < QSize
  <2> DEFINE f == [u \in 0..Unread - 1 |-> Answered(u)]
  <2>1. /\ \A u \in 0..Unread - 1 : Answered(u) \in Index /\ Answered(u) # c.head
        /\ \A u, v \in 0..Unread - 1 : Answered(u) = Answered(v) => u = v
        /\ c.head \in Index
    BY Zenon, HeadTypes DEF IInv, HeadInv
  <2>2. Unread \in Nat
    BY Bounds
  <2>3. /\ f \in [0..Unread - 1 -> Index]
        /\ \A u \in 0..Unread - 1 : f[u] # c.head
        /\ \A u, v \in 0..Unread - 1 : f[u] = f[v] => u = v
    BY <2>1
  <2> HIDE DEF f
  <2> QED
    BY ZenonT(30), <2>1, <2>2, <2>3, Pigeon
<1>2. ASSUME NEW h \in Index, chainOf[h] = <<>> PROVE Waiting < QSize
  <2> DEFINE f == [p \in 0..Waiting - 1 |-> Posted(p)]
  <2>1. /\ \A p \in 0..Waiting - 1 : Posted(p) \in Index /\ Posted(p) # h
        /\ \A p, r \in 0..Waiting - 1 : Posted(p) = Posted(r) => p = r
    BY Zenon, <1>2, HeadTypes DEF IInv, HeadInv
  <2>2. Waiting \in Nat
    BY Bounds
  <2>3. /\ f \in [0..Waiting - 1 -> Index]
        /\ \A p \in 0..Waiting - 1 : f[p] # h
        /\ \A p, r \in 0..Waiting - 1 : f[p] = f[r] => p = r
    BY <2>1
  <2> HIDE DEF f
  <2> QED
    BY ZenonT(30), <2>2, <2>3, Pigeon
<1> QED
  BY <1>1, <1>2 DEF Room

\* Every step keeps the invariant.
LEMMA NextInv == IInv /\ [Next]_vars => IInv'
<1> SUFFICES ASSUME IInv, [Next]_vars PROVE IInv'
  OBVIOUS
<1>0. Room
  BY RoomHolds
<1>1. CASE PopChain
  BY <1>1, PopNextKeeps, PopLastKeeps
<1> QED
  BY ZenonT(30), <1>0, <1>1, DriverWriteKeeps, DriverPublishKeeps, DriverCollectKeeps, RevokeKeeps,
     PopIndexKeeps, PopHeadKeeps, CompleteIdKeeps, CompleteLenKeeps, CompleteIndexKeeps,
     LeaseFailsKeeps, StutterKeeps DEF Next

\* The invariant always holds.
LEMMA AlwaysInv == Spec => []IInv
BY InitInv, NextInv, PTL DEF Spec

\* The type invariant, for every size of the queue: the device's indices and
\* the chains it holds stay what VirtQueue's types say.
THEOREM TypeCorrect == Spec => []TypeOK
<1>1. IInv => TypeOK
  BY DEF IInv
<1> QED
  BY <1>1, AlwaysInv, PTL

\* For every queue size, chain bound and index modulus that the size divides,
\* pop and complete fail only because the generation was revoked.
THEOREM FailsOnlyRevoked == Spec => []OnlyRevokeFails
<1>1. IInv => OnlyRevokeFails
  BY DEF IInv
<1> QED
  BY <1>1, AlwaysInv, PTL

-----------------------------------------------------------------------------
(* The rings implement RequestChannel.  First, sequences.                  *)

\* A sequence with one more element at its end.
LEMMA AppendIs ==
  ASSUME NEW S, NEW s \in Seq(S), NEW t \in Seq(S), NEW e \in S, Len(t) = Len(s) + 1,
         \A i \in 1..Len(s) : t[i] = s[i], t[Len(s) + 1] = e
  PROVE  t = Append(s, e)
<1>1. /\ Append(s, e) \in Seq(S) /\ Len(Append(s, e)) = Len(s) + 1 /\ Len(s) \in Nat
      /\ \A i \in 1..Len(s) + 1 : Append(s, e)[i] = IF i <= Len(s) THEN s[i] ELSE e
      /\ \A i \in 1..Len(s) + 1 : t[i] = Append(s, e)[i]
  OBVIOUS
<1> QED
  BY SeqEq

\* A sequence without its first element.
LEMMA TailIs ==
  ASSUME NEW S, NEW s \in Seq(S), NEW t \in Seq(S), Len(s) > 0, Len(t) = Len(s) - 1,
         \A i \in 1..Len(t) : t[i] = s[i + 1]
  PROVE  s # <<>> /\ Head(s) = s[1] /\ t = Tail(s)
<1>1. /\ s # <<>> /\ Head(s) = s[1] /\ Len(s) \in Nat
      /\ Tail(s) \in Seq(S) /\ Len(Tail(s)) = Len(s) - 1
      /\ \A i \in 1..Len(s) - 1 : Tail(s)[i] = s[i + 1]
  OBVIOUS
<1> QED
  BY <1>1, SeqEq

-----------------------------------------------------------------------------
(* AbsFacts reads the channel's sequences off the rings with the places of *)
(* the invariant; each action is then a step of the channel, or leaves its *)
(* sequences alone.                                                        *)

Answers == [head : Index, len : Lens \cup {0}]

\* The channel's sequences, in the terms of the invariant.
AbsFacts ==
  /\ Count \in Nat /\ Unread \in Nat
  /\ PostedChains \in Seq(Chains) /\ Len(PostedChains) = Count
  /\ UnreadAnswers \in Seq(Answers) /\ Len(UnreadAnswers) = Unread
  /\ \A i \in 1..Count :
       PostedChains[i] = [head |-> Posted(i - 1), descriptors |-> chainOf[Posted(i - 1)]]
  /\ \A i \in 1..Unread : UnreadAnswers[i] = usedRing[At(Slot(usedSeen), i - 1)]

\* The ring slots, counted without wrapping, are the places of the invariant.
LEMMA AbsHolds == IInv => AbsFacts
<1> SUFFICES ASSUME IInv PROVE AbsFacts
  OBVIOUS
<1>1. /\ Count \in Nat /\ Unread \in Nat /\ Count <= QSize /\ Unread <= QSize /\ QSize \in Nat
      /\ last_available \in Nat /\ usedSeen \in Nat /\ Count <= Waiting /\ Waiting \in Nat
      /\ Slot(usedSeen) \in Index
      /\ \A j \in Nat : \A i \in 1..QSize : Slot(j + i - 1) = At(Slot(j), i - 1)
  BY Bounds, SlotAdd DEF Indices
<1>3. /\ \A i \in 1..Count : i \in 1..QSize /\ i - 1 \in 0..Waiting - 1
      /\ \A i \in 1..Unread : i \in 1..QSize /\ i - 1 \in 0..QSize
  BY <1>1
<1>5. ASSUME NEW i \in 1..Count
      PROVE  /\ PostedChains[i] = [head |-> Posted(i - 1), descriptors |-> chainOf[Posted(i - 1)]]
             /\ PostedChains[i] \in Chains
  <2>1. Slot(last_available + i - 1) = At(Slot(last_available), i - 1)
    BY ZenonT(30), <1>1, <1>3
  <2>2. /\ PostedChains[i] = [head |-> Posted(i - 1), descriptors |-> chainOf[Posted(i - 1)]]
        /\ Posted(i - 1) \in Index /\ chainOf[Posted(i - 1)] # <<>>
        /\ chainOf[Posted(i - 1)] \in Lists /\ chainOf[Posted(i - 1)][1] = Posted(i - 1)
    BY <2>1, <1>3, HeadTypes DEF PostedChains, Posted, Count, IInv, HeadInv, LinkInv, TypeOK
  <2> QED
    BY <2>2 DEF Chains
<1>6. ASSUME NEW i \in 1..Unread
      PROVE  /\ UnreadAnswers[i] = usedRing[At(Slot(usedSeen), i - 1)]
             /\ UnreadAnswers[i] \in Answers
  <2>1. /\ Slot(usedSeen + i - 1) = At(Slot(usedSeen), i - 1)
        /\ UnreadAnswers[i] = usedRing[At(Slot(usedSeen), i - 1)]
        /\ At(Slot(usedSeen), i - 1) \in Index
    BY <1>1, <1>3, AtFacts DEF UnreadAnswers, Unread
  <2> QED
    BY <2>1 DEF IInv, TypeOK, Answers
<1>7. PostedChains \in Seq(Chains) /\ Len(PostedChains) = Count
  <2>1. PostedChains = [i \in 1..Count |-> PostedChains[i]]
    BY DEF PostedChains, Count
  <2>2. PostedChains \in [1..Count -> Chains]
    BY <1>5, <2>1
  <2> QED
    BY <1>1, <2>2
<1>8. UnreadAnswers \in Seq(Answers) /\ Len(UnreadAnswers) = Unread
  <2>1. UnreadAnswers = [i \in 1..Unread |-> UnreadAnswers[i]]
    BY DEF UnreadAnswers, Unread
  <2>2. UnreadAnswers \in [1..Unread -> Answers]
    BY <1>6, <2>1
  <2> QED
    BY <1>1, <2>2
<1> QED
  BY <1>5, <1>6, <1>7, <1>8 DEF AbsFacts

\* The same in the next state.
LEMMA AbsHoldsNext == IInv' => AbsFacts'
BY AbsHolds, PTL

\* A step that keeps the heads waiting and their chains keeps what is posted.
LEMMA PostedSame ==
  ASSUME AbsFacts, AbsFacts', Count' = Count,
         \A p \in 0..Count - 1 : Posted(p)' = Posted(p) /\ chainOf'[Posted(p)] = chainOf[Posted(p)]
  PROVE  PostedChains' = PostedChains
<1>1. Count \in Nat /\ \A i \in 1..Count : i - 1 \in 0..Count - 1
  BY DEF AbsFacts
<1>2. \A i \in 1..Count : PostedChains'[i] = PostedChains[i]
  <2> SUFFICES ASSUME NEW i \in 1..Count PROVE PostedChains'[i] = PostedChains[i]
    OBVIOUS
  <2>1. /\ PostedChains[i] = [head |-> Posted(i - 1), descriptors |-> chainOf[Posted(i - 1)]]
        /\ PostedChains'[i] = [head |-> Posted(i - 1)', descriptors |-> chainOf'[Posted(i - 1)']]
    BY Zenon DEF AbsFacts
  <2> QED
    BY Zenon, <1>1, <2>1
<1> QED
  BY ZenonT(30), <1>2, SeqEq DEF AbsFacts

\* A step that keeps the uncollected elements keeps the answers.
LEMMA UnreadSame ==
  ASSUME AbsFacts, AbsFacts', Unread' = Unread, UNCHANGED usedSeen,
         \A u \in 0..Unread - 1 : usedRing'[At(Slot(usedSeen), u)] = usedRing[At(Slot(usedSeen), u)]
  PROVE  UnreadAnswers' = UnreadAnswers
<1>1. Unread \in Nat /\ \A i \in 1..Unread : i - 1 \in 0..Unread - 1
  BY DEF AbsFacts
<1>2. \A i \in 1..Unread : UnreadAnswers'[i] = UnreadAnswers[i]
  BY ZenonT(30), <1>1 DEF AbsFacts
<1> QED
  BY <1>2 DEF AbsFacts

-----------------------------------------------------------------------------
(* Every step is a step of the channel, or none.                           *)

\* Storing the available index posts the chain that was written.
LEMMA PublishPosts ==
  ASSUME IInv, IInv', DriverPublish
  PROVE  \E c \in Chains : Channel!Post(c)
<1>0. /\ AbsFacts /\ AbsFacts'
      /\ UNCHANGED <<availRing, usedRing, usedIdx, chainOf, usedSeen, last_available, inflight,
                     answer>>
      /\ Waiting = Count + 1 /\ Count' = Count + 1 /\ Unread' = Unread
      /\ \A p : Posted(p)' = Posted(p)
  BY AbsHolds, AbsHoldsNext, PublishStep DEF Posted, Published
<1>3. PICK n \in Nat : n = Count
  BY <1>0 DEF AbsFacts
<1> DEFINE c == PostedChains'[n + 1]
<1>4. /\ n + 1 \in 1..Count' /\ (n + 1) - 1 = n /\ n \in 0..Waiting - 1
      /\ c = [head |-> Posted(n), descriptors |-> chainOf[Posted(n)]] /\ c \in Chains
      /\ c.head = Posted(n)
  BY <1>0, <1>3 DEF AbsFacts
<1> HIDE DEF c
<1>7. PostedChains' = Append(PostedChains, c)
  <2>0. \A i \in 1..Count : i \in 1..Count'
    BY <1>0 DEF AbsFacts
  <2>1. \A i \in 1..Count : PostedChains'[i] = PostedChains[i]
    BY Zenon, <1>0, <2>0 DEF AbsFacts
  <2>2. PostedChains'[Len(PostedChains) + 1] = c
    BY <1>0, <1>3 DEF AbsFacts, c
  <2> QED
    BY <1>0, <2>1, <2>2, AppendIs DEF AbsFacts
<1>8. UnreadAnswers' = UnreadAnswers
  BY <1>0, UnreadSame
<1>9. c.head \notin Channel!Outstanding
  <2>1. /\ \A i \in DOMAIN PostedChains : PostedChains[i].head # c.head
        /\ \A d \in inflight : d.head # c.head
    BY <1>0, <1>3, <1>4 DEF AbsFacts, IInv, HeadInv
  <2>3. \A i \in DOMAIN UnreadAnswers : UnreadAnswers[i].head # c.head
    <3> SUFFICES ASSUME NEW i \in 1..Unread PROVE UnreadAnswers[i].head # c.head
      BY <1>0 DEF AbsFacts
    <3>1. /\ UnreadAnswers[i].head = Answered(i - 1)
          /\ i - 1 \in 0..Unread - 1
      BY <1>0 DEF AbsFacts, Answered
    <3> QED
      BY ZenonT(30), <1>4, <3>1 DEF IInv, HeadInv
  <2> QED
    BY ZenonT(30), <2>1, <2>3 DEF Channel!Outstanding
<1> QED
  BY <1>0, <1>4, <1>7, <1>8, <1>9 DEF Channel!Post

\* Advancing last_available takes the oldest posted chain.
LEMMA PopTakes ==
  ASSUME IInv, IInv', PopChain, desc[current] = End
  PROVE  Channel!Take
<1>0. /\ AbsFacts /\ AbsFacts'
      /\ inflight' = inflight \cup {[head |-> head, descriptors |-> chainOf[head]]}
      /\ head = Posted(0)
      /\ UNCHANGED <<availRing, usedRing, usedIdx, chainOf, usedSeen, answer>>
      /\ Count > 0 /\ Count' = Count - 1 /\ Waiting' = Waiting - 1 /\ Unread' = Unread
      /\ \A p \in 0..Waiting' - 1 : Posted(p)' = Posted(p + 1)
      /\ Count <= Waiting /\ Waiting \in Nat
  BY AbsHolds, AbsHoldsNext, PopLast, Bounds DEF Popped
<1>2. \A i \in 1..Count' : PostedChains'[i] = PostedChains[i + 1]
  <2> SUFFICES ASSUME NEW i \in 1..Count' PROVE PostedChains'[i] = PostedChains[i + 1]
    BY Zenon, SMTT(20)
  <2>1. /\ i - 1 \in 0..Waiting' - 1 /\ i + 1 \in 1..Count
        /\ (i - 1) + 1 = i /\ (i + 1) - 1 = i
    <3>1. Count \in Nat
      BY Zenon, <1>0 DEF AbsFacts
    <3> QED
      BY <1>0, <3>1
  <2>2. Posted(i - 1)' = Posted(i)
    BY Zenon, <1>0, <2>1
  <2>3. PostedChains[i + 1] = [head |-> Posted(i), descriptors |-> chainOf[Posted(i)]]
    BY Zenon, <1>0, <2>1 DEF AbsFacts
  <2>4. PostedChains'[i] = [head |-> Posted(i - 1)', descriptors |-> chainOf'[Posted(i - 1)']]
    BY Zenon, <1>0 DEF AbsFacts
  <2> QED
    BY Zenon, <1>0, <2>2, <2>3, <2>4
<1>3. /\ PostedChains # <<>> /\ Head(PostedChains) = PostedChains[1]
      /\ PostedChains' = Tail(PostedChains)
  <2>1. /\ PostedChains \in Seq(Chains) /\ PostedChains' \in Seq(Chains)
        /\ Len(PostedChains) > 0 /\ Len(PostedChains') = Len(PostedChains) - 1
        /\ \A i \in 1..Len(PostedChains') : PostedChains'[i] = PostedChains[i + 1]
    BY Zenon, <1>0, <1>2 DEF AbsFacts
  <2> QED
    BY Zenon, <2>1, TailIs
<1>4. PostedChains[1] = [head |-> head, descriptors |-> chainOf[head]]
  <2>1. 1 \in 1..Count /\ 1 - 1 = 0
    <3>1. Count \in Nat
      BY Zenon, <1>0 DEF AbsFacts
    <3> QED
      BY <1>0, <3>1
  <2>2. PostedChains[1] = [head |-> Posted(1 - 1), descriptors |-> chainOf[Posted(1 - 1)]]
    BY Zenon, <1>0, <2>1 DEF AbsFacts
  <2> QED
    BY Zenon, <1>0, <2>1, <2>2
<1>5. UnreadAnswers' = UnreadAnswers
  BY Zenon, <1>0, UnreadSame
<1> QED
  BY ZenonT(30), <1>0, <1>3, <1>4, <1>5 DEF Channel!Take

\* Storing the used index gives the answer that was begun.
LEMMA IndexAnswers ==
  ASSUME IInv, Room, IInv', CompleteIndex
  PROVE  Channel!Answer
<1>0. /\ AbsFacts /\ AbsFacts'
      /\ TypeOK /\ pc = "index" /\ usedRing[Slot(usedIdx)].head = answer.head
      /\ inflight' = {c \in inflight : c.head # answer.head} /\ answer' = NoAnswer
      /\ UNCHANGED <<availRing, availIdx, usedRing, chainOf, usedSeen, last_available>>
      /\ Slot(usedIdx) = At(Slot(usedSeen), Unread)
      /\ Count' = Count /\ Unread' = Unread + 1
      /\ Slot(usedIdx) \in Index
  BY ZenonT(30), AbsHolds, AbsHoldsNext, IndexStep, Bounds DEF IndexStored
<1>2. PICK d \in inflight : d.head = answer.head
  BY ZenonT(30), IndexStep DEF IndexStored
<1>3. answer.len \in Lens /\ usedRing[Slot(usedIdx)].len = answer.len
  BY <1>0 DEF IInv, AnswerInv
<1>4. usedRing[Slot(usedIdx)] = answer /\ answer \in Answers /\ answer # NoAnswer
  <2>1. answer.head \in Index /\ NoAnswer.head \notin Index
    BY <1>2, HeadTypes, SizeAssumption DEF NoAnswer, End, Index
  <2>2. /\ answer = [head |-> answer.head, len |-> answer.len]
        /\ usedRing[Slot(usedIdx)] =
             [head |-> usedRing[Slot(usedIdx)].head, len |-> usedRing[Slot(usedIdx)].len]
    BY <1>0 DEF TypeOK
  <2>3. usedRing[Slot(usedIdx)] = answer
    BY Zenon, <1>0, <1>3, <2>2
  <2>4. answer \in Answers
    BY Zenon, <1>3, <2>1, <2>2 DEF Answers
  <2> QED
    BY Zenon, <2>1, <2>3, <2>4
<1>5. UnreadAnswers' = Append(UnreadAnswers, answer)
  <2>0. \A i \in 1..Unread : i \in 1..Unread'
    BY <1>0 DEF AbsFacts
  <2>1. \A i \in 1..Unread : UnreadAnswers'[i] = UnreadAnswers[i]
    BY ZenonT(30), <1>0, <2>0 DEF AbsFacts
  <2>2. PICK n \in Nat : n = Unread
    BY Zenon, <1>0 DEF AbsFacts
  <2>3. n + 1 \in 1..Unread' /\ (n + 1) - 1 = n
    BY <1>0, <2>2
  <2>4. UnreadAnswers'[n + 1] = usedRing'[At(Slot(usedSeen'), (n + 1) - 1)]
    BY Zenon, <1>0, <2>3 DEF AbsFacts
  <2>5. UnreadAnswers'[n + 1] = answer
    BY Zenon, <1>0, <1>4, <2>2, <2>3, <2>4
  <2>6. /\ UnreadAnswers \in Seq(Answers) /\ UnreadAnswers' \in Seq(Answers)
        /\ Len(UnreadAnswers') = Len(UnreadAnswers) + 1
        /\ \A i \in 1..Len(UnreadAnswers) : UnreadAnswers'[i] = UnreadAnswers[i]
        /\ UnreadAnswers'[Len(UnreadAnswers) + 1] = answer
    BY Zenon, <1>0, <2>1, <2>2, <2>5 DEF AbsFacts
  <2>7. answer \in Answers
    BY ZenonT(30), <1>4
  <2> QED
    BY ZenonT(30), <2>6, <2>7, AppendIs
<1>6. PostedChains' = PostedChains
  BY <1>0, PostedSame DEF Posted
<1> QED
  BY Zenon, <1>0, <1>4, <1>5, <1>6 DEF Channel!Answer

\* The driver collects the oldest answer.
LEMMA CollectCollects ==
  ASSUME IInv, IInv', DriverCollect
  PROVE  Channel!Collect
<1>0. /\ AbsFacts /\ AbsFacts'
      /\ UNCHANGED <<usedRing, inflight, answer>>
      /\ Unread > 0 /\ Unread' = Unread - 1 /\ Count' = Count
      /\ Answered(0) \in Index /\ 0 \in 0..Unread - 1
      /\ chainOf' = [chainOf EXCEPT ![Answered(0)] = <<>>]
      /\ chainOf \in [Index -> Lists \cup {<<>>}]
      /\ \A p : Posted(p)' = Posted(p)
      /\ \A u \in 0..Unread' - 1 : At(Slot(usedSeen'), u) = At(Slot(usedSeen), u + 1)
  BY Zenon, AbsHolds, AbsHoldsNext, CollectStep DEF Collected
<1>2. PostedChains' = PostedChains
  <2>1. \A p \in 0..Count - 1 : p \in 0..Waiting - 1
    BY Bounds
  <2>2. \A p \in 0..Waiting - 1 : Posted(p) \in Index /\ Posted(p) # Answered(0)
    BY Zenon, <1>0, HeadTypes DEF IInv, HeadInv
  <2>3. \A h \in Index \ {Answered(0)} : chainOf'[h] = chainOf[h]
    BY Zenon, <1>0
  <2>4. \A p \in 0..Count - 1 : Posted(p)' = Posted(p) /\ chainOf'[Posted(p)] = chainOf[Posted(p)]
    BY ZenonT(30), <1>0, <2>1, <2>2, <2>3
  <2> QED
    BY <1>0, <2>4, PostedSame
<1>3. \A i \in 1..Unread' : UnreadAnswers'[i] = UnreadAnswers[i + 1]
  <2> SUFFICES ASSUME NEW i \in 1..Unread' PROVE UnreadAnswers'[i] = UnreadAnswers[i + 1]
    BY ZenonT(30)
  <2>1. /\ i - 1 \in 0..Unread' - 1 /\ i + 1 \in 1..Unread
        /\ (i - 1) + 1 = i /\ (i + 1) - 1 = i
        /\ At(Slot(usedSeen'), i - 1) = At(Slot(usedSeen), i)
        /\ UnreadAnswers[i + 1] = usedRing[At(Slot(usedSeen), i)]
        /\ UnreadAnswers'[i] = usedRing'[At(Slot(usedSeen'), i - 1)]
    BY <1>0 DEF AbsFacts
  <2> QED
    BY <1>0, <2>1
<1>4. UnreadAnswers # <<>> /\ UnreadAnswers' = Tail(UnreadAnswers)
  BY ZenonT(30), <1>0, <1>3, TailIs DEF AbsFacts
<1> QED
  BY Zenon, <1>0, <1>2, <1>4 DEF Channel!Collect

\* A chain written but not published is not seen.
LEMMA WriteUnseen ==
  ASSUME IInv, Room, IInv', DriverWrite
  PROVE  UNCHANGED <<PostedChains, inflight, answer, UnreadAnswers>>
<1>0. AbsFacts /\ AbsFacts' /\ TypeOK /\ RingInv /\ ~publishing
  BY Zenon, AbsHolds, AbsHoldsNext DEF IInv, DriverWrite
<1>1. PICK s \in Lists :
        /\ Elems(s) \subseteq Free
        /\ chainOf' = [chainOf EXCEPT ![s[1]] = s]
        /\ availRing' = [availRing EXCEPT ![Slot(availIdx)] = s[1]]
  BY ZenonT(30), Zenon DEF DriverWrite
<1>2. /\ UNCHANGED <<availIdx, usedRing, usedIdx, usedSeen, last_available, inflight, answer>>
      /\ Count' = Count /\ Unread' = Unread
  BY Zenon DEF DriverWrite, device, Count, Unread
<1>3. /\ s[1] \in Index /\ chainOf[s[1]] = <<>> /\ Waiting = Count
      /\ \A p \in 0..Count - 1 : At(Slot(last_available), p) \in Index \ {Slot(availIdx)}
  BY Zenon, <1>0, <1>1, Written
<1>4. /\ \A i \in Index \ {Slot(availIdx)} : availRing'[i] = availRing[i]
      /\ \A h \in Index \ {s[1]} : chainOf'[h] = chainOf[h]
  BY Zenon, <1>0, <1>1 DEF TypeOK
<1>5. ASSUME NEW p \in 0..Count - 1
      PROVE  Posted(p)' = Posted(p) /\ chainOf'[Posted(p)] = chainOf[Posted(p)]
  <2>1. Posted(p)' = Posted(p)
    BY Zenon, <1>2, <1>3, <1>4 DEF Posted
  <2>2. Posted(p) \in Index /\ chainOf[Posted(p)] # <<>>
    BY Zenon, <1>3, HeadTypes DEF IInv, HeadInv
  <2> QED
    BY Zenon, <1>3, <1>4, <2>1, <2>2
<1>6. /\ PostedChains' = PostedChains
      /\ UnreadAnswers' = UnreadAnswers
  <2>1. PostedChains' = PostedChains
    BY Zenon, <1>0, <1>2, <1>5, PostedSame
  <2>2. UnreadAnswers' = UnreadAnswers
    BY Zenon, <1>0, <1>2, UnreadSame
  <2> QED
    BY Zenon, <2>1, <2>2
<1> QED
  BY Zenon, <1>2, <1>6

\* The id and the length of an answer, written before its index.
LEMMA ElementUnseen ==
  ASSUME IInv, Room, IInv', CompleteId \/ CompleteLen
  PROVE  UNCHANGED <<PostedChains, inflight, UnreadAnswers>>
<1>0. /\ AbsFacts /\ AbsFacts' /\ TypeOK /\ RingInv
      /\ UNCHANGED <<availRing, availIdx, usedIdx, chainOf, usedSeen, last_available, inflight>>
      /\ inflight # {} /\ next_used = usedIdx
      /\ \A i \in Index \ {Slot(usedIdx)} : usedRing'[i] = usedRing[i]
      /\ Count' = Count /\ Unread' = Unread
      /\ \A p : Posted(p)' = Posted(p)
      /\ PostedChains' = PostedChains
      /\ \A u \in 0..Unread - 1 :
           usedRing'[At(Slot(usedSeen), u)] = usedRing[At(Slot(usedSeen), u)]
  BY AbsHolds, AbsHoldsNext, PostedSame, RoomForAnswer DEF IInv, CompleteId, CompleteLen, driver,
     AnswerInv, TypeOK, Count, Unread, Posted
<1>8. UnreadAnswers' = UnreadAnswers
  BY Zenon, <1>0, UnreadSame
<1> QED
  BY Zenon, <1>0, <1>8

\* Writing the id begins the answer.
LEMMA IdBegins ==
  ASSUME IInv, Room, IInv', CompleteId
  PROVE  \E c \in inflight, len \in Lens : Channel!Begin(c, len)
<1>1. PICK c \in inflight, len \in Lens : answer' = [head |-> c.head, len |-> len]
  BY Zenon DEF CompleteId
<1>2. UNCHANGED <<PostedChains, inflight, UnreadAnswers>>
  BY Zenon, ElementUnseen
<1>3. answer = NoAnswer
  BY Zenon DEF IInv, AnswerInv, CompleteId
<1>4. Channel!Begin(c, len)
  BY Zenon, <1>1, <1>2, <1>3 DEF Channel!Begin
<1> QED
  BY Zenon, <1>4

\* A step that writes no ring and takes no chain.
LEMMA QuietUnseen ==
  ASSUME Quiet, UNCHANGED answer
  PROVE  UNCHANGED <<PostedChains, inflight, answer, UnreadAnswers>>
BY Zenon DEF Quiet, PostedChains, UnreadAnswers

\* Every step of the rings is a step of the channel or changes nothing in it.
LEMMA StepImplements ==
  ASSUME IInv, Room, IInv', [Next]_vars
  PROVE  [Channel!Next]_(Channel!vars)
<1>1. UNCHANGED <<PostedChains, inflight, answer, UnreadAnswers>> => UNCHANGED Channel!vars
  BY DEF Channel!vars
<1>2. CASE DriverWrite
  BY <1>1, <1>2, WriteUnseen
<1>3. CASE DriverPublish
  BY <1>3, PublishPosts DEF Channel!Next
<1>4. CASE DriverCollect
  BY <1>4, CollectCollects DEF Channel!Next
<1>5. CASE PopChain /\ desc[current] = End
  BY Zenon, <1>5, PopTakes DEF Channel!Next
<1>6. CASE CompleteId
  BY Zenon, <1>6, IdBegins DEF Channel!Next
<1>7. CASE CompleteLen
  <2>1. UNCHANGED answer
    BY Zenon, <1>7 DEF CompleteLen
  <2> QED
    BY Zenon, <1>1, <1>7, <2>1, ElementUnseen
<1>8. CASE CompleteIndex
  BY Zenon, <1>8, IndexAnswers DEF Channel!Next
<1>9. CASE \/ Revoke \/ PopIndex \/ PopHead \/ LeaseFails \/ UNCHANGED vars
           \/ (PopChain /\ desc[current] # End)
  BY Zenon, <1>9, <1>1, QuietUnseen DEF Quiet, Revoke, PopIndex, PopHead, PopChain, LeaseFails,
     vars, guest, driver, device
<1> QED
  BY ZenonT(30), <1>2, <1>3, <1>4, <1>5, <1>6, <1>7, <1>8, <1>9 DEF Next

\* For every queue size, chain bound and index modulus that the size divides,
\* the rings as pop and complete use them are a request channel: each chain is
\* taken once, in order and whole, answered once, with the length complete was
\* called with, and no answer is overwritten before the driver has collected it.
THEOREM QueueImplementsChannel == Spec => ImplementsChannel
<1>1. Init => Channel!Init
  BY InitInv, AbsHolds, SizeAssumption, DiffIs DEF Indices, Init, Count, Unread, AbsFacts,
     Channel!Init
<1>2. IInv /\ IInv' /\ [Next]_vars => [Channel!Next]_(Channel!vars)
  BY RoomHolds, StepImplements
<1> QED
  BY <1>1, <1>2, AlwaysInv, PTL DEF Spec, ImplementsChannel, Channel!Spec
=============================================================================
