---------------------------- MODULE RequestProofs ---------------------------
(***************************************************************************)
(* RequestIo for chains of any length, descriptors of any lengths cut into *)
(* any parts, and any amounts of data.                                     *)
(*                                                                         *)
(* The sums of the lengths up to each place in the chain are ascending, so *)
(* a place in the chain and a number of bytes moved determine each other.  *)
(* The invariant says that the two agree at every step of the loops.       *)
(***************************************************************************)
EXTENDS RequestIo, WellFoundedInduction, TLAPS

-----------------------------------------------------------------------------
(* Sums, by induction over the members.                                    *)

\* Zero, for the steps that know no numbers.
LEMMA ZeroNat == 0 \in Nat
OBVIOUS

\* What the lengths are.
LEMMA LengthsNat == 0 \in U32 /\ RESPONSE_SIZE \in Nat /\ Amounts \subseteq Nat
<1>1. Amounts \subseteq Nat
  BY Zenon, ChainAssumption
<1>2. MaxU32 \in Nat /\ RESPONSE_SIZE \in U32
  BY Zenon, ChainAssumption
<1> QED
  BY <1>1, <1>2 DEF U32

\* A number is below another as pairs of the well-founded relation.
LEMMA LessPair == \A x, y \in Nat : x < y => <<x, y>> \in OpToRel(<, Nat)
BY DEF OpToRel

\* A set of numbers that is not empty has a least one.
LEMMA Least == ASSUME NEW T \in SUBSET Nat, T # {} PROVE \E x \in T : \A y \in T : x <= y
<1>1. PICK x \in T : \A y \in T : ~(<<y, x>> \in OpToRel(<, Nat))
  BY Zenon, NatLessThanWellFounded, WFMin
<1>2. ASSUME NEW y \in T PROVE ~(y < x)
  <2>1. ~(<<y, x>> \in OpToRel(<, Nat)) /\ x \in Nat /\ y \in Nat
    BY Zenon, <1>1
  <2> QED
    BY Zenon, <2>1, LessPair
<1>3. ASSUME NEW y \in T PROVE x <= y
  BY <1>2
<1> QED
  BY <1>3

\* Induction up to N.
LEMMA Induction ==
  ASSUME NEW N \in Nat, NEW Good, 0 \in Good,
         \A n \in 1..N : n - 1 \in Good => n \in Good
  PROVE  \A n \in 0..N : n \in Good
<1> SUFFICES ASSUME NEW m \in 0..N, m \notin Good PROVE FALSE
  OBVIOUS
<1> DEFINE Bad == {n \in 0..N : n \notin Good}
<1>1. PICK x \in Bad : \A y \in Bad : x <= y
  <2>1. Bad \in SUBSET Nat /\ Bad # {}
    OBVIOUS
  <2> HIDE DEF Bad
  <2> QED
    BY Zenon, <2>1, Least
<1>2. x # 0 /\ x \in 0..N /\ x \notin Good
  OBVIOUS
<1>3. x - 1 \in 0..N /\ x - 1 \notin Good
  BY <1>2
<1>4. x - 1 \in Bad
  BY <1>3
<1> QED
  BY <1>1, <1>2, <1>4

\* f adds up the first members of s, up to the N-th.
Adds(f, s, N) == f = [n \in 0..N |-> IF n = 0 THEN 0 ELSE f[n - 1] + s[n]]

\* There is such a function.
LEMMA SumsExist == ASSUME NEW M \in Nat, NEW s PROVE \E f : Adds(f, s, M)
<1> DEFINE Good == {N \in Nat : \E f : Adds(f, s, N)}
<1>1. 0 \in Good
  <2>1. Adds([n \in 0..0 |-> 0], s, 0)
    BY DEF Adds
  <2> QED
    BY Zenon, <2>1
<1>2. ASSUME NEW N \in 1..M, N - 1 \in Good PROVE N \in Good
  <2>1. PICK f : Adds(f, s, N - 1)
    BY <1>2
  <2>2. PICK h : h = [n \in 0..N |-> IF n = N THEN f[N - 1] + s[N] ELSE f[n]]
    BY Zenon
  <2>3. ASSUME NEW n \in 0..N PROVE h[n] = IF n = 0 THEN 0 ELSE h[n - 1] + s[n]
    <3>1. CASE n = N
      BY <2>2, <3>1
    <3>2. CASE n # N
      <4>1. f[n] = IF n = 0 THEN 0 ELSE f[n - 1] + s[n]
        BY <2>1, <3>2 DEF Adds
      <4> QED
        BY <2>2, <3>2, <4>1
    <3> QED
      BY <3>1, <3>2
  <2>4. h = [n \in 0..N |-> h[n]]
    BY Zenon, <2>2
  <2>5. Adds(h, s, N)
    BY Zenon, <2>3, <2>4 DEF Adds
  <2>6. N \in Nat
    OBVIOUS
  <2> QED
    BY Zenon, <2>5, <2>6
<1> HIDE DEF Good
<1>3. \A N \in 0..M : N \in Good
  BY Zenon, <1>1, <1>2, Induction
<1>4. M \in Good
  BY <1>3
<1> QED
  BY Zenon, <1>4 DEF Good

\* Sums starts at nothing and adds one member after the other.
LEMMA SumsDef ==
  ASSUME NEW s, Len(s) \in Nat
  PROVE  /\ Sums(s)[0] = 0
         /\ \A n \in 1..Len(s) : Sums(s)[n] = Sums(s)[n - 1] + s[n]
<1>1. Sums(s) = CHOOSE f : Adds(f, s, Len(s))
  BY Zenon DEF Sums, Adds
<1>2. PICK N \in Nat : N = Len(s)
  BY Zenon
<1>3. PICK f : Adds(f, s, N) /\ f = Sums(s)
  BY Zenon, <1>1, <1>2, SumsExist
<1>4. f[0] = 0 /\ \A n \in 1..N : f[n] = f[n - 1] + s[n]
  BY <1>3 DEF Adds
<1> QED
  BY Zenon, <1>2, <1>3, <1>4

\* The sums of naturals are natural and ascend.
LEMMA SumsAscend ==
  ASSUME NEW s \in Seq(Nat)
  PROVE  \A n \in 0..Len(s) : /\ Sums(s)[n] \in Nat
                              /\ \A m \in 0..n : Sums(s)[m] \in Nat /\ Sums(s)[m] <= Sums(s)[n]
<1>1. PICK N \in Nat : N = Len(s) /\ \A n \in 1..N : s[n] \in Nat
  <2>1. Len(s) \in Nat /\ \A n \in 1..Len(s) : s[n] \in Nat
    OBVIOUS
  <2> QED
    BY Zenon, <2>1
<1>2. PICK f : f = Sums(s)
  BY Zenon
<1>3. f[0] = 0 /\ \A n \in 1..N : f[n] = f[n - 1] + s[n]
  BY Zenon, <1>1, <1>2, SumsDef
<1> DEFINE Good == {n \in Nat : f[n] \in Nat /\ \A m \in 0..n : f[m] \in Nat /\ f[m] <= f[n]}
<1>4. 0 \in Good
  BY <1>3
<1>5. ASSUME NEW n \in 1..N, n - 1 \in Good PROVE n \in Good
  <2>1. f[n] = f[n - 1] + s[n] /\ s[n] \in Nat /\ f[n - 1] \in Nat
    BY <1>1, <1>3, <1>5
  <2>2. ASSUME NEW m \in 0..n PROVE f[m] \in Nat /\ f[m] <= f[n]
    <3>1. CASE m = n
      BY <2>1, <3>1
    <3>2. CASE m \in 0..n - 1
      BY <1>5, <2>1, <3>2
    <3> QED
      BY <3>1, <3>2
  <2> QED
    BY <2>1, <2>2
<1> HIDE DEF Good
<1>6. \A n \in 0..N : n \in Good
  BY Zenon, <1>4, <1>5, Induction
<1>7. \A n \in 0..N : f[n] \in Nat /\ \A m \in 0..n : f[m] \in Nat /\ f[m] <= f[n]
  BY Zenon, <1>6 DEF Good
<1> QED
  BY Zenon, <1>1, <1>2, <1>7

-----------------------------------------------------------------------------
(* Chains and their cells.                                                 *)

Descriptor == [parts : Seq(Nat), write : BOOLEAN, mapped : BOOLEAN]

\* A descriptor of a chain has its parts, and as many bytes as they have.
LEMMA PartsAdd ==
  ASSUME chain \in Seq(Descriptor), NEW d \in All, NEW P, P = chain[d].parts
  PROVE  /\ Len(P) \in Nat /\ Length(d) \in Nat /\ Length(d) = Sums(P)[Len(P)]
         /\ Sums(P)[0] = 0
         /\ \A n \in 0..Len(P) : Sums(P)[n] \in Nat /\ Sums(P)[n] <= Length(d)
         /\ \A n \in 1..Len(P) : P[n] \in Nat /\ Sums(P)[n] = Sums(P)[n - 1] + P[n]
         /\ chain[d].write \in BOOLEAN
<1>1. chain[d] \in Descriptor
  BY DEF All
<1>2. P \in Seq(Nat) /\ chain[d].write \in BOOLEAN
  BY <1>1 DEF Descriptor
<1>3. Len(P) \in Nat /\ \A n \in 1..Len(P) : P[n] \in Nat
  BY <1>2
<1>4. Len(P) \in 0..Len(P) /\ 0 \in 0..Len(P)
  BY <1>3
<1>5. Length(d) = Sums(P)[Len(P)]
  BY Zenon DEF Length
<1> QED
  BY Zenon, <1>2, <1>3, <1>4, <1>5, SumsDef, SumsAscend

\* The bytes of the descriptors of S add up along the chain.
LEMMA TotalAdds ==
  ASSUME chain \in Seq(Descriptor), NEW S
  PROVE  /\ Len(chain) \in Nat
         /\ Total(S)[0] = 0
         /\ \A d \in All : /\ d - 1 \in 0..Len(chain) /\ d \in 0..Len(chain)
                           /\ d \in S => Total(S)[d] = Total(S)[d - 1] + Length(d)
                           /\ d \notin S => Total(S)[d] = Total(S)[d - 1]
         /\ \A n \in 0..Len(chain) :
              /\ Total(S)[n] \in Nat /\ Total(S)[n] <= Capacity(S)
              /\ \A m \in 0..n : Total(S)[m] <= Total(S)[n]
<1>1. PICK L \in Nat : L = Len(chain)
  <2>1. Len(chain) \in Nat
    OBVIOUS
  <2> QED
    BY Zenon, <2>1
<1>2. PICK s : s = [d \in 1..L |-> IF d \in S THEN Length(d) ELSE 0]
  BY Zenon
<1>3. Total(S) = Sums(s)
  BY Zenon, <1>1, <1>2 DEF Total, All
<1>4. \A d \in 1..L : Length(d) \in Nat
  BY Zenon, <1>1, PartsAdd DEF All
<1>5. \A d \in 1..L : s[d] \in Nat /\ s[d] = IF d \in S THEN Length(d) ELSE 0
  BY Zenon, <1>2, <1>4, ZeroNat
<1>6. s \in Seq(Nat) /\ Len(s) = L
  <2>1. s \in [1..L -> Nat]
    BY Zenon, <1>2, <1>5
  <2> QED
    BY <2>1
<1>7. PICK f : f = Sums(s)
  BY Zenon
<1>8. /\ f[0] = 0
      /\ \A n \in 1..L : f[n] = f[n - 1] + s[n]
      /\ \A n \in 0..L : f[n] \in Nat /\ \A m \in 0..n : f[m] <= f[n]
  BY Zenon, <1>6, <1>7, SumsDef, SumsAscend
<1>9. \A n \in 0..L : L \in 0..L /\ n \in 0..L
  OBVIOUS
<1>10. ASSUME NEW d \in 1..L
       PROVE  /\ d - 1 \in 0..L /\ d \in 0..L
              /\ d \in S => f[d] = f[d - 1] + Length(d)
              /\ d \notin S => f[d] = f[d - 1]
  BY <1>5, <1>8
<1> QED
  BY Zenon, <1>1, <1>3, <1>7, <1>8, <1>9, <1>10 DEF Capacity, All

\* The bytes of the whole chain are a number.
LEMMA CapacityNat == ASSUME chain \in Seq(Descriptor), NEW S PROVE Capacity(S) \in Nat
<1>1. Len(chain) \in 0..Len(chain)
  OBVIOUS
<1> QED
  BY Zenon, <1>1, TotalAdds DEF Capacity

\* Sets that have the same of the first descriptors have the same sums there.
LEMMA TotalSame ==
  ASSUME chain \in Seq(Descriptor), NEW S, NEW T, NEW n \in 0..Len(chain),
         \A d \in 1..n : d \in S <=> d \in T
  PROVE  \A m \in 0..n : Total(S)[m] = Total(T)[m]
<1>1. PICK L \in Nat : L = Len(chain)
  BY Zenon, TotalAdds
<1>2. PICK f : f = Total(S)
  BY Zenon
<1>3. PICK g : g = Total(T)
  BY Zenon
<1>4. /\ f[0] = 0 /\ g[0] = 0
      /\ \A d \in 1..L : /\ d \in S => f[d] = f[d - 1] + Length(d)
                         /\ d \notin S => f[d] = f[d - 1]
                         /\ d \in T => g[d] = g[d - 1] + Length(d)
                         /\ d \notin T => g[d] = g[d - 1]
  BY Zenon, <1>1, <1>2, <1>3, TotalAdds DEF All
<1>5. n \in 0..L
  BY Zenon, <1>1
<1> DEFINE Good == {m \in Nat : f[m] = g[m]}
<1>6. 0 \in Good
  BY <1>4
<1>7. ASSUME NEW m \in 1..n, m - 1 \in Good PROVE m \in Good
  <2>1. m \in 1..L /\ m \in Nat /\ n \in Nat
    BY <1>5
  <2> QED
    BY Zenon, <1>4, <1>7, <2>1
<1>8. n \in Nat
  BY <1>5
<1> HIDE DEF Good
<1>9. \A m \in 0..n : m \in Good
  BY Zenon, <1>6, <1>7, <1>8, Induction
<1> QED
  BY Zenon, <1>2, <1>3, <1>9 DEF Good

\* A cell is a byte of a descriptor.
LEMMA CellIs ==
  ASSUME NEW c \in Cells
  PROVE  c[1] \in All /\ c[2] \in 1..Length(c[1])
<1>1. PICK d \in All : c \in {d} \X (1..Length(d))
  BY Zenon DEF Cells
<1>2. c[1] = d /\ c[2] \in 1..Length(d)
  BY <1>1
<1> QED
  BY Zenon, <1>2

\* A byte of a descriptor is a cell.
LEMMA IsCell ==
  ASSUME NEW d \in All, NEW k \in 1..Length(d)
  PROVE  <<d, k>> \in Cells /\ <<d, k>>[1] = d /\ <<d, k>>[2] = k
<1>1. <<d, k>>[1] = d /\ <<d, k>>[2] = k
  OBVIOUS
<1>2. <<d, k>> \in {d} \X (1..Length(d))
  OBVIOUS
<1> QED
  BY Zenon, <1>1, <1>2 DEF Cells

\* The place of a cell among those of S: its descriptor is the one that brings
\* the sum up to it.
LEMMA CellPlace ==
  ASSUME chain \in Seq(Descriptor), NEW S, NEW c \in Cells, c[1] \in S
  PROVE  /\ c[1] \in Nat /\ c[2] \in Nat /\ c[2] >= 1 /\ c[2] <= Length(c[1])
         /\ Total(S)[c[1] - 1] \in Nat /\ Total(S)[c[1]] \in Nat
         /\ c[2] + Total(S)[c[1] - 1] >= 1
         /\ c[2] + Total(S)[c[1] - 1] <= Total(S)[c[1]]
         /\ Total(S)[c[1]] <= Capacity(S)
<1>1. PICK d \in All : d = c[1] /\ c[2] \in 1..Length(d)
  BY Zenon, CellIs
<1>2. /\ Length(d) \in Nat /\ Total(S)[d - 1] \in Nat /\ Total(S)[d] \in Nat
      /\ Total(S)[d] = Total(S)[d - 1] + Length(d) /\ Total(S)[d] <= Capacity(S)
  BY Zenon, <1>1, TotalAdds, PartsAdd
<1>3. PICK k \in 1..Length(d) : k = c[2]
  BY Zenon, <1>1
<1>4. PICK t \in Nat : t = Total(S)[d - 1] /\ Total(S)[d] = t + Length(d)
  BY Zenon, <1>2
<1>5. k \in Nat /\ k >= 1 /\ k <= Length(d) /\ k + t >= 1 /\ k + t <= t + Length(d)
  BY <1>2
<1>6. d \in Nat
  BY DEF All
<1> QED
  BY Zenon, <1>1, <1>2, <1>3, <1>4, <1>5, <1>6

\* Every place up to the capacity of S is the place of a cell.
LEMMA PlaceHasCell ==
  ASSUME chain \in Seq(Descriptor), NEW S, NEW i \in Nat, i >= 1, i <= Capacity(S)
  PROVE  \E c \in Cells : c[1] \in S /\ c[2] + Total(S)[c[1] - 1] = i
<1>1. PICK L \in Nat : L = Len(chain)
  BY Zenon, TotalAdds
<1>2. PICK f : f = Total(S)
  BY Zenon
<1>3. /\ f[0] = 0 /\ i <= f[L]
      /\ \A d \in 1..L : /\ d \in S => f[d] = f[d - 1] + Length(d)
                         /\ d \notin S => f[d] = f[d - 1]
      /\ \A n \in 0..L : f[n] \in Nat
  BY Zenon, <1>1, <1>2, TotalAdds DEF All, Capacity
<1> DEFINE Past == {n \in 0..L : i <= f[n]}
<1>4. PICK d \in Past : \A y \in Past : d <= y
  <2>1. L \in Past
    BY <1>3
  <2>2. Past \in SUBSET Nat
    OBVIOUS
  <2> HIDE DEF Past
  <2> QED
    BY Zenon, <2>1, <2>2, Least
<1>5. d \in 0..L /\ i <= f[d] /\ d # 0
  BY <1>3
<1>6. d - 1 \in 0..L /\ ~(i <= f[d - 1])
  <2>1. d - 1 \in 0..L /\ ~(d <= d - 1)
    BY <1>5
  <2> QED
    BY Zenon, <1>4, <2>1
<1>7. d \in S /\ f[d] = f[d - 1] + Length(d) /\ d \in 1..L /\ f[d - 1] \in Nat
  BY <1>3, <1>5, <1>6
<1>8. d \in All /\ Length(d) \in Nat
  BY Zenon, <1>1, <1>7, PartsAdd DEF All
<1>9. PICK k \in 1..Length(d) : k + f[d - 1] = i
  <2>1. i - f[d - 1] \in 1..Length(d) /\ (i - f[d - 1]) + f[d - 1] = i
    BY <1>5, <1>6, <1>7, <1>8
  <2> QED
    BY Zenon, <2>1
<1> QED
  BY Zenon, <1>2, <1>7, <1>8, <1>9, IsCell

\* The rank of a cell is its place among the cells of its direction.
LEMMA RankIs ==
  ASSUME NEW c \in Cells
  PROVE  /\ chain[c[1]].write => /\ c[1] \in Writable
                                 /\ Rank(c) = c[2] + Total(Writable)[c[1] - 1]
         /\ ~chain[c[1]].write => /\ c[1] \in Readable
                                  /\ Rank(c) = c[2] + Total(Readable)[c[1] - 1]
BY Zenon, CellIs DEF Rank, Writable, Readable

\* Ranks are positive numbers.
LEMMA RankNat ==
  ASSUME chain \in Seq(Descriptor), NEW c \in Cells
  PROVE  Rank(c) \in Nat /\ Rank(c) >= 1
<1>1. PICK S : c[1] \in S /\ Rank(c) = c[2] + Total(S)[c[1] - 1]
  <2>1. CASE chain[c[1]].write
    BY Zenon, <2>1, RankIs
  <2>2. CASE ~chain[c[1]].write
    BY Zenon, <2>2, RankIs
  <2> QED
    BY Zenon, <2>1, <2>2
<1>2. PICK k \in Nat, t \in Nat : k + t >= 1 /\ Rank(c) = k + t
  BY Zenon, <1>1, CellPlace
<1> QED
  BY <1>2

\* No step changes the chain, and so nothing that is said of the chain alone.
LEMMA SameChain ==
  ASSUME chain' = chain
  PROVE  /\ All' = All /\ Cells' = Cells
         /\ Writable' = Writable /\ Readable' = Readable /\ Empty' = Empty
         /\ \A d : Length(d)' = Length(d)
         /\ \A S : Total(S)' = Total(S) /\ Capacity(S)' = Capacity(S)
         /\ Capacity(Writable)' = Capacity(Writable)
         /\ Capacity(Readable)' = Capacity(Readable)
         /\ \A c : Rank(c)' = Rank(c)
         /\ StatusAt' = StatusAt /\ Payload' = Payload /\ PayloadLength' = PayloadLength
<1>1. \A d : Length(d)' = Length(d)
  BY DEF Length
<1>2. All' = All
  BY DEF All
<1>3. Writable' = Writable
  BY DEF All, Writable
<1>4. Readable' = Readable
  BY <1>2, <1>3 DEF Readable
<1>5. Empty' = Empty
  BY <1>1, <1>2 DEF Empty
<1>6. Cells' = Cells
  BY <1>1, <1>2 DEF Cells
<1>7. ASSUME NEW S PROVE Total(S)' = Total(S)
  BY DEF Total, Length, All
<1>8. ASSUME NEW S PROVE Capacity(S)' = Capacity(S)
  BY Zenon, <1>7 DEF Capacity
<1>9. Capacity(Writable)' = Capacity(Writable) /\ Capacity(Readable)' = Capacity(Readable)
  BY Zenon, <1>3, <1>4, <1>8
<1>10. ASSUME NEW c PROVE Rank(c)' = Rank(c)
  BY Zenon, <1>3, <1>4, <1>7 DEF Rank
<1>11. StatusAt' = StatusAt /\ Payload' = Payload
  BY Zenon DEF StatusAt, Payload
<1>12. PayloadLength' = PayloadLength
  BY Zenon, <1>8, <1>11 DEF PayloadLength
<1> QED
  BY Zenon, <1>1, <1>2, <1>3, <1>4, <1>5, <1>6, <1>7, <1>8, <1>9, <1>10, <1>11, <1>12

\* Nor does a step change the device or what is in the header.
LEMMA SamePlans ==
  ASSUME chain' = chain, handler' = handler, field' = field
  PROVE  /\ ReadPlan' = ReadPlan /\ parse_request' = parse_request /\ Counts' = Counts
         /\ count' = count => WritePlan' = WritePlan
<1>1. parse_request' = parse_request
  <2>1. Length(1)' = Length(1) /\ Length(2)' = Length(2)
    BY Zenon, SameChain
  <2> QED
    BY Zenon, <2>1 DEF parse_request, Plan
<1>2. ReadPlan' = ReadPlan
  BY Zenon, <1>1, SameChain DEF ReadPlan, read_chain, read_tx_frame, read_packet, parse_chain, Plan
<1>3. Counts' = Counts
  BY SameChain DEF Counts
<1>4. ASSUME count' = count PROVE WritePlan' = WritePlan
  BY Zenon, <1>4, SameChain DEF WritePlan, write_chain, write_rx_frame, write_packet, write_reply,
     write_response, fill_chain, Plan
<1> QED
  BY Zenon, <1>1, <1>2, <1>3, <1>4

\* A device that reads visits the readable descriptors.
LEMMA ReadVisits ==
  ASSUME handler \in Readers, chain \in Seq(Descriptor), ReadPlan.ok
  PROVE  ReadPlan.visit = Readable
<1>1. CASE handler \in {"consoleTx", "networkTx", "vsockTx"}
  BY Zenon, <1>1 DEF ReadPlan, read_chain, read_tx_frame, read_packet, Plan, Readable
<1>2. CASE handler = "fs"
  BY <1>2 DEF ReadPlan, parse_chain, Plan
<1>3. CASE handler = "memory"
  <2>1. parse_request.ok /\ ReadPlan.visit = {1}
    BY <1>3 DEF ReadPlan, parse_request, Plan
  <2>2. Len(chain) = 2 /\ ~chain[1].write /\ chain[2].write
    BY <2>1 DEF parse_request, Plan
  <2>3. Readable = {1}
    BY <2>2 DEF Readable, Writable, All
  <2> QED
    BY Zenon, <2>1, <2>3
<1> QED
  BY <1>1, <1>2, <1>3 DEF Readers

\* A device that writes visits the writable descriptors, and they have room for
\* what it writes, no more than that where it does not stop at the last byte.
LEMMA WriteVisits ==
  ASSUME handler \in Writers \cup {"fs", "memory"}, chain \in Seq(Descriptor),
         WritePlan.ok, count \in Counts, handler = "memory" => parse_request.ok
  PROVE  /\ WritePlan.visit = Writable
         /\ count <= Capacity(Writable)
         /\ WritePlan.breaks \/ count = Capacity(Writable)
<1>1. CASE handler \in {"consoleRx", "networkRx", "vsockRx"}
  <2>1. Readable = {} /\ count <= Capacity(All) /\ WritePlan.visit = All /\ WritePlan.breaks
    BY Zenon, <1>1 DEF WritePlan, write_chain, write_rx_frame, write_packet, Plan
  <2>2. Writable = All
    BY <2>1 DEF Readable, Writable
  <2> QED
    BY Zenon, <2>1, <2>2
<1>2. CASE handler = "fs"
  BY Zenon, <1>2 DEF WritePlan, write_reply, Plan
<1>3. CASE handler = "rng"
  <2>1. WritePlan.visit = Writable /\ count = Capacity(Writable)
    BY <1>3 DEF WritePlan, fill_chain, Plan, Counts
  <2>2. Capacity(Writable) \in Nat
    BY Zenon, CapacityNat
  <2> QED
    BY <2>1, <2>2
<1>4. CASE handler = "memory"
  <2>1. WritePlan.visit = {2} /\ count = RESPONSE_SIZE
    BY <1>4 DEF WritePlan, write_response, Plan, Counts
  <2>2. Len(chain) = 2 /\ ~chain[1].write /\ chain[2].write /\ Length(2) = RESPONSE_SIZE
    BY <1>4 DEF parse_request, Plan
  <2>3. Writable = {2} /\ 1 \in All /\ 2 \in All
    BY <2>2 DEF Writable, All
  <2>4. 1 \notin {2} /\ 2 \in {2} /\ 1 - 1 = 0 /\ 2 - 1 = 1
    OBVIOUS
  <2>5. /\ Total({2})[0] = 0
        /\ Total({2})[1] = Total({2})[1 - 1]
        /\ Total({2})[2] = Total({2})[2 - 1] + Length(2)
    <3>1. PICK S : S = {2}
      BY Zenon
    <3>2. Total(S)[0] = 0 /\ Total(S)[1] = Total(S)[1 - 1]
      BY Zenon, <2>3, <2>4, <3>1, TotalAdds
    <3>3. Total(S)[2] = Total(S)[2 - 1] + Length(2)
      BY ZenonT(30), <2>3, <2>4, <3>1, TotalAdds
    <3> QED
      BY Zenon, <3>1, <3>2, <3>3
  <2>6. Capacity(Writable) = 0 + RESPONSE_SIZE
    BY Zenon, <2>2, <2>3, <2>4, <2>5 DEF Capacity
  <2>7. Capacity(Writable) = count /\ count <= count
    BY <2>1, <2>6, LengthsNat
  <2> QED
    BY Zenon, <2>1, <2>3, <2>7
<1> QED
  BY <1>1, <1>2, <1>3, <1>4 DEF Writers

-----------------------------------------------------------------------------
(* The invariant.                                                          *)

\* How many bytes of the descriptors of S lie before the place of the loop.
Reached(S) == Total(S)[at - 1] + (IF part = 0 THEN 0 ELSE Before)

InputInv ==
  /\ chain \in Seq(Descriptor) /\ field \in Nat /\ sector \in Nat
  /\ handler # "block" => status = "none"

\* A loop runs after its checks passed, and holds a lease only of a descriptor
\* of its own direction.
PlaceInv ==
  /\ phase = "read" => handler \in Readers /\ ReadPlan.ok
  /\ phase = "reply" => handler \in {"fs", "memory"}
  /\ phase = "write" => handler \in Writers \cup {"fs", "memory"} /\ WritePlan.ok /\ count \in Counts
  /\ phase \in {"lease", "io"} => handler = "block"
  /\ handler = "memory" /\ phase \in {"reply", "write"} => parse_request.ok
  /\ part > 0 => /\ at \in All /\ part <= Len(Parts) + 1
                 /\ \/ phase = "read" /\ at \in Readable
                    \/ phase = "write" /\ at \in Writable

\* Cell i of what was read has rank i, and as many cells were read as lie
\* before the place of the loop.
GotInv ==
  handler \in Readers => \A i \in 1..Len(got) : ~chain[got[i][1]].write /\ Rank(got[i]) = i
ReadInv ==
  handler \in Readers =>
    /\ phase = "start" => got = <<>>
    /\ phase = "read" => Len(got) = Reached(Readable)
    /\ phase \in {"reply", "write", "done"} => Len(got) = Capacity(Readable)

\* As many bytes were written as lie before the place of the loop, up to count.
WriteInv ==
  /\ phase \in {"start", "read", "reply", "lease", "io"} => offset = 0
  /\ phase = "write" => offset = Smaller(count, Reached(Writable))

BlockInv ==
  /\ handler = "block" /\ phase \in {"start", "lease", "io"} => got = <<>> /\ status = "none"
  /\ phase \in {"lease", "io"} => WellFormed

IInv ==
  /\ TypeOK /\ InputInv /\ PlaceInv /\ GotInv /\ ReadInv /\ WriteInv /\ BlockInv
  /\ WrittenIsPrefix /\ UsedIsWritten /\ StatusIsTruthful

-----------------------------------------------------------------------------
(* What a step leaves as it is.                                            *)

\* The request a step works on.
Kept == UNCHANGED <<input, blockVars>>

\* Its parts, one by one.
LEMMA KeptIs ==
  ASSUME Kept
  PROVE  /\ chain' = chain /\ handler' = handler /\ field' = field
         /\ type' = type /\ sector' = sector /\ read_only' = read_only
         /\ flush_supported' = flush_supported /\ status' = status
         /\ Start' = Start /\ Base' = Base
<1>1. /\ chain' = chain /\ handler' = handler /\ field' = field
      /\ type' = type /\ sector' = sector /\ read_only' = read_only
      /\ flush_supported' = flush_supported /\ status' = status
  BY DEF Kept, input, blockVars, blockInput
<1> QED
  BY Zenon, <1>1 DEF Start, Base

\* What was read stays as it should be.
LEMMA ReadKept ==
  ASSUME IInv, Kept, got' = got
  PROVE  GotInv' /\ got' \in Seq(Cells')
<1>1. chain' = chain /\ handler' = handler
  BY Zenon, KeptIs
<1>2. \A c : Rank(c)' = Rank(c)
  BY Zenon, <1>1, SameChain
<1>3. Cells' = Cells
  BY Zenon, <1>1, SameChain
<1>4. GotInv'
  BY Zenon, <1>1, <1>2 DEF IInv, GotInv
<1> QED
  BY Zenon, <1>3, <1>4 DEF IInv, TypeOK

\* What was written stays as it should be.
LEMMA MemKept ==
  ASSUME IInv, Kept, mem' = mem, offset' = offset
  PROVE  WrittenIsPrefix' /\ mem' \in [Cells' -> Nat]
<1>1. chain' = chain /\ Base' = Base
  BY Zenon, KeptIs
<1>2. \A c : Rank(c)' = Rank(c)
  BY Zenon, <1>1, SameChain
<1>3. Cells' = Cells
  BY Zenon, <1>1, SameChain
<1>4. WrittenIsPrefix'
  BY Zenon, <1>1, <1>2, <1>3 DEF IInv, WrittenIsPrefix
<1> QED
  BY Zenon, <1>3, <1>4 DEF IInv, TypeOK

\* The input stays as it should be.
LEMMA InputKept ==
  ASSUME IInv, Kept
  PROVE  InputInv' /\ status' \in {"none", "OK", "IOERR", "UNSUPP"}
         /\ handler' \in Readers \cup Writers \cup {"block"} /\ Len(chain') = Len(chain)
         /\ Readers' = Readers /\ Writers' = Writers
<1>1. Readers' = Readers /\ Writers' = Writers
  BY Zenon DEF Readers, Writers
<1> QED
  BY Zenon, KeptIs, <1>1 DEF IInv, InputInv, TypeOK

\* What a status says stays true while the payload is not moved.
LEMMA StatusKept ==
  ASSUME IInv, Kept, offset' = offset, got' = got
  PROVE  StatusIsTruthful'
<1>1. PayloadLength' = PayloadLength
  BY Zenon, KeptIs, SameChain
<1>2. /\ Start' = Start /\ type' = type /\ status' = status /\ read_only' = read_only
      /\ handler' = handler
  BY Zenon, KeptIs
<1> QED
  BY Zenon, <1>1, <1>2 DEF IInv, StatusIsTruthful

\* The other devices have no status.
LEMMA NotBlock ==
  ASSUME IInv, Kept, handler # "block", phase' \notin {"lease", "io"}
  PROVE  BlockInv' /\ StatusIsTruthful'
<1>1. status' = "none" /\ handler' # "block"
  BY Zenon, KeptIs DEF IInv, InputInv
<1>2. "none" # "OK"
  OBVIOUS
<1>3. BlockInv'
  BY Zenon, <1>1 DEF BlockInv
<1>4. StatusIsTruthful'
  BY Zenon, <1>1, <1>2 DEF StatusIsTruthful
<1> QED
  BY Zenon, <1>3, <1>4

\* A block request stays well-formed.
LEMMA WellFormedKept ==
  ASSUME chain' = chain, type' = type, WellFormed PROVE WellFormed'
<1>1. /\ StatusAt' = StatusAt /\ Payload' = Payload /\ All' = All
      /\ Length(1)' = Length(1) /\ Length(StatusAt)' = Length(StatusAt)
      /\ \A d : Length(d)' = Length(d)
  BY Zenon, SameChain
<1> QED
  BY Zenon, <1>1 DEF WellFormed

\* Reads only the chain and the place of the loop.
LEMMA ReachedSame ==
  ASSUME chain' = chain, at' = at, part' = part
  PROVE  \A S : Reached(S)' = Reached(S)
<1>1. \A S : Total(S)' = Total(S)
  BY Zenon, SameChain
<1>2. Before' = Before
  BY Zenon DEF Before, Parts
<1> QED
  BY Zenon, <1>1, <1>2 DEF Reached

\* At the beginning of the chain nothing lies before the place of the loop.
LEMMA ReachedFirst ==
  ASSUME chain \in Seq(Descriptor), chain' = chain, at' = 1, part' = 0
  PROVE  \A S : Reached(S)' = 0
<1>1. ASSUME NEW S PROVE Total(S)'[0] = 0
  BY Zenon, TotalAdds, SameChain
<1>2. 1 - 1 = 0 /\ 0 + 0 = 0
  OBVIOUS
<1>3. ASSUME NEW S PROVE Reached(S)' = Total(S)'[1 - 1] + 0
  BY Zenon DEF Reached
<1> QED
  BY Zenon, <1>1, <1>2, <1>3

Phases == {"start", "read", "reply", "write", "lease", "io", "done", "err"}

\* A step that moves no bytes has only its place in the request to answer for.
LEMMA ControlStep ==
  ASSUME IInv, Kept, UNCHANGED <<got, mem, offset>>,
         phase' \in Phases, at' \in 1..Len(chain) + 1, part' \in Nat,
         count' \in Nat, used' \in U32,
         PlaceInv', ReadInv', WriteInv', UsedIsWritten', BlockInv'
  PROVE  IInv'
<1>1. got' = got /\ mem' = mem /\ offset' = offset
  OBVIOUS
<1>2. /\ GotInv' /\ got' \in Seq(Cells') /\ WrittenIsPrefix' /\ mem' \in [Cells' -> Nat]
      /\ StatusIsTruthful' /\ InputInv'
  BY Zenon, <1>1, ReadKept, MemKept, StatusKept, InputKept
<1>3. offset' \in Nat
  BY Zenon, <1>1 DEF IInv, TypeOK
<1>4. TypeOK'
  BY Zenon, <1>2, <1>3, InputKept DEF TypeOK, Phases
<1> QED
  BY Zenon, <1>2, <1>4 DEF IInv

\* The beginning of the chain is a place in it.
LEMMA FirstPlace ==
  ASSUME chain \in Seq(Descriptor)
  PROVE  1 \in 1..Len(chain) + 1 /\ 0 \in Nat /\ ~(0 > 0)
OBVIOUS

\* A request that fails keeps what it has done.
LEMMA ErrStep ==
  ASSUME IInv, Kept, UNCHANGED <<got, mem, offset, used>>, Become("err"), count' \in Nat
  PROVE  IInv'
<1>1. UNCHANGED <<got, mem, offset>> /\ used' = used
  OBVIOUS
<1>2. phase' = "err" /\ at' = 1 /\ part' = 0
  BY Zenon DEF Become
<1>3. used' \in U32 /\ chain \in Seq(Descriptor)
  BY Zenon, <1>1 DEF IInv, TypeOK, InputInv
<1>4. at' \in 1..Len(chain) + 1 /\ part' \in Nat /\ ~(part' > 0)
  BY Zenon, <1>2, <1>3, FirstPlace
<1>5. /\ phase' \in Phases
      /\ phase' \notin {"start", "read", "reply", "write", "lease", "io", "done"}
  BY <1>2 DEF Phases
<1>6. PlaceInv'
  BY Zenon, <1>4, <1>5 DEF PlaceInv
<1>7. ReadInv' /\ WriteInv' /\ UsedIsWritten' /\ BlockInv'
  BY Zenon, <1>5 DEF ReadInv, WriteInv, UsedIsWritten, BlockInv
<1> QED
  BY Zenon, <1>1, <1>3, <1>4, <1>5, <1>6, <1>7, ControlStep

\* A step that changes none of the variables the invariant speaks of.
LEMMA SameStep ==
  ASSUME IInv, Kept, UNCHANGED <<got, mem, offset>>, phase' = phase, at' = at, part' = part,
         count' = count, used' = used
  PROVE  IInv'
<1>1. got' = got /\ offset' = offset
  OBVIOUS
<1>2. chain' = chain /\ handler' = handler /\ field' = field /\ status' = status /\ type' = type
  BY Zenon, KeptIs
<1>3. /\ All' = All /\ Writable' = Writable /\ Readable' = Readable
      /\ Capacity(Readable)' = Capacity(Readable) /\ Parts' = Parts
  BY Zenon, <1>1, <1>2, SameChain DEF Parts
<1>4. ReadPlan' = ReadPlan /\ WritePlan' = WritePlan /\ Counts' = Counts /\ parse_request' = parse_request
  BY Zenon, <1>1, <1>2, SamePlans
<1>5. Reached(Readable)' = Reached(Readable) /\ Reached(Writable)' = Reached(Writable)
  BY Zenon, <1>1, <1>2, <1>3, ReachedSame
<1>6. PlaceInv'
  BY Zenon, <1>1, <1>2, <1>3, <1>4 DEF IInv, PlaceInv, Readers, Writers
<1>7. ReadInv'
  BY Zenon, <1>1, <1>2, <1>3, <1>5 DEF IInv, ReadInv, Readers
<1>8. WriteInv'
  BY Zenon, <1>1, <1>5 DEF IInv, WriteInv, Smaller
<1>9. UsedIsWritten'
  BY Zenon, <1>1, <1>2 DEF IInv, UsedIsWritten
<1>10. WellFormed => WellFormed'
  BY Zenon, <1>2, WellFormedKept
<1>11. BlockInv'
  BY Zenon, <1>1, <1>2, <1>10 DEF IInv, BlockInv
<1>12. /\ phase' \in Phases /\ at' \in 1..Len(chain) + 1 /\ part' \in Nat
       /\ count' \in Nat /\ used' \in U32
  BY Zenon, <1>1 DEF IInv, TypeOK, Phases
<1> QED
  BY Zenon, <1>1, <1>6, <1>7, <1>8, <1>9, <1>11, <1>12, ControlStep

\* The memory is revoked.
LEMMA RevokeStep == ASSUME IInv, Revoke, Kept PROVE IInv'
<1>1. /\ UNCHANGED <<got, mem, offset>> /\ used' = used /\ count' = count
      /\ phase' = phase /\ at' = at /\ part' = part
  BY DEF Revoke
<1> QED
  BY Zenon, <1>1, SameStep

-----------------------------------------------------------------------------
(* The place of the loop.                                                  *)

\* A descriptor that is passed over adds nothing.
LEMMA ReachedSkip ==
  ASSUME chain \in Seq(Descriptor), chain' = chain, at \in All, part = 0,
         at' = at + 1, part' = 0, NEW S, at \notin S
  PROVE  Reached(S)' = Reached(S)
<1>1. at' - 1 = at
  BY DEF All
<1>2. Total(S)[at] = Total(S)[at - 1] /\ Total(S)' = Total(S)
  BY Zenon, TotalAdds, SameChain
<1>3. Reached(S)' = Total(S)'[at' - 1] + 0 /\ Reached(S) = Total(S)[at - 1] + 0
  BY Zenon DEF Reached
<1> QED
  BY Zenon, <1>1, <1>2, <1>3

\* A lease adds nothing.
LEMMA ReachedLease ==
  ASSUME chain \in Seq(Descriptor), chain' = chain, at \in All, part = 0,
         at' = at, part' = 1, NEW S
  PROVE  Reached(S)' = Reached(S)
<1>1. 1 - 1 = 0 /\ 1 # 0
  OBVIOUS
<1>2. Total(S)' = Total(S)
  BY Zenon, SameChain
<1>3. Before' = 0
  BY Zenon, <1>1, PartsAdd DEF Before, Parts
<1> QED
  BY Zenon, <1>1, <1>2, <1>3 DEF Reached

\* A part adds its bytes.
LEMMA ReachedPart ==
  ASSUME chain \in Seq(Descriptor), chain' = chain, at \in All, part \in Nat, AtPart,
         at' = at, part' = part + 1, NEW S
  PROVE  /\ Parts[part] \in Nat /\ Before \in Nat /\ Before + Parts[part] <= Length(at)
         /\ Total(S)[at - 1] \in Nat /\ Length(at) \in Nat
         /\ Reached(S) = Total(S)[at - 1] + Before
         /\ Reached(S)' = Total(S)[at - 1] + (Before + Parts[part])
<1>1. PICK L \in Nat : L = Len(Parts)
  BY Zenon, PartsAdd DEF Parts
<1>2. part > 0 /\ part <= L
  BY Zenon, <1>1 DEF AtPart
<1>3. part \in 1..L /\ part \in 0..L /\ part - 1 \in 0..L /\ part # 0 /\ part' # 0 /\ part' - 1 = part
  BY <1>2
<1>4. /\ Parts[part] \in Nat /\ Sums(Parts)[part - 1] \in Nat /\ Length(at) \in Nat
      /\ Sums(Parts)[part] = Sums(Parts)[part - 1] + Parts[part]
      /\ Sums(Parts)[part] <= Length(at)
  BY Zenon, <1>1, <1>3, PartsAdd DEF Parts
<1>5. Total(S)' = Total(S) /\ Total(S)[at - 1] \in Nat
  BY Zenon, SameChain, TotalAdds
<1>6. Before' = Before + Parts[part] /\ Before \in Nat
  <2>1. Parts' = Parts /\ Before' = Sums(Parts')[part' - 1]
    BY Zenon DEF Before, Parts
  <2> QED
    BY Zenon, <1>3, <1>4, <2>1 DEF Before
<1>7. Reached(S) = Total(S)[at - 1] + Before
  BY Zenon, <1>3 DEF Reached
<1>8. Reached(S)' = Total(S)[at - 1] + (Before + Parts[part])
  BY Zenon, <1>3, <1>5, <1>6 DEF Reached
<1> QED
  BY Zenon, <1>4, <1>5, <1>6, <1>7, <1>8 DEF Before

\* Past its last part, the whole descriptor was added.
LEMMA ReachedDrop ==
  ASSUME chain \in Seq(Descriptor), chain' = chain, at \in All, part \in Nat, part > 0,
         part > Len(Parts), part <= Len(Parts) + 1,
         at' = at + 1, part' = 0, NEW S, at \in S
  PROVE  Reached(S)' = Reached(S)
<1>1. PICK L \in Nat : L = Len(Parts)
  BY Zenon, PartsAdd DEF Parts
<1>2. part > L /\ part <= L + 1
  BY Zenon, <1>1
<1>3. part - 1 = L /\ part # 0
  BY <1>2
<1>4. Before = Length(at)
  BY ZenonT(30), <1>1, <1>3, PartsAdd DEF Before, Parts
<1>5. Total(S)' = Total(S) /\ Total(S)[at] = Total(S)[at - 1] + Length(at) /\ Total(S)[at] \in Nat
  BY Zenon, SameChain, TotalAdds
<1>6. at' - 1 = at
  BY DEF All
<1>7. Reached(S)' = Total(S)[at] + 0
  <2>1. Reached(S)' = Total(S)'[at' - 1] + 0
    BY Zenon DEF Reached
  <2> QED
    BY Zenon, <1>5, <1>6, <2>1
<1>8. Reached(S) = Total(S)[at]
  BY Zenon, <1>3, <1>4, <1>5 DEF Reached
<1>9. \A n \in Nat : n + 0 = n
  OBVIOUS
<1> QED
  BY Zenon, <1>5, <1>7, <1>8, <1>9

\* Past the last descriptor, all of them were added.
LEMMA ReachedEnd ==
  ASSUME chain \in Seq(Descriptor), at \in 1..Len(chain) + 1, at \notin All, part = 0, NEW S
  PROVE  Reached(S) = Capacity(S)
<1>1. PICK L \in Nat : L = Len(chain)
  BY Zenon, TotalAdds
<1>2. at \in 1..L + 1 /\ at \notin 1..L
  BY Zenon, <1>1 DEF All
<1>3. at - 1 = L
  BY <1>2
<1>4. Reached(S) = Capacity(S) + 0 /\ Capacity(S) \in Nat
  BY Zenon, <1>1, <1>3, CapacityNat DEF Reached, Capacity
<1> QED
  BY <1>4

-----------------------------------------------------------------------------
(* The steps that move no bytes.                                           *)

\* A device starts to read.
LEMMA StartReadStep == ASSUME IInv, StartRead, Kept PROVE IInv'
<1>1. /\ UNCHANGED <<got, mem, offset>> /\ UNCHANGED <<got, mem, offset, used>>
      /\ got' = got /\ offset' = offset /\ used' = used /\ count' = count
      /\ phase = "start" /\ handler \in Readers
      /\ Become(IF ReadPlan.ok THEN "read" ELSE "err")
  BY DEF StartRead
<1>2. count' \in Nat /\ used' \in U32 /\ chain \in Seq(Descriptor)
  BY Zenon, <1>1 DEF IInv, TypeOK, InputInv
<1>3. CASE ~ReadPlan.ok
  <2>1. Become("err")
    BY Zenon, <1>1, <1>3
  <2> QED
    BY Zenon, <1>1, <1>2, <2>1, ErrStep
<1>4. CASE ReadPlan.ok
  <2>1. phase' = "read" /\ at' = 1 /\ part' = 0
    BY Zenon, <1>1, <1>4 DEF Become
  <2>2. chain' = chain /\ handler' = handler /\ field' = field
    BY Zenon, KeptIs
  <2>3. at' \in 1..Len(chain) + 1 /\ part' \in Nat /\ ~(part' > 0)
    BY Zenon, <1>2, <2>1, FirstPlace
  <2>4. /\ phase' \in Phases
        /\ phase' \notin {"start", "reply", "write", "lease", "io", "done"}
    BY <2>1 DEF Phases
  <2>5. PlaceInv'
    <3>1. ReadPlan'.ok
      BY Zenon, <1>4, <2>2, SamePlans
    <3>2. handler' \in Readers'
      BY Zenon, <1>1, <2>2 DEF Readers
    <3> QED
      BY Zenon, <2>3, <2>4, <3>1, <3>2 DEF PlaceInv
  <2>6. ReadInv'
    <3>1. got' = <<>>
      BY Zenon, <1>1 DEF IInv, ReadInv
    <3>2. Reached(Readable)' = 0
      BY Zenon, <1>2, <2>1, <2>2, ReachedFirst
    <3>3. Len(got') = 0
      BY <3>1
    <3> QED
      BY Zenon, <2>4, <3>2, <3>3 DEF ReadInv
  <2>7. WriteInv'
    BY Zenon, <1>1, <2>4 DEF IInv, WriteInv
  <2>8. UsedIsWritten' /\ BlockInv'
    <3>1. handler # "block"
      BY <1>1 DEF Readers
    <3> QED
      BY Zenon, <2>4, <3>1, NotBlock DEF UsedIsWritten
  <2> QED
    BY Zenon, <1>1, <1>2, <2>3, <2>4, <2>5, <2>6, <2>7, <2>8, ControlStep
<1> QED
  BY Zenon, <1>3, <1>4

\* The bytes a device has for the guest are a number of bytes.
LEMMA CountsNat == ASSUME chain \in Seq(Descriptor) PROVE Counts \subseteq Nat
<1>1. Capacity(Writable) \in Nat
  BY Zenon, CapacityNat
<1> QED
  BY <1>1, LengthsNat DEF Counts

\* A device starts to write.
LEMMA StartWriteStep == ASSUME IInv, StartWrite, Kept PROVE IInv'
<1>1. /\ UNCHANGED <<got, mem, offset>>
      /\ got' = got /\ mem' = mem /\ offset' = offset /\ count' \in Counts
      /\ phase = "reply" \/ (phase = "start" /\ handler \in Writers)
      /\ IF handler = "fs" /\ count' = 0
         THEN Done(0)
         ELSE Become(IF WritePlan'.ok THEN "write" ELSE "err") /\ UNCHANGED used
  BY DEF StartWrite
<1>2. used \in U32 /\ chain \in Seq(Descriptor) /\ offset' = 0
  BY Zenon, <1>1 DEF IInv, TypeOK, InputInv, WriteInv
<1>3. count' \in Nat
  BY Zenon, <1>1, <1>2, CountsNat
<1>4. handler \in Writers \cup {"fs", "memory"}
  BY Zenon, <1>1 DEF IInv, PlaceInv
<1>5. handler # "block" /\ (handler \in Readers => phase = "reply")
  BY Zenon, <1>1, <1>4 DEF Writers, Readers
<1>6. chain' = chain /\ handler' = handler /\ field' = field
  BY Zenon, KeptIs
<1>7. handler' \in Readers' => Len(got') = Capacity(Readable)'
  <2>1. Capacity(Readable)' = Capacity(Readable)
    BY Zenon, <1>6, SameChain
  <2> QED
    BY Zenon, <1>1, <1>5, <1>6, <2>1 DEF IInv, ReadInv, Readers
<1>8. ASSUME phase' \in {"write", "done"}, at' = 1, part' = 0
      PROVE  /\ at' \in 1..Len(chain) + 1 /\ part' \in Nat /\ ~(part' > 0)
             /\ phase' \in Phases /\ phase' \notin {"start", "read", "reply", "lease", "io"}
             /\ ReadInv' /\ BlockInv'
  <2>1. at' \in 1..Len(chain) + 1 /\ part' \in Nat /\ ~(part' > 0)
    BY Zenon, <1>2, <1>8, FirstPlace
  <2>2. phase' \in Phases /\ phase' \notin {"start", "read", "reply", "lease", "io"}
    BY <1>8 DEF Phases
  <2>3. ReadInv'
    BY Zenon, <1>7, <2>2 DEF ReadInv
  <2> QED
    BY Zenon, <1>5, <2>1, <2>2, <2>3, NotBlock
<1>9. CASE handler = "fs" /\ count' = 0
  <2>1. phase' = "done" /\ at' = 1 /\ part' = 0 /\ used' = 0
    BY Zenon, <1>1, <1>9 DEF Done, Become
  <2>2. phase' \in {"write", "done"} /\ phase' # "write"
    BY <2>1
  <2>3. PlaceInv'
    BY Zenon, <1>8, <2>1, <2>2 DEF PlaceInv
  <2>4. WriteInv' /\ UsedIsWritten'
    BY Zenon, <1>2, <1>5, <1>6, <2>1, <2>2 DEF WriteInv, UsedIsWritten
  <2>5. used' \in U32
    BY Zenon, <2>1, LengthsNat
  <2> QED
    BY Zenon, <1>1, <1>3, <1>8, <2>1, <2>2, <2>3, <2>4, <2>5, ControlStep
<1>10. CASE ~(handler = "fs" /\ count' = 0) /\ ~WritePlan'.ok
  <2>1. Become("err") /\ used' = used
    BY Zenon, <1>1, <1>10
  <2>2. UNCHANGED <<got, mem, offset, used>>
    BY Zenon, <1>1, <2>1
  <2> QED
    BY Zenon, <1>3, <2>1, <2>2, ErrStep
<1>11. CASE ~(handler = "fs" /\ count' = 0) /\ WritePlan'.ok
  <2>1. phase' = "write" /\ at' = 1 /\ part' = 0 /\ used' = used
    BY Zenon, <1>1, <1>11 DEF Become
  <2>2. phase' \in {"write", "done"} /\ phase' # "done"
    BY <2>1
  <2>3. PlaceInv'
    <3>1. handler' \in Writers' \cup {"fs", "memory"}
      BY Zenon, <1>4, <1>6 DEF Writers
    <3>2. count' \in Counts'
      BY Zenon, <1>1, <1>6, SamePlans
    <3>3. handler = "memory" => parse_request.ok
      <4>1. handler = "memory" => phase = "reply"
        BY Zenon, <1>1 DEF Writers
      <4> QED
        BY Zenon, <4>1 DEF IInv, PlaceInv
    <3>4. handler' = "memory" => parse_request'.ok
      BY Zenon, <1>6, <3>3, SamePlans
    <3> QED
      BY Zenon, <1>8, <1>11, <2>1, <2>2, <3>1, <3>2, <3>4 DEF PlaceInv
  <2>4. WriteInv'
    <3>1. Reached(Writable)' = 0
      BY Zenon, <1>2, <1>6, <2>1, ReachedFirst
    <3>2. Smaller(count', 0) = 0
      BY <1>3 DEF Smaller
    <3> QED
      BY Zenon, <1>2, <3>1, <3>2 DEF WriteInv, Smaller
  <2>5. UsedIsWritten'
    BY Zenon, <2>2 DEF UsedIsWritten
  <2>6. used' \in U32
    BY Zenon, <1>2, <2>1
  <2> QED
    BY Zenon, <1>1, <1>3, <1>8, <2>1, <2>2, <2>3, <2>4, <2>5, <2>6, ControlStep
<1> QED
  BY Zenon, <1>9, <1>10, <1>11

\* The descriptors that the loop is about.
Way == IF phase = "read" THEN Readable ELSE Writable

\* A step of a loop that goes no further in the bytes.
LEMMA LoopStep ==
  ASSUME IInv, Kept, UNCHANGED <<got, mem, offset, count, used, phase>>,
         phase \in {"read", "write"},
         at' \in 1..Len(chain) + 1, part' \in Nat,
         part' > 0 => at' \in Way /\ at' \in All /\ part' <= Len(Parts') + 1,
         \A S : S = Way => Reached(S)' = Reached(S)
  PROVE  IInv'
<1>1. /\ UNCHANGED <<got, mem, offset>>
      /\ got' = got /\ offset' = offset /\ count' = count /\ used' = used /\ phase' = phase
  OBVIOUS
<1>2. count' \in Nat /\ used' \in U32
  BY Zenon, <1>1 DEF IInv, TypeOK
<1>3. chain' = chain /\ handler' = handler /\ field' = field
  BY Zenon, KeptIs
<1>4. All' = All /\ Readable' = Readable /\ Writable' = Writable
  BY Zenon, <1>3, SameChain
<1>5. /\ phase' \in Phases
      /\ phase' \notin {"start", "reply", "lease", "io", "done"}
  BY <1>1 DEF Phases
<1>6. handler # "block"
  BY Zenon DEF IInv, PlaceInv, Readers, Writers
<1>7. PlaceInv'
  <2>1. /\ ReadPlan' = ReadPlan /\ WritePlan' = WritePlan /\ Counts' = Counts
        /\ parse_request' = parse_request
    BY Zenon, <1>1, <1>3, SamePlans
  <2>2. part' > 0 => /\ at' \in All' /\ part' <= Len(Parts') + 1
                     /\ \/ phase' = "read" /\ at' \in Readable'
                        \/ phase' = "write" /\ at' \in Writable'
    BY Zenon, <1>1, <1>4 DEF Way
  <2>3. /\ phase = "read" => handler \in Readers /\ ReadPlan.ok
        /\ phase = "write" => handler \in Writers \cup {"fs", "memory"} /\ WritePlan.ok /\ count \in Counts
        /\ handler = "memory" /\ phase = "write" => parse_request.ok
    BY Zenon DEF IInv, PlaceInv
  <2>4. /\ phase' = "read" => handler' \in Readers' /\ ReadPlan'.ok
        /\ phase' = "write" => handler' \in Writers' \cup {"fs", "memory"} /\ WritePlan'.ok /\ count' \in Counts'
        /\ handler' = "memory" /\ phase' = "write" => parse_request'.ok
    BY Zenon, <1>1, <1>3, <2>1, <2>3 DEF Readers, Writers
  <2> QED
    BY Zenon, <1>5, <2>2, <2>4 DEF PlaceInv
<1>8. phase = "read" => Reached(Readable)' = Reached(Readable)
  BY Zenon, <1>4 DEF Way
<1>9. phase = "write" => Reached(Writable)' = Reached(Writable)
  <2>1. "write" # "read"
    OBVIOUS
  <2> QED
    BY Zenon, <1>4, <2>1 DEF Way
<1>10. ReadInv'
  <2>1. Capacity(Readable)' = Capacity(Readable)
    BY Zenon, <1>3, SameChain
  <2> QED
    BY Zenon, <1>1, <1>3, <1>8, <2>1 DEF IInv, ReadInv, Readers
<1>11. WriteInv'
  BY Zenon, <1>1, <1>9 DEF IInv, WriteInv, Smaller
<1>12. UsedIsWritten' /\ BlockInv'
  BY Zenon, <1>5, <1>6, NotBlock DEF UsedIsWritten
<1> QED
  BY Zenon, <1>1, <1>2, <1>5, <1>7, <1>10, <1>11, <1>12, ControlStep

\* The loop comes to a descriptor.
LEMMA LeaseStep ==
  ASSUME IInv, Kept, phase \in {"read", "write"}, NEW plan, Lease(plan), plan.visit = Way
  PROVE  IInv'
<1>1. /\ UNCHANGED <<got, mem, offset, used>>
      /\ got' = got /\ mem' = mem /\ offset' = offset /\ count' = count /\ used' = used
      /\ at \in All /\ part = 0
      /\ \/ Become("err")
         \/ at \notin plan.visit /\ at' = at + 1 /\ phase' = phase /\ part' = part
         \/ at \in plan.visit /\ part' = 1 /\ phase' = phase /\ at' = at
  BY DEF Lease
<1>2. chain \in Seq(Descriptor) /\ count' \in Nat
  BY Zenon, <1>1 DEF IInv, TypeOK, InputInv
<1>3. chain' = chain
  BY Zenon, KeptIs
<1>4. CASE Become("err")
  BY Zenon, <1>1, <1>2, <1>4, ErrStep
<1>5. CASE at \notin plan.visit /\ at' = at + 1 /\ phase' = phase /\ part' = part
  <2>1. UNCHANGED <<got, mem, offset, count, used, phase>> /\ part' = 0
    BY Zenon, <1>1, <1>5
  <2>2. at' \in 1..Len(chain) + 1
    BY <1>1, <1>2, <1>5 DEF All
  <2>3. part' \in Nat /\ ~(part' > 0)
    BY Zenon, <1>2, <2>1, FirstPlace
  <2>4. \A S : S = Way => Reached(S)' = Reached(S)
    BY Zenon, <1>1, <1>2, <1>3, <1>5, <2>1, ReachedSkip
  <2> QED
    BY Zenon, <2>1, <2>2, <2>3, <2>4, LoopStep
<1>6. CASE at \in plan.visit /\ part' = 1 /\ phase' = phase /\ at' = at
  <2>1. UNCHANGED <<got, mem, offset, count, used, phase>>
    BY Zenon, <1>1, <1>6
  <2>2. at' \in 1..Len(chain) + 1
    BY Zenon, <1>6 DEF IInv, TypeOK
  <2>3. part' \in Nat /\ part' <= Len(Parts') + 1
    <3>1. Len(Parts') \in Nat
      BY Zenon, <1>1, <1>2, <1>3, <1>6, PartsAdd DEF Parts
    <3> QED
      BY <1>6, <3>1
  <2>4. \A S : S = Way => Reached(S)' = Reached(S)
    BY Zenon, <1>1, <1>2, <1>3, <1>6, ReachedLease
  <2> QED
    BY Zenon, <1>1, <1>6, <2>1, <2>2, <2>3, <2>4, LoopStep
<1> QED
  BY Zenon, <1>1, <1>4, <1>5, <1>6

\* What a loop leases is what it is about.
LEMMA PlanVisits ==
  ASSUME IInv
  PROVE  /\ phase = "read" => ReadPlan.visit = Way
         /\ phase = "write" => /\ WritePlan.visit = Way /\ Way = Writable
                               /\ count <= Capacity(Writable)
                               /\ WritePlan.breaks \/ count = Capacity(Writable)
<1>1. chain \in Seq(Descriptor)
  BY Zenon DEF IInv, InputInv
<1>2. ASSUME phase = "read" PROVE ReadPlan.visit = Way
  <2>1. handler \in Readers /\ ReadPlan.ok
    BY Zenon, <1>2 DEF IInv, PlaceInv
  <2> QED
    BY Zenon, <1>1, <1>2, <2>1, ReadVisits DEF Way
<1>3. ASSUME phase = "write"
      PROVE  /\ WritePlan.visit = Way /\ Way = Writable
             /\ count <= Capacity(Writable)
             /\ WritePlan.breaks \/ count = Capacity(Writable)
  <2>1. /\ handler \in Writers \cup {"fs", "memory"} /\ WritePlan.ok /\ count \in Counts
        /\ handler = "memory" => parse_request.ok
    BY Zenon, <1>3 DEF IInv, PlaceInv
  <2>2. Way = Writable
    BY <1>3 DEF Way
  <2> QED
    BY Zenon, <1>1, <2>1, <2>2, WriteVisits
<1> QED
  BY Zenon, <1>2, <1>3

\* Reading comes to a descriptor.
LEMMA ReadLeaseStep == ASSUME IInv, ReadLease, Kept PROVE IInv'
<1>1. phase = "read" /\ Lease(ReadPlan)
  BY Zenon DEF ReadLease
<1> QED
  BY Zenon, <1>1, PlanVisits, LeaseStep

\* Writing comes to a descriptor.
LEMMA WriteLeaseStep == ASSUME IInv, WriteLease, Kept PROVE IInv'
<1>1. phase = "write" /\ Lease(WritePlan)
  BY Zenon DEF WriteLease
<1> QED
  BY Zenon, <1>1, PlanVisits, LeaseStep

\* A lease is dropped.
LEMMA DropStep == ASSUME IInv, phase \in {"read", "write"}, Drop, Kept PROVE IInv'
<1>1. /\ UNCHANGED <<got, mem, offset, count, used, phase>>
      /\ part > 0 /\ part > Len(Parts) /\ at' = at + 1 /\ part' = 0
  BY DEF Drop
<1>2. chain \in Seq(Descriptor) /\ part \in Nat
  BY Zenon DEF IInv, InputInv, TypeOK
<1>3. at \in All /\ part <= Len(Parts) + 1 /\ at \in Way
  BY Zenon, <1>1 DEF IInv, PlaceInv, Way
<1>4. at' \in 1..Len(chain) + 1
  BY <1>1, <1>2, <1>3 DEF All
<1>5. part' \in Nat /\ ~(part' > 0)
  BY Zenon, <1>1, <1>2, FirstPlace
<1>6. chain' = chain
  BY Zenon, KeptIs
<1>7. \A S : S = Way => Reached(S)' = Reached(S)
  BY Zenon, <1>1, <1>2, <1>3, <1>6, ReachedDrop
<1> QED
  BY Zenon, <1>1, <1>4, <1>5, <1>7, LoopStep

\* A loop past the last descriptor holds no lease.
LEMMA NoLeaseAtEnd ==
  ASSUME IInv, at \notin All
  PROVE  part = 0 /\ \A S : Reached(S) = Capacity(S)
<1>1. part \in Nat /\ ~(part > 0)
  BY Zenon DEF IInv, TypeOK, PlaceInv
<1>2. part = 0
  BY <1>1
<1>3. chain \in Seq(Descriptor) /\ at \in 1..Len(chain) + 1
  BY Zenon DEF IInv, TypeOK, InputInv
<1> QED
  BY Zenon, <1>2, <1>3, ReachedEnd

\* All is read.
LEMMA ReadDoneStep == ASSUME IInv, ReadDone, Kept PROVE IInv'
<1>1. /\ phase = "read" /\ at \notin All
      /\ UNCHANGED <<got, mem, offset>> /\ got' = got /\ mem' = mem /\ offset' = offset
      /\ count' = count
  BY DEF ReadDone
<1>2. \/ Become("err") /\ used' = used
      \/ handler \in {"fs", "memory"} /\ Become("reply") /\ used' = used
      \/ handler \notin {"fs", "memory"} /\ Done(TransmitLength)
  <2>1. (CASE ~Accepted -> Become("err") /\ UNCHANGED used
           [] Accepted /\ handler \in {"fs", "memory"} -> Become("reply") /\ UNCHANGED used
           [] OTHER -> Done(TransmitLength))
    BY Zenon DEF ReadDone
  <2>2. CASE ~Accepted
    BY Zenon, <2>1, <2>2
  <2>3. CASE Accepted /\ handler \in {"fs", "memory"}
    BY Zenon, <2>1, <2>3
  <2>4. CASE Accepted /\ handler \notin {"fs", "memory"}
    BY Zenon, <2>1, <2>4
  <2> QED
    BY Zenon, <2>2, <2>3, <2>4
<1>3. /\ count' \in Nat /\ used \in U32 /\ field \in Nat /\ chain \in Seq(Descriptor)
      /\ handler \in Readers /\ offset' = 0 /\ Len(got) = Reached(Readable)
      /\ handler = "memory" => ReadPlan.ok
  BY Zenon, <1>1 DEF IInv, TypeOK, InputInv, PlaceInv, WriteInv, ReadInv
<1>4. chain' = chain /\ handler' = handler /\ field' = field
  BY Zenon, KeptIs
<1>5. handler # "block"
  BY Zenon, <1>3 DEF Readers
<1>6. Len(got') = Capacity(Readable)'
  <2>1. Len(got) = Capacity(Readable)
    BY Zenon, <1>1, <1>3, NoLeaseAtEnd
  <2>2. Capacity(Readable)' = Capacity(Readable)
    BY Zenon, <1>4, SameChain
  <2> QED
    BY Zenon, <1>1, <2>1, <2>2
<1>7. CASE Become("err") /\ used' = used
  <2>1. UNCHANGED <<got, mem, offset, used>>
    BY Zenon, <1>1, <1>7
  <2> QED
    BY Zenon, <1>3, <1>7, <2>1, ErrStep
<1>8. ASSUME phase' \in {"reply", "done"}, at' = 1, part' = 0, used' \in U32, UsedIsWritten',
             phase' = "reply" => handler \in {"fs", "memory"}
      PROVE  IInv'
  <2>1. at' \in 1..Len(chain) + 1 /\ part' \in Nat /\ ~(part' > 0)
    BY Zenon, <1>3, <1>8, FirstPlace
  <2>2. phase' \in Phases /\ phase' \notin {"start", "read", "write", "lease", "io"}
    BY <1>8 DEF Phases
  <2>3. ReadInv' /\ WriteInv' /\ BlockInv'
    BY Zenon, <1>3, <1>5, <1>6, <2>2, NotBlock DEF ReadInv, WriteInv
  <2>4. handler = "memory" => parse_request.ok
    BY Zenon, <1>3 DEF ReadPlan
  <2>5. handler' = "memory" => parse_request'.ok
    BY Zenon, <1>4, <2>4, SamePlans
  <2>6. PlaceInv'
    BY Zenon, <1>4, <1>8, <2>1, <2>2, <2>5 DEF PlaceInv
  <2> QED
    BY Zenon, <1>1, <1>3, <1>8, <2>1, <2>2, <2>3, <2>6, ControlStep
<1>9. CASE handler \in {"fs", "memory"} /\ Become("reply") /\ used' = used
  <2>1. phase' = "reply" /\ at' = 1 /\ part' = 0
    BY Zenon, <1>9 DEF Become
  <2>2. phase' # "done" /\ phase' \in {"reply", "done"}
    BY <2>1
  <2>3. UsedIsWritten'
    BY Zenon, <2>2 DEF UsedIsWritten
  <2> QED
    BY Zenon, <1>3, <1>8, <1>9, <2>1, <2>2, <2>3
<1>10. CASE handler \notin {"fs", "memory"} /\ Done(TransmitLength)
  <2>1. phase' = "done" /\ at' = 1 /\ part' = 0 /\ used' = TransmitLength
    BY Zenon, <1>10 DEF Done, Become
  <2>2. phase' # "reply" /\ phase' \in {"reply", "done"}
    BY <2>1
  <2>3. TransmitLength \in U32 /\ (handler # "vsockTx" => TransmitLength = 0)
    BY <1>3, ChainAssumption DEF TransmitLength, Smaller, U32
  <2>4. UsedIsWritten'
    BY Zenon, <1>3, <1>4, <1>5, <2>1, <2>3 DEF UsedIsWritten
  <2> QED
    BY Zenon, <1>8, <2>1, <2>2, <2>3, <2>4
<1> QED
  BY Zenon, <1>2, <1>7, <1>9, <1>10

\* All is written.
LEMMA WriteDoneStep == ASSUME IInv, WriteDone, Kept PROVE IInv'
<1>1. /\ phase = "write" /\ (Full(WritePlan) \/ at \notin All)
      /\ UNCHANGED <<got, mem, offset>> /\ got' = got /\ mem' = mem /\ offset' = offset
      /\ count' = count
      /\ \/ Become("err") /\ used' = used
         \/ \E n \in {offset, count} : ~(n > MaxU32) /\ Done(n)
  BY DEF WriteDone
<1>2. /\ count \in Nat /\ offset \in Nat /\ used \in U32 /\ chain \in Seq(Descriptor)
      /\ handler \in Writers \cup {"fs", "memory"}
      /\ offset = Smaller(count, Reached(Writable))
      /\ handler \in Readers => Len(got) = Capacity(Readable)
  BY Zenon, <1>1 DEF IInv, TypeOK, InputInv, PlaceInv, WriteInv, ReadInv
<1>3. chain' = chain /\ handler' = handler
  BY Zenon, KeptIs
<1>4. offset = count
  <2>1. CASE at \notin All
    <3>1. Reached(Writable) = Capacity(Writable) /\ count <= Capacity(Writable) /\ Capacity(Writable) \in Nat
      BY Zenon, <1>1, <1>2, <2>1, NoLeaseAtEnd, PlanVisits, CapacityNat
    <3> QED
      BY <1>2, <3>1 DEF Smaller
  <2>2. CASE Full(WritePlan)
    BY Zenon, <2>2 DEF Full
  <2> QED
    BY Zenon, <1>1, <2>1, <2>2
<1>5. CASE Become("err") /\ used' = used
  <2>1. UNCHANGED <<got, mem, offset, used>> /\ count' \in Nat
    BY Zenon, <1>1, <1>2, <1>5
  <2> QED
    BY Zenon, <1>5, <2>1, ErrStep
<1>6. CASE \E n \in {offset, count} : ~(n > MaxU32) /\ Done(n)
  <2>1. phase' = "done" /\ at' = 1 /\ part' = 0 /\ used' = offset'
    BY Zenon, <1>1, <1>4, <1>6 DEF Done, Become
  <2>2. at' \in 1..Len(chain) + 1 /\ part' \in Nat /\ ~(part' > 0)
    BY Zenon, <1>2, <2>1, FirstPlace
  <2>3. /\ phase' \in Phases
        /\ phase' \notin {"start", "read", "reply", "write", "lease", "io"}
    BY <2>1 DEF Phases
  <2>4. handler # "block"
    BY Zenon, <1>2 DEF Writers
  <2>5. PlaceInv'
    BY Zenon, <2>2, <2>3 DEF PlaceInv
  <2>6. ReadInv'
    <3>1. Capacity(Readable)' = Capacity(Readable)
      BY Zenon, <1>3, SameChain
    <3> QED
      BY Zenon, <1>1, <1>2, <1>3, <2>3, <3>1 DEF ReadInv, Readers
  <2>7. WriteInv' /\ BlockInv' /\ UsedIsWritten'
    BY Zenon, <1>3, <2>1, <2>3, <2>4, NotBlock DEF WriteInv, UsedIsWritten
  <2>8. used' \in U32 /\ count' \in Nat
    <3>1. ~(offset > MaxU32)
      BY Zenon, <1>4, <1>6
    <3> QED
      BY <1>1, <1>2, <2>1, <3>1, ChainAssumption DEF U32
  <2> QED
    BY Zenon, <1>1, <2>2, <2>3, <2>5, <2>6, <2>7, <2>8, ControlStep
<1> QED
  BY Zenon, <1>1, <1>5, <1>6

-----------------------------------------------------------------------------
(* The steps that move bytes.                                              *)

\* A list that is made member by member.
LEMMA ListIs ==
  ASSUME NEW T, NEW n \in Nat, NEW q \in [1..n -> T]
  PROVE  q \in Seq(T) /\ Len(q) = n
OBVIOUS

\* The place of a loop with a lease, and the bytes of the part there.
LEMMA AtPartIs ==
  ASSUME IInv, Kept, phase \in {"read", "write"}, AtPart, at' = at, part' = part + 1,
         NEW S, S = Way
  PROVE  /\ at \in All /\ at \in S /\ chain[at] \in Descriptor
         /\ part' \in Nat /\ part' <= Len(Parts') + 1
         /\ Parts[part] \in Nat /\ Before \in Nat /\ Before + Parts[part] <= Length(at)
         /\ Total(S)[at - 1] \in Nat /\ Length(at) \in Nat
         /\ Reached(S) = Total(S)[at - 1] + Before
         /\ Reached(S)' = Total(S)[at - 1] + (Before + Parts[part])
<1>1. chain \in Seq(Descriptor) /\ part \in Nat /\ part > 0 /\ part <= Len(Parts)
  BY Zenon DEF IInv, TypeOK, InputInv, AtPart
<1>2. at \in All /\ at \in S
  BY Zenon, <1>1 DEF IInv, PlaceInv, Way
<1>3. chain[at] \in Descriptor
  BY <1>1, <1>2 DEF All
<1>4. chain' = chain
  BY Zenon, KeptIs
<1>5. part' \in Nat /\ part' <= Len(Parts') + 1
  <2>1. Len(Parts) \in Nat /\ Parts' = Parts
    BY Zenon, <1>1, <1>2, <1>4, PartsAdd DEF Parts
  <2> QED
    BY <1>1, <2>1
<1> QED
  BY Zenon, <1>1, <1>2, <1>3, <1>4, <1>5, ReachedPart

\* A part of a loop keeps its place in the request.
LEMMA PartPlace ==
  ASSUME IInv, Kept, phase \in {"read", "write"}, AtPart,
         UNCHANGED <<phase, at, count, used>>, part' = part + 1
  PROVE  /\ PlaceInv' /\ BlockInv' /\ StatusIsTruthful' /\ UsedIsWritten' /\ InputInv'
         /\ phase' \in Phases /\ at' \in 1..Len(chain') + 1 /\ part' \in Nat
         /\ count' \in Nat /\ used' \in U32
         /\ handler # "block" /\ phase' \notin {"start", "reply", "lease", "io", "done"}
<1>1. phase' = phase /\ at' = at /\ count' = count /\ used' = used
  OBVIOUS
<1>2. chain' = chain /\ handler' = handler /\ field' = field
  BY Zenon, KeptIs
<1>3. count' \in Nat /\ used' \in U32 /\ at' \in 1..Len(chain') + 1
  BY Zenon, <1>1, <1>2 DEF IInv, TypeOK
<1>4. phase' \in Phases /\ phase' \notin {"start", "reply", "lease", "io", "done"}
  BY <1>1 DEF Phases
<1>5. handler # "block"
  BY Zenon DEF IInv, PlaceInv, Readers, Writers
<1>6. part' \in Nat /\ part' <= Len(Parts') + 1 /\ at \in All /\ at \in Way
  BY Zenon, <1>1, AtPartIs
<1>7. PlaceInv'
  <2>1. /\ ReadPlan' = ReadPlan /\ WritePlan' = WritePlan /\ Counts' = Counts
        /\ parse_request' = parse_request
    BY Zenon, <1>1, <1>2, SamePlans
  <2>2. All' = All /\ Readable' = Readable /\ Writable' = Writable
    BY Zenon, <1>2, SameChain
  <2>3. /\ at' \in All' /\ part' <= Len(Parts') + 1
        /\ \/ phase' = "read" /\ at' \in Readable'
           \/ phase' = "write" /\ at' \in Writable'
    BY Zenon, <1>1, <1>6, <2>2 DEF Way
  <2>4. /\ phase = "read" => handler \in Readers /\ ReadPlan.ok
        /\ phase = "write" => handler \in Writers \cup {"fs", "memory"} /\ WritePlan.ok /\ count \in Counts
        /\ handler = "memory" /\ phase = "write" => parse_request.ok
    BY Zenon DEF IInv, PlaceInv
  <2>5. /\ phase' = "read" => handler' \in Readers' /\ ReadPlan'.ok
        /\ phase' = "write" => handler' \in Writers' \cup {"fs", "memory"} /\ WritePlan'.ok /\ count' \in Counts'
        /\ handler' = "memory" /\ phase' = "write" => parse_request'.ok
    BY Zenon, <1>1, <1>2, <2>1, <2>4 DEF Readers, Writers
  <2> QED
    BY Zenon, <1>4, <2>3, <2>5 DEF PlaceInv
<1>8. UsedIsWritten' /\ BlockInv' /\ StatusIsTruthful'
  BY Zenon, <1>4, <1>5, NotBlock DEF UsedIsWritten
<1> QED
  BY Zenon, <1>3, <1>4, <1>5, <1>6, <1>7, <1>8, InputKept

\* A part is read: its cells follow the ones that were read before.
LEMMA ReadPartStep == ASSUME IInv, ReadPart, Kept PROVE IInv'
<1>1. /\ phase = "read" /\ AtPart /\ part' = part + 1
      /\ UNCHANGED <<phase, at, count, used>> /\ at' = at /\ phase' = phase
      /\ mem' = mem /\ offset' = offset
      /\ got' = got \o [k \in 1..Parts[part] |-> <<at, Before + k>>]
  BY DEF ReadPart
<1>2. /\ chain \in Seq(Descriptor) /\ handler \in Readers /\ got \in Seq(Cells)
      /\ Len(got) = Reached(Readable) /\ offset' = 0 /\ offset' \in Nat
      /\ \A i \in 1..Len(got) : ~chain[got[i][1]].write /\ Rank(got[i]) = i
  BY Zenon, <1>1 DEF IInv, TypeOK, InputInv, PlaceInv, WriteInv, ReadInv, GotInv
<1>3. chain' = chain /\ handler' = handler
  BY Zenon, KeptIs
<1>4. Readable = Way
  BY Zenon, <1>1 DEF Way
<1>5. PICK p \in Nat, b \in Nat, t \in Nat :
        /\ p = Parts[part] /\ b = Before /\ t = Total(Readable)[at - 1]
        /\ b + p <= Length(at) /\ Length(at) \in Nat
        /\ at \in All /\ at \in Readable
        /\ Len(got) = t + b /\ Reached(Readable)' = t + (b + p)
  <2>1. \A S : S = Way => Reached(S)' = Total(S)[at - 1] + (Before + Parts[part])
    BY Zenon, <1>1, AtPartIs
  <2>2. Readable' = Readable
    BY Zenon, <1>3, SameChain
  <2>3. Reached(Readable)' = Total(Readable)[at - 1] + (Before + Parts[part])
    BY Zenon, <1>4, <2>1, <2>2
  <2> QED
    BY Zenon, <1>1, <1>2, <1>4, <2>3, AtPartIs
<1>6. ~chain[at].write
  BY Zenon, <1>5 DEF Readable, Writable
<1>7. ASSUME NEW k \in 1..p
      PROVE  <<at, b + k>> \in Cells /\ <<at, b + k>>[1] = at /\ Rank(<<at, b + k>>) = (b + k) + t
  <2>1. b + k \in 1..Length(at)
    BY <1>5
  <2>2. <<at, b + k>> \in Cells /\ <<at, b + k>>[1] = at /\ <<at, b + k>>[2] = b + k
    BY Zenon, <1>5, <2>1, IsCell
  <2> QED
    BY Zenon, <1>5, <1>6, <2>2, RankIs
<1>8. PICK q : q = [k \in 1..p |-> <<at, b + k>>]
  BY Zenon
<1>9. q \in [1..p -> Cells] /\ \A k \in 1..p : q[k] = <<at, b + k>>
  BY Zenon, <1>7, <1>8
<1>10. q \in Seq(Cells) /\ Len(q) = p
  BY Zenon, <1>9, ListIs
<1>11. got' = got \o q
  BY Zenon, <1>1, <1>5, <1>8
<1>12. PICK l \in Nat :
         /\ l = Len(got) /\ got' \in Seq(Cells) /\ Len(got') = l + p
         /\ \A i \in 1..l : got'[i] = got[i]
         /\ \A k \in 1..p : got'[l + k] = <<at, b + k>>
  <2>1. /\ got \o q \in Seq(Cells) /\ Len(got) \in Nat /\ Len(got \o q) = Len(got) + Len(q)
        /\ \A i \in 1..Len(got) : (got \o q)[i] = got[i]
        /\ \A i \in 1..Len(q) : (got \o q)[Len(got) + i] = q[i]
    <3>1. got \in Seq(Cells) /\ q \in Seq(Cells)
      BY Zenon, <1>2, <1>10
    <3> QED
      BY <3>1
  <2>2. /\ got' \in Seq(Cells) /\ Len(got') = Len(got) + p
        /\ \A i \in 1..Len(got) : got'[i] = got[i]
        /\ \A i \in 1..p : got'[Len(got) + i] = q[i]
    BY Zenon, <1>10, <1>11, <2>1
  <2> QED
    BY ZenonT(30), <1>9, <2>1, <2>2
<1>13. ASSUME NEW i \in 1..l + p PROVE ~chain[got'[i][1]].write /\ Rank(got'[i]) = i
  <2>1. CASE i \in 1..l
    BY Zenon, <1>2, <1>12, <2>1
  <2>2. CASE i \notin 1..l
    <3>1. PICK k \in 1..p : i = l + k
      <4>1. i - l \in 1..p /\ i = l + (i - l)
        BY <2>2
      <4> QED
        BY Zenon, <4>1
    <3>2. i = (b + k) + t
      <4>1. l = t + b
        BY Zenon, <1>5, <1>12
      <4> QED
        BY <3>1, <4>1
    <3>3. got'[i] = <<at, b + k>>
      BY Zenon, <1>12, <3>1
    <3> QED
      BY Zenon, <1>6, <1>7, <3>2, <3>3
  <2> QED
    BY Zenon, <2>1, <2>2
<1>14. GotInv' /\ got' \in Seq(Cells')
  <2>1. Cells' = Cells /\ \A c : Rank(c)' = Rank(c)
    BY Zenon, <1>3, SameChain
  <2> QED
    BY Zenon, <1>3, <1>12, <1>13, <2>1 DEF GotInv
<1>15. WrittenIsPrefix' /\ mem' \in [Cells' -> Nat]
  BY Zenon, <1>1, MemKept
<1>16. /\ PlaceInv' /\ BlockInv' /\ StatusIsTruthful' /\ UsedIsWritten' /\ InputInv'
       /\ phase' \in Phases /\ at' \in 1..Len(chain') + 1 /\ part' \in Nat
       /\ count' \in Nat /\ used' \in U32
  BY Zenon, <1>1, PartPlace
<1>17. phase' \notin {"start", "reply", "write", "done"}
  BY <1>1
<1>18. ReadInv'
  <2>1. Len(got') = Reached(Readable)'
    <3>1. l = t + b
      BY Zenon, <1>5, <1>12
    <3>2. l + p = t + (b + p)
      BY <3>1
    <3> QED
      BY Zenon, <1>5, <1>12, <3>2
  <2> QED
    BY Zenon, <1>17, <2>1 DEF ReadInv
<1>19. WriteInv'
  BY Zenon, <1>2, <1>17 DEF WriteInv
<1>20. TypeOK'
  BY Zenon, <1>2, <1>14, <1>15, <1>16, InputKept DEF TypeOK, Phases
<1> QED
  BY Zenon, <1>14, <1>15, <1>16, <1>18, <1>19, <1>20 DEF IInv

\* What a part of p bytes takes, with t + b bytes before it, where total are to
\* be written and done are: when it takes any, all before it is written.
Takes(t, b, p, length, total, done, n) ==
  /\ n \in Nat /\ n <= p /\ done + n \in Nat
  /\ n > 0 => done = t + b
  /\ b + n <= length /\ done + n <= t + length
  /\ done + n = Smaller(total, t + (b + p))

\* It is so when the part is one of a descriptor of that length.
LEMMA TakesPart ==
  ASSUME NEW t \in Nat, NEW b \in Nat, NEW p \in Nat, NEW length \in Nat,
         NEW total \in Nat, NEW done \in Nat,
         NEW n, b + p <= length, done = Smaller(total, t + b), n = Smaller(p, total - done)
  PROVE  Takes(t, b, p, length, total, done, n)
BY DEF Smaller, Takes

\* Byte k of a descriptor, when n bytes are written behind its first b, with t
\* bytes before the descriptor: it is one of them, or their number does not tell.
ByteWritten(t, b, n, done, k) ==
  /\ k \in b + 1 .. b + n => done + k - b = k + t /\ k + t <= done + n
  /\ k \notin b + 1 .. b + n => (k + t <= done + n <=> k + t <= done)

\* It is so when all that lies before is written.
LEMMA ByteIs ==
  ASSUME NEW t \in Nat, NEW b \in Nat, NEW n \in Nat, NEW k \in Nat, NEW done \in Nat,
         n > 0 => done = t + b
  PROVE  ByteWritten(t, b, n, done, k)
BY DEF ByteWritten

\* The byte of place r, before or behind the descriptor: their number does not
\* tell either.
ByteBeside(t, length, n, done, r) ==
  r <= t \/ r > t + length => (r <= done + n <=> r <= done)

\* It is so when all that lies before is written.
LEMMA BesideIs ==
  ASSUME NEW t \in Nat, NEW b \in Nat, NEW n \in Nat, NEW length \in Nat, NEW done \in Nat,
         NEW r \in Nat, n > 0 => done = t + b, done + n <= t + length
  PROVE  ByteBeside(t, length, n, done, r)
BY DEF ByteBeside

\* The memory m has the first n bytes of what a device writes and no others.
Front(m, n) ==
  \A c \in Cells : m[c] = IF chain[c[1]].write /\ Rank(c) <= n THEN Rank(c) ELSE 0

\* What the steps below use of the order of the numbers.
LEMMA Orders ==
  /\ \A x, y \in Nat : x + y \in Nat /\ (x < y \/ y < x \/ x = y)
  /\ \A x \in Nat : ~(x < x)
  /\ \A x, y, z \in Nat : x <= y /\ y <= z => x <= z
  /\ \A k, t, w \in Nat : k >= 1 /\ w <= t => k + t > w
OBVIOUS

\* The place of a cell among those of S, seen from a descriptor d of S: it is in
\* it, or before it, or behind it.
LEMMA PlaceFrom ==
  ASSUME chain \in Seq(Descriptor), NEW S, NEW d \in All, d \in S, NEW c \in Cells, c[1] \in S,
         NEW place, place = c[2] + Total(S)[c[1] - 1]
  PROVE  /\ c[1] = d => place = c[2] + Total(S)[d - 1]
         /\ c[1] # d => \/ place <= Total(S)[d - 1]
                        \/ place > Total(S)[d - 1] + Length(d)
<1>1. PICK e \in All : e = c[1]
  BY Zenon, CellIs
<1>2. place = c[2] + Total(S)[e - 1]
  BY Zenon, <1>1
<1>3. PICK k \in Nat, t \in Nat, u \in Nat :
        /\ k = c[2] /\ t = Total(S)[e - 1] /\ u = Total(S)[e]
        /\ k + t <= u /\ k >= 1
  <2>1. /\ c[2] \in Nat /\ Total(S)[c[1] - 1] \in Nat /\ Total(S)[c[1]] \in Nat
        /\ c[2] + Total(S)[c[1] - 1] <= Total(S)[c[1]] /\ c[2] >= 1
    BY Zenon, CellPlace
  <2> QED
    BY Zenon, <1>1, <2>1
<1>4. PICK v \in Nat, w \in Nat :
        /\ v = Total(S)[d - 1] /\ w = Total(S)[d] /\ w = v + Length(d)
  <2>1. d - 1 \in 0..Len(chain) /\ d \in 0..Len(chain)
    BY Zenon, TotalAdds
  <2>2. /\ Total(S)[d - 1] \in Nat /\ Total(S)[d] \in Nat
        /\ Total(S)[d] = Total(S)[d - 1] + Length(d)
    BY Zenon, <2>1, TotalAdds
  <2> QED
    BY Zenon, <2>2
<1>5. e \in Nat /\ d \in Nat
  BY DEF All
<1>6. CASE e < d
  <2>1. e \in 0..d - 1 /\ d - 1 \in 0..Len(chain)
    BY <1>6 DEF All
  <2>2. u <= v
    BY Zenon, <1>3, <1>4, <2>1, TotalAdds
  <2>3. k + t <= v /\ e # d
    BY ZenonT(30), <1>3, <1>4, <1>5, <1>6, <2>2, Orders
  <2> QED
    BY Zenon, <1>1, <1>2, <1>3, <1>4, <2>3
<1>7. CASE d < e
  <2>1. d \in 0..e - 1 /\ e - 1 \in 0..Len(chain)
    BY <1>7 DEF All
  <2>2. w <= t
    BY Zenon, <1>3, <1>4, <2>1, TotalAdds
  <2>3. k + t > w /\ e # d
    BY ZenonT(30), <1>3, <1>4, <1>5, <1>7, <2>2, Orders
  <2> QED
    BY Zenon, <1>1, <1>2, <1>3, <1>4, <2>3
<1>8. CASE e = d
  BY Zenon, <1>1, <1>2, <1>8
<1>9. e < d \/ d < e \/ e = d
  BY Zenon, <1>5, Orders
<1> QED
  BY Zenon, <1>6, <1>7, <1>8, <1>9

\* The same of the rank of a writable cell.
LEMMA RankFrom ==
  ASSUME chain \in Seq(Descriptor), NEW d \in Writable, NEW c \in Cells, chain[c[1]].write
  PROVE  /\ c[1] = d => Rank(c) = c[2] + Total(Writable)[d - 1]
         /\ c[1] # d => \/ Rank(c) <= Total(Writable)[d - 1]
                        \/ Rank(c) > Total(Writable)[d - 1] + Length(d)
<1>1. c[1] \in Writable /\ Rank(c) = c[2] + Total(Writable)[c[1] - 1] /\ d \in All
  BY Zenon, RankIs DEF Writable
<1> QED
  BY Zenon, <1>1, PlaceFrom

\* Copying n bytes behind b bytes of a descriptor gives every cell what it
\* should have.
LEMMA CopyIs ==
  ASSUME chain \in Seq(Descriptor), NEW d \in Writable, offset \in Nat,
         NEW b \in Nat, NEW n \in Nat, b + n <= Length(d),
         n > 0 => offset = Total(Writable)[d - 1] + b,
         offset + n <= Total(Writable)[d - 1] + Length(d), Front(mem, offset)
  PROVE  Front(Copy(d, b, n), offset + n) /\ Copy(d, b, n) \in [Cells -> Nat]
<1>1. PICK t \in Nat : /\ t = Total(Writable)[d - 1]
                       /\ n > 0 => offset = t + b
                       /\ offset + n <= t + Length(d) /\ Length(d) \in Nat
  <2>1. d \in All
    BY Zenon DEF Writable
  <2> QED
    BY Zenon, <2>1, TotalAdds, PartsAdd
<1>2. ASSUME NEW c \in Cells
      PROVE  Copy(d, b, n)[c] = IF chain[c[1]].write /\ Rank(c) <= offset + n
                                THEN Rank(c) ELSE 0
  <2>1. Copy(d, b, n)[c] = IF c[1] = d /\ c[2] \in b + 1 .. b + n
                           THEN offset + c[2] - b ELSE mem[c]
    BY Zenon DEF Copy
  <2>2. mem[c] = IF chain[c[1]].write /\ Rank(c) <= offset THEN Rank(c) ELSE 0
    BY Zenon DEF Front
  <2>3. PICK r \in Nat : r = Rank(c) /\ r >= 1
    BY Zenon, RankNat
  <2>4. CASE ~chain[c[1]].write
    <3>1. c[1] # d
      BY Zenon, <2>4 DEF Writable
    <3> QED
      BY Zenon, <2>1, <2>2, <2>4, <3>1
  <2>5. CASE chain[c[1]].write /\ c[1] = d
    <3>1. PICK k \in Nat : k = c[2] /\ r = k + t
      <4>1. c[2] \in Nat
        BY Zenon, <2>5, CellPlace
      <4> QED
        BY Zenon, <1>1, <2>3, <2>5, <4>1, RankFrom
    <3>2. ByteWritten(t, b, n, offset, k)
      BY Zenon, <1>1, ByteIs
    <3>3. CASE k \in b + 1 .. b + n
      <4>1. offset + k - b = k + t /\ k + t <= offset + n
        BY Zenon, <3>3, <3>2 DEF ByteWritten
      <4> QED
        BY Zenon, <2>1, <2>3, <2>5, <3>1, <3>3, <4>1
    <3>4. CASE k \notin b + 1 .. b + n
      <4>1. k + t <= offset + n <=> k + t <= offset
        BY Zenon, <3>4, <3>2 DEF ByteWritten
      <4> QED
        BY Zenon, <2>1, <2>2, <2>3, <3>1, <3>4, <4>1
    <3> QED
      BY Zenon, <3>3, <3>4
  <2>6. CASE chain[c[1]].write /\ c[1] # d
    <3>1. r <= t \/ r > t + Length(d)
      BY Zenon, <1>1, <2>3, <2>6, RankFrom
    <3>2. ByteBeside(t, Length(d), n, offset, r)
      BY Zenon, <1>1, <2>3, BesideIs
    <3>3. r <= offset + n <=> r <= offset
      BY Zenon, <3>1, <3>2 DEF ByteBeside
    <3> QED
      BY Zenon, <2>1, <2>2, <2>3, <2>6, <3>3
  <2> QED
    BY Zenon, <2>4, <2>5, <2>6
<1>3. \A c \in Cells : Copy(d, b, n)[c] \in Nat
  BY Zenon, <1>2, RankNat, ZeroNat
<1> QED
  BY Zenon, <1>2, <1>3 DEF Copy, Front

\* A part is written: its cells follow the ones that were written before.
LEMMA WritePartStep == ASSUME IInv, WritePart, Kept PROVE IInv'
<1>1. PICK n :
        /\ n = Smaller(Parts[part], count - offset)
        /\ phase = "write" /\ AtPart /\ part' = part + 1
        /\ UNCHANGED <<phase, at, count, used>> /\ at' = at /\ phase' = phase /\ count' = count
        /\ got' = got /\ mem' = Copy(at, Before, n) /\ offset' = offset + n
  BY DEF WritePart
<1>2. /\ chain \in Seq(Descriptor) /\ count \in Nat /\ offset \in Nat
      /\ offset = Smaller(count, Reached(Writable))
      /\ handler \in Readers => Len(got) = Capacity(Readable)
  BY Zenon, <1>1 DEF IInv, TypeOK, InputInv, WriteInv, ReadInv
<1>3. chain' = chain /\ handler' = handler
  BY Zenon, KeptIs
<1>4. /\ PlaceInv' /\ BlockInv' /\ StatusIsTruthful' /\ UsedIsWritten' /\ InputInv'
      /\ phase' \in Phases /\ at' \in 1..Len(chain') + 1 /\ part' \in Nat
      /\ count' \in Nat /\ used' \in U32
      /\ handler # "block" /\ phase' \notin {"start", "reply", "lease", "io", "done"}
  BY Zenon, <1>1, PartPlace
<1>5. Writable = Way
  BY <1>1 DEF Way
<1>6. PICK p \in Nat, b \in Nat, t \in Nat :
        /\ p = Parts[part] /\ b = Before /\ t = Total(Writable)[at - 1]
        /\ b + p <= Length(at) /\ Length(at) \in Nat /\ at \in Writable
        /\ Reached(Writable) = t + b /\ Reached(Writable)' = t + (b + p)
  <2>1. \A S : S = Way => Reached(S)' = Total(S)[at - 1] + (Before + Parts[part])
    BY Zenon, <1>1, AtPartIs
  <2>2. Writable' = Writable
    BY Zenon, <1>3, SameChain
  <2>3. Reached(Writable)' = Total(Writable)[at - 1] + (Before + Parts[part])
    BY Zenon, <1>5, <2>1, <2>2
  <2> QED
    BY Zenon, <1>1, <1>5, <2>3, AtPartIs
<1>7. Takes(t, b, p, Length(at), count, offset, n)
  <2>1. offset = Smaller(count, t + b) /\ n = Smaller(p, count - offset)
    BY Zenon, <1>1, <1>2, <1>6
  <2> QED
    BY Zenon, <1>2, <1>6, <2>1, TakesPart
<1>8. /\ n \in Nat /\ offset' \in Nat /\ offset' = Smaller(count, t + (b + p))
      /\ b + n <= Length(at)
      /\ n > 0 => offset = Total(Writable)[at - 1] + b
      /\ offset + n <= Total(Writable)[at - 1] + Length(at)
  BY Zenon, <1>1, <1>6, <1>7 DEF Takes
<1>9. Base = 0
  BY Zenon, <1>4 DEF Base
<1>10. \A c \in Cells : Base + Rank(c) = Rank(c)
  <2>1. \A r \in Nat : 0 + r = r
    OBVIOUS
  <2> QED
    BY Zenon, <1>2, <1>9, <2>1, RankNat
<1>11. Front(mem, offset)
  BY Zenon, <1>10 DEF IInv, WrittenIsPrefix, Front
<1>12. Front(mem', offset') /\ mem' \in [Cells -> Nat]
  <2>1. Front(Copy(at, b, n), offset + n) /\ Copy(at, b, n) \in [Cells -> Nat]
    BY Zenon, <1>2, <1>6, <1>8, <1>11, CopyIs
  <2> QED
    BY Zenon, <1>1, <1>6, <2>1
<1>13. WrittenIsPrefix' /\ mem' \in [Cells' -> Nat]
  <2>1. Cells' = Cells /\ \A c : Rank(c)' = Rank(c)
    BY Zenon, <1>3, SameChain
  <2>2. Base' = Base
    BY Zenon, KeptIs
  <2> QED
    BY Zenon, <1>3, <1>10, <1>12, <2>1, <2>2 DEF WrittenIsPrefix, Front
<1>14. GotInv' /\ got' \in Seq(Cells')
  BY Zenon, <1>1, ReadKept
<1>15. ReadInv'
  <2>1. Capacity(Readable)' = Capacity(Readable)
    BY Zenon, <1>3, SameChain
  <2>2. phase' # "read"
    BY <1>1
  <2> QED
    BY Zenon, <1>1, <1>2, <1>3, <1>4, <2>1, <2>2 DEF ReadInv, Readers
<1>16. WriteInv'
  <2>1. phase' \notin {"start", "read", "reply", "lease", "io"}
    BY <1>1
  <2> QED
    BY Zenon, <1>1, <1>6, <1>8, <2>1 DEF WriteInv, Smaller
<1>17. TypeOK'
  BY Zenon, <1>4, <1>8, <1>13, <1>14, InputKept DEF TypeOK, Phases
<1> QED
  BY Zenon, <1>4, <1>13, <1>14, <1>15, <1>16, <1>17 DEF IInv

-----------------------------------------------------------------------------
(* The block device.                                                       *)

\* A block request that is parsed and leased.
LEMMA BlockPlace ==
  ASSUME IInv, Kept, handler = "block", UNCHANGED <<got, mem, offset, count, used>>,
         phase \in {"start", "lease"}, phase' \in {"lease", "io"}, WellFormed,
         at' \in 1..Len(chain) + 1, part' = 0
  PROVE  IInv'
<1>1. /\ UNCHANGED <<got, mem, offset>>
      /\ got' = got /\ offset' = offset /\ count' = count /\ used' = used
  OBVIOUS
<1>2. count' \in Nat /\ used' \in U32 /\ offset' = 0 /\ got' = <<>> /\ status = "none"
  BY Zenon, <1>1 DEF IInv, TypeOK, WriteInv, BlockInv
<1>3. part' \in Nat /\ ~(part' > 0)
  OBVIOUS
<1>4. chain' = chain /\ type' = type /\ handler' = "block" /\ status' = "none"
  BY Zenon, <1>2, KeptIs
<1>5. phase' \in Phases /\ phase' \notin {"start", "read", "reply", "write", "done"}
  BY DEF Phases
<1>6. handler' \notin Readers' /\ handler' # "memory"
  BY <1>4 DEF Readers
<1>7. PlaceInv'
  BY Zenon, <1>3, <1>4, <1>5 DEF PlaceInv
<1>8. ReadInv' /\ WriteInv' /\ UsedIsWritten'
  BY Zenon, <1>2, <1>5, <1>6 DEF ReadInv, WriteInv, UsedIsWritten
<1>9. BlockInv'
  BY Zenon, <1>2, <1>4, WellFormedKept DEF BlockInv
<1> QED
  BY Zenon, <1>1, <1>2, <1>3, <1>5, <1>7, <1>8, <1>9, ControlStep

\* A block request is parsed.
LEMMA ParseBlockStep == ASSUME IInv, ParseBlock PROVE IInv'
<1>1. /\ Kept /\ UNCHANGED <<got, mem, offset, used>> /\ UNCHANGED <<got, mem, offset, count, used>>
      /\ count' = count /\ handler = "block" /\ phase = "start"
      /\ Become(IF WellFormed /\ ~revoked THEN "lease" ELSE "err")
  BY DEF ParseBlock, Kept
<1>2. count' \in Nat /\ chain \in Seq(Descriptor)
  BY Zenon, <1>1 DEF IInv, TypeOK, InputInv
<1>3. CASE WellFormed /\ ~revoked
  <2>1. phase' = "lease" /\ at' = 1 /\ part' = 0
    BY Zenon, <1>1, <1>3 DEF Become
  <2> QED
    BY Zenon, <1>1, <1>2, <1>3, <2>1, FirstPlace, BlockPlace
<1>4. CASE ~(WellFormed /\ ~revoked)
  <2>1. Become("err")
    BY Zenon, <1>1, <1>4
  <2> QED
    BY Zenon, <1>1, <1>2, <2>1, ErrStep
<1> QED
  BY Zenon, <1>3, <1>4

\* A range of a block request is leased.
LEMMA LeaseBlockStep == ASSUME IInv, LeaseBlock PROVE IInv'
<1>1. /\ Kept /\ UNCHANGED <<got, mem, offset, used>> /\ UNCHANGED <<got, mem, offset, count, used>>
      /\ count' = count /\ handler = "block" /\ phase = "lease"
      /\ \/ Become("err")
         \/ at < StatusAt - 1 /\ at' = at + 1 /\ phase' = phase /\ part' = part
         \/ Become("io")
  BY DEF LeaseBlock, Kept
<1>2. /\ count' \in Nat /\ chain \in Seq(Descriptor) /\ WellFormed
      /\ at \in 1..Len(chain) + 1 /\ part \in Nat
  BY Zenon, <1>1 DEF IInv, TypeOK, InputInv, BlockInv
<1>3. CASE Become("err")
  BY Zenon, <1>1, <1>2, <1>3, ErrStep
<1>4. CASE at < StatusAt - 1 /\ at' = at + 1 /\ phase' = phase /\ part' = part
  <2>1. at' \in 1..Len(chain) + 1
    BY <1>2, <1>4 DEF StatusAt
  <2>2. ~(part > 0)
    <3>1. phase # "read" /\ phase # "write"
      BY <1>1
    <3> QED
      BY Zenon, <3>1 DEF IInv, PlaceInv
  <2>3. part' = 0
    BY <1>2, <1>4, <2>2
  <2> QED
    BY Zenon, <1>1, <1>2, <1>4, <2>1, <2>3, BlockPlace
<1>5. CASE Become("io")
  <2>1. phase' = "io" /\ at' = 1 /\ part' = 0
    BY Zenon, <1>5 DEF Become
  <2> QED
    BY Zenon, <1>1, <1>2, <2>1, FirstPlace, BlockPlace
<1> QED
  BY Zenon, <1>1, <1>3, <1>4, <1>5

\* The image is addressed by numbers.
LEMMA StartNat == ASSUME sector \in Nat PROVE Start \in Nat
<1>1. \A x, y \in Nat : x * y \in Nat
  OBVIOUS
<1> QED
  BY Zenon, <1>1, BlockAssumption DEF Start

\* The memory m has the first n bytes that the image has from Start, and no
\* others.
ImageFront(m, n) ==
  \A c \in Cells : m[c] = IF chain[c[1]].write /\ Rank(c) <= n THEN Start + Rank(c) ELSE 0

\* Of the writable descriptors of a request that reads the payload comes first.
LEMMA PayloadFirst ==
  ASSUME chain \in Seq(Descriptor), WellFormed, type = "in", NEW L \in Nat, L = Len(chain)
  PROVE  /\ L >= 2 /\ ~chain[1].write /\ chain[L].write /\ Payload = 2..L - 1
         /\ \A d \in 2..L - 1 : chain[d].write
         /\ \A m \in 0..L - 1 : Total(Writable)[m] = Total(Payload)[m]
         /\ PayloadLength = Total(Payload)[L - 1] /\ PayloadLength \in Nat
<1>1. /\ L >= 2 /\ ~chain[1].write /\ chain[L].write
      /\ \A d \in 2..L - 1 : chain[d].write
  BY Zenon DEF WellFormed, StatusAt, Payload
<1>2. Payload = 2..L - 1
  BY Zenon DEF Payload, StatusAt
<1>3. \A m \in 0..L - 1 : Total(Writable)[m] = Total(Payload)[m]
  <2>1. \A d \in 1..L - 1 : d \in 1..L /\ (d = 1 \/ d \in 2..L - 1) /\ ~(1 \in 2..L - 1)
    OBVIOUS
  <2>2. \A d \in 1..L - 1 : d \in Writable <=> d \in Payload
    BY Zenon, <1>1, <1>2, <2>1 DEF Writable, All
  <2>3. L - 1 \in 0..Len(chain)
    BY <1>1
  <2> QED
    BY Zenon, <2>2, <2>3, TotalSame
<1>4. PayloadLength = Total(Payload)[L - 1]
  <2>1. L \in 1..L /\ L \notin 2..L - 1
    BY <1>1
  <2>2. Total(Payload)[L] = Total(Payload)[L - 1]
    BY Zenon, <1>2, <2>1, TotalAdds DEF All
  <2> QED
    BY Zenon, <2>2 DEF PayloadLength, Capacity
<1>5. PayloadLength \in Nat
  BY Zenon, CapacityNat DEF PayloadLength
<1> QED
  BY Zenon, <1>1, <1>2, <1>3, <1>4, <1>5

\* The cells of a request that reads: the header is not writable, the payload
\* comes first among the writable ones, the status byte is behind it.
LEMMA CellsOfRead ==
  ASSUME chain \in Seq(Descriptor), WellFormed, type = "in", NEW c \in Cells
  PROVE  \/ c[1] \notin Payload /\ ~chain[c[1]].write
         \/ c[1] \in Payload /\ chain[c[1]].write /\ Position(c) = Rank(c)
         \/ c[1] \notin Payload /\ chain[c[1]].write /\ Rank(c) > PayloadLength
<1>1. PICK L \in Nat : L = Len(chain)
  BY Zenon, TotalAdds
<1>2. PICK d \in 1..L : d = c[1] /\ c[2] \in 1..Length(d)
  BY Zenon, <1>1, CellIs DEF All
<1>3. /\ L >= 2 /\ ~chain[1].write /\ chain[L].write
      /\ \A e \in 2..L - 1 : chain[e].write
  BY Zenon, <1>1, PayloadFirst
<1>4. Payload = 2..L - 1
  BY Zenon, <1>1, PayloadFirst
<1>5. /\ \A m \in 0..L - 1 : Total(Writable)[m] = Total(Payload)[m]
      /\ PayloadLength = Total(Payload)[L - 1] /\ PayloadLength \in Nat
  BY Zenon, <1>1, PayloadFirst
<1>6. CASE d = 1
  <2>1. d \notin Payload
    BY <1>4, <1>6
  <2> QED
    BY Zenon, <1>2, <1>3, <1>6, <2>1
<1>7. CASE d \in 2..L - 1
  <2>1. d - 1 \in 0..L - 1
    BY <1>7
  <2>2. chain[d].write /\ Rank(c) = c[2] + Total(Writable)[d - 1]
    BY Zenon, <1>2, <1>3, <1>7, RankIs
  <2>3. Position(c) = c[2] + Total(Writable)[d - 1]
    BY Zenon, <1>2, <1>5, <2>1 DEF Position
  <2> QED
    BY Zenon, <1>2, <1>4, <1>7, <2>2, <2>3
<1>8. CASE d = L
  <2>1. d \notin Payload /\ L - 1 \in 0..L - 1
    BY <1>3, <1>4, <1>8
  <2>2. chain[d].write /\ Rank(c) = c[2] + Total(Writable)[L - 1]
    BY Zenon, <1>2, <1>3, <1>8, RankIs
  <2>3. PICK k \in 1..Length(d) : Rank(c) = k + PayloadLength
    BY Zenon, <1>2, <1>5, <2>1, <2>2
  <2>4. Length(d) \in Nat
    BY Zenon, <1>1, <1>2, PartsAdd DEF All
  <2>5. k + PayloadLength > PayloadLength
    BY <1>5, <2>4
  <2> QED
    BY Zenon, <1>2, <2>1, <2>2, <2>3, <2>5
<1>9. d = 1 \/ d \in 2..L - 1 \/ d = L
  OBVIOUS
<1> QED
  BY Zenon, <1>6, <1>7, <1>8, <1>9

\* preadv moves the front of what is asked for.
LEMMA ReadMoves ==
  ASSUME chain \in Seq(Descriptor), WellFormed, type = "in", sector \in Nat,
         NEW n \in 0..PayloadLength, PayloadLength \in Nat, ImageFront(mem, 0),
         NEW m, m = [c \in Cells |-> IF c \in Moved(n) THEN Start + Position(c) ELSE mem[c]]
  PROVE  ImageFront(m, n) /\ m \in [Cells -> Nat]
<1>1. ASSUME NEW c \in Cells
      PROVE  m[c] = IF chain[c[1]].write /\ Rank(c) <= n THEN Start + Rank(c) ELSE 0
  <2>1. PICK r \in Nat : r = Rank(c) /\ ~(r <= 0)
    <3>1. PICK r \in Nat : r = Rank(c) /\ r >= 1
      BY Zenon, RankNat
    <3>2. ~(r <= 0)
      BY <3>1
    <3> QED
      BY Zenon, <3>1, <3>2
  <2>2. mem[c] = 0
    BY Zenon, <2>1 DEF ImageFront
  <2>3. m[c] = IF c[1] \in Payload /\ Position(c) <= n THEN Start + Position(c) ELSE 0
    BY Zenon, <2>2 DEF Moved
  <2>4. Rank(c) > PayloadLength => ~(Rank(c) <= n)
    BY <2>1
  <2> QED
    BY Zenon, <2>3, <2>4, CellsOfRead
<1>2. \A c \in Cells : m[c] \in Nat
  <2>1. \A x, y \in Nat : x + y \in Nat
    OBVIOUS
  <2> QED
    BY Zenon, <1>1, <2>1, StartNat, RankNat, ZeroNat
<1> QED
  BY Zenon, <1>1, <1>2 DEF ImageFront

\* pwritev moves as many cells as it says.
LEMMA WriteMoves ==
  ASSUME chain \in Seq(Descriptor), PayloadLength \in Nat, NEW n \in 0..PayloadLength,
         NEW g, g = [i \in 1..n |-> CHOOSE c \in Moved(n) : Position(c) = i]
  PROVE  g \in Seq(Cells) /\ Len(g) = n
<1>1. ASSUME NEW i \in 1..n PROVE (CHOOSE c \in Moved(n) : Position(c) = i) \in Cells
  <2>1. i \in Nat /\ i >= 1 /\ i <= PayloadLength /\ i <= n
    OBVIOUS
  <2>2. PICK c \in Cells : c[1] \in Payload /\ c[2] + Total(Payload)[c[1] - 1] = i
    BY Zenon, <2>1, PlaceHasCell DEF PayloadLength
  <2>3. c \in Moved(n) /\ Position(c) = i
    BY Zenon, <2>1, <2>2 DEF Moved, Position
  <2>4. (CHOOSE e \in Moved(n) : Position(e) = i) \in Moved(n)
    BY Zenon, <2>3
  <2> QED
    BY Zenon, <2>4 DEF Moved
<1>2. g \in [1..n -> Cells]
  BY Zenon, <1>1
<1>3. n \in Nat
  OBVIOUS
<1> QED
  BY Zenon, <1>2, <1>3, ListIs

\* What is known before the payload is moved.
LEMMA BeforeMove ==
  ASSUME IInv, handler = "block", phase = "io"
  PROVE  /\ chain \in Seq(Descriptor) /\ sector \in Nat /\ Start \in Nat
         /\ PayloadLength \in Nat /\ WellFormed /\ status = "none" /\ used \in U32
         /\ got = <<>> /\ got \in Seq(Cells) /\ offset = 0
         /\ ImageFront(mem, 0) /\ mem \in [Cells -> Nat]
<1>1. /\ chain \in Seq(Descriptor) /\ sector \in Nat /\ WellFormed /\ status = "none"
      /\ used \in U32 /\ got = <<>> /\ got \in Seq(Cells) /\ offset = 0 /\ mem \in [Cells -> Nat]
  BY Zenon DEF IInv, TypeOK, InputInv, WriteInv, BlockInv
<1>2. ImageFront(mem, 0)
  BY Zenon, <1>1 DEF IInv, WrittenIsPrefix, ImageFront, Base
<1> QED
  BY Zenon, <1>1, <1>2, StartNat, CapacityNat DEF PayloadLength

\* The status byte more.
LEMMA OneMore ==
  /\ 1 \in Nat /\ 1 = 0 + 1
  /\ \A x \in Nat : 1 <= x + 1 /\ 1 + x \in Nat /\ 1 + x <= x + 1 /\ 1 + x = x + 1
OBVIOUS

\* An answer s, with the payload moved or not.
LEMMA AnswerStep ==
  ASSUME IInv, handler = "block", phase = "io", UNCHANGED <<input, count, blockInput>>,
         NEW s \in {"OK", "IOERR", "UNSUPP"}, Answer(s),
         got' \in Seq(Cells), offset' \in Nat, mem' \in [Cells -> Nat],
         ImageFront(mem', offset'),
         s = "OK" => offset' = IF type = "in" THEN PayloadLength ELSE 0,
         s = "OK" /\ type \in {"in", "out"} =>
           /\ Start + PayloadLength <= CAPACITY
           /\ (IF type = "in" THEN offset' ELSE Len(got')) = PayloadLength,
         got' # <<>> => ~read_only /\ Start + Len(got') <= CAPACITY
  PROVE  IInv'
<1>1. /\ chain' = chain /\ handler' = "block" /\ field' = field /\ count' = count
      /\ type' = type /\ sector' = sector /\ read_only' = read_only
  BY DEF input, blockInput
<1>2. /\ chain \in Seq(Descriptor) /\ sector \in Nat /\ status = "none" /\ used \in U32
      /\ PayloadLength \in Nat
  BY Zenon, BeforeMove
<1>3. Start' = Start /\ Base' = Start /\ PayloadLength' = PayloadLength
  BY Zenon, <1>1, SameChain DEF Start, Base
<1>4. PICK n : n = IF s = "OK" /\ type = "in" THEN 1 + PayloadLength ELSE 1
  BY Zenon
<1>5. n \in Nat /\ n <= offset' + 1 /\ (s = "OK" => n = offset' + 1)
  <2>1. CASE s = "OK" /\ type = "in"
    <3>1. n = 1 + PayloadLength /\ offset' = PayloadLength
      BY Zenon, <1>4, <2>1
    <3> QED
      BY Zenon, <1>2, <3>1, OneMore
  <2>2. CASE ~(s = "OK" /\ type = "in")
    <3>1. n = 1 /\ (s = "OK" => offset' = 0)
      BY Zenon, <1>4, <2>2
    <3> QED
      BY Zenon, <3>1, OneMore
  <2> QED
    BY Zenon, <2>1, <2>2
<1>6. \/ Become("err") /\ status' = status /\ used' = used
      \/ Become("done") /\ used' = n /\ status' = s /\ ~(n > MaxU32)
  BY Zenon, <1>4 DEF Answer, Done
<1>7. /\ at' = 1 /\ part' = 0
      /\ \/ phase' = "err" /\ status' = "none" /\ used' = used
         \/ phase' = "done" /\ used' = n /\ status' = s /\ ~(n > MaxU32)
  BY Zenon, <1>2, <1>6 DEF Become
<1>8. /\ phase' \in Phases
      /\ phase' \notin {"start", "read", "reply", "write", "lease", "io"}
      /\ status' \in {"none", "OK", "IOERR", "UNSUPP"}
      /\ status' = "OK" => s = "OK"
      /\ used' \in U32
      /\ phase' = "done" => used' = n /\ status' = s
  BY <1>2, <1>5, <1>7, ChainAssumption DEF Phases, U32
<1>9. at' \in 1..Len(chain) + 1 /\ part' \in Nat /\ ~(part' > 0)
  BY Zenon, <1>2, <1>7, FirstPlace
<1>10. Cells' = Cells /\ \A c : Rank(c)' = Rank(c)
  BY Zenon, <1>1, SameChain
<1>11. handler' \notin Readers'
  BY <1>1 DEF Readers
<1>12. TypeOK'
  <2>1. count' \in Nat /\ handler' \in Readers' \cup Writers' \cup {"block"}
    BY Zenon, <1>1 DEF IInv, TypeOK
  <2> QED
    BY Zenon, <1>1, <1>8, <1>9, <1>10, <2>1 DEF TypeOK, Phases
<1>13. InputInv'
  BY Zenon, <1>1, <1>2 DEF IInv, InputInv
<1>14. PlaceInv' /\ GotInv' /\ ReadInv' /\ WriteInv' /\ BlockInv'
  BY Zenon, <1>8, <1>9, <1>11 DEF PlaceInv, GotInv, ReadInv, WriteInv, BlockInv
<1>15. WrittenIsPrefix'
  BY Zenon, <1>1, <1>3, <1>10 DEF WrittenIsPrefix, ImageFront
<1>16. UsedIsWritten'
  BY Zenon, <1>1, <1>5, <1>8 DEF UsedIsWritten
<1>17. StatusIsTruthful'
  BY Zenon, <1>1, <1>3, <1>8 DEF StatusIsTruthful
<1> QED
  BY ZenonT(30), <1>12, <1>13, <1>14, <1>15, <1>16, <1>17 DEF IInv

\* The worker serves a block request.
LEMMA ExecuteBlockStep == ASSUME IInv, ExecuteBlock PROVE IInv'
<1>1. handler = "block" /\ phase = "io" /\ UNCHANGED <<input, count, blockInput>>
  BY DEF ExecuteBlock
<1>2. /\ chain \in Seq(Descriptor) /\ sector \in Nat /\ Start \in Nat
      /\ PayloadLength \in Nat /\ WellFormed /\ status = "none" /\ used \in U32
      /\ got = <<>> /\ got \in Seq(Cells) /\ offset = 0
      /\ ImageFront(mem, 0) /\ mem \in [Cells -> Nat]
  BY Zenon, <1>1, BeforeMove
<1>3. ASSUME NEW s \in {"OK", "IOERR", "UNSUPP"}, Answer(s), UNCHANGED <<got, mem, offset>>,
             s = "OK" => type \notin {"in", "out"}
      PROVE  IInv'
  <2>1. got' = <<>> /\ got' \in Seq(Cells) /\ mem' = mem /\ offset' = 0
    BY Zenon, <1>2, <1>3
  <2>2. offset' \in Nat /\ mem' \in [Cells -> Nat] /\ ImageFront(mem', offset')
    BY Zenon, <1>2, <2>1, ZeroNat
  <2> QED
    BY Zenon, <1>1, <1>3, <2>1, <2>2, AnswerStep
<1>4. ASSUME Become("err"), UNCHANGED <<got, mem, offset, used, status>> PROVE IInv'
  <2>1. Kept /\ UNCHANGED <<got, mem, offset, used>> /\ count' = count
    BY <1>1, <1>4 DEF Kept, input, blockVars, blockInput
  <2>2. count' \in Nat
    BY Zenon, <2>1 DEF IInv, TypeOK
  <2> QED
    BY Zenon, <1>4, <2>1, <2>2, ErrStep
<1>5. ASSUME type \in {"in", "out"}, Inside, ~(type = "out" /\ read_only),
             NEW n \in 0..PayloadLength, Move(n),
             Answer(IF n = PayloadLength THEN "OK" ELSE "IOERR")
      PROVE  IInv'
  <2>1. n \in Nat /\ Start + PayloadLength <= CAPACITY /\ Start + n <= CAPACITY
    BY <1>2, <1>5, BlockAssumption DEF Inside
  <2>2. PICK s \in {"OK", "IOERR"} : s = IF n = PayloadLength THEN "OK" ELSE "IOERR"
    BY Zenon
  <2>3. Answer(s) /\ (s = "OK" => n = PayloadLength) /\ s \in {"OK", "IOERR", "UNSUPP"}
    BY Zenon, <1>5, <2>2
  <2>4. CASE type = "in"
    <3>1. /\ mem' = [c \in Cells |-> IF c \in Moved(n) THEN Start + Position(c) ELSE mem[c]]
          /\ offset' = n /\ got' = <<>>
      BY Zenon, <1>2, <1>5, <2>4 DEF Move
    <3>2. ImageFront(mem', offset') /\ mem' \in [Cells -> Nat]
      BY Zenon, <1>2, <2>4, <3>1, ReadMoves
    <3>3. got' \in Seq(Cells) /\ offset' \in Nat
      BY Zenon, <1>2, <2>1, <3>1
    <3> QED
      BY ZenonT(30), <1>1, <2>1, <2>3, <2>4, <3>1, <3>2, <3>3, AnswerStep
  <2>5. CASE type = "out"
    <3>1. /\ got' = [i \in 1..n |-> CHOOSE c \in Moved(n) : Position(c) = i]
          /\ mem' = mem /\ offset' = 0 /\ type # "in"
      BY Zenon, <1>2, <1>5, <2>5 DEF Move
    <3>2. got' \in Seq(Cells) /\ Len(got') = n
      BY Zenon, <1>2, <3>1, WriteMoves
    <3>3. offset' \in Nat /\ ImageFront(mem', offset') /\ mem' \in [Cells -> Nat]
      BY Zenon, <1>2, <3>1, ZeroNat
    <3> QED
      BY ZenonT(30), <1>1, <1>5, <2>1, <2>3, <2>5, <3>1, <3>2, <3>3, AnswerStep
  <2> QED
    BY Zenon, <1>5, <2>4, <2>5
<1>6. \/ \E s \in {"OK", "IOERR", "UNSUPP"} :
            /\ Answer(s) /\ UNCHANGED <<got, mem, offset>>
            /\ s = "OK" => type \notin {"in", "out"}
      \/ Become("err") /\ UNCHANGED <<got, mem, offset, used, status>>
      \/ /\ type \in {"in", "out"} /\ Inside /\ ~(type = "out" /\ read_only)
         /\ \E n \in 0..PayloadLength :
              Move(n) /\ Answer(IF n = PayloadLength THEN "OK" ELSE "IOERR")
  BY Zenon DEF ExecuteBlock
<1> QED
  BY Zenon, <1>3, <1>4, <1>5, <1>6

-----------------------------------------------------------------------------
(* The theorems.                                                           *)

\* The invariant holds at the beginning.
LEMMA InitInv == ASSUME RequestInit PROVE IInv
<1>1. /\ handler \in Readers \cup Writers \cup {"block"}
      /\ phase = "start" /\ at = 1 /\ part = 0 /\ got = <<>> /\ count = 0 /\ offset = 0
      /\ mem = [c \in Cells |-> 0] /\ used = 0 /\ status = "none"
  BY Zenon DEF RequestInit, Init, NoBlock, BlockInit
<1>2. chain \in Seq(Descriptor) /\ field \in Nat /\ sector \in Nat
  <2>1. CASE Init /\ NoBlock
    <3>1. PICK n \in 1..MaxChain : chain \in [1..n -> Descriptors]
      BY Zenon, <2>1 DEF Init
    <3>2. Descriptors \subseteq Descriptor
      BY Zenon, ChainAssumption DEF Descriptor
    <3>3. chain \in [1..n -> Descriptor]
      BY Zenon, <3>1, <3>2
    <3>4. n \in Nat
      OBVIOUS
    <3>5. chain \in Seq(Descriptor)
      BY Zenon, <3>3, <3>4, ListIs
    <3> QED
      BY Zenon, <2>1, <3>5, ChainAssumption, ZeroNat DEF Init, NoBlock
  <2>2. CASE BlockInit
    BY Zenon, <2>2, BlockAssumption, ZeroNat DEF BlockInit, Descriptor
  <2> QED
    BY Zenon, <2>1, <2>2 DEF RequestInit
<1>3. /\ phase \notin {"read", "reply", "write", "lease", "io", "done"}
      /\ status # "OK" /\ part \in Nat /\ ~(part > 0)
      /\ phase \in Phases /\ status \in {"none", "OK", "IOERR", "UNSUPP"}
  BY <1>1 DEF Phases
<1>4. at \in 1..Len(chain) + 1
  BY Zenon, <1>1, <1>2, FirstPlace
<1>5. got \in Seq(Cells) /\ ~\E i : i \in 1..Len(got)
  <2>1. \A T : <<>> \in Seq(T)
    OBVIOUS
  <2>2. ~\E i : i \in 1..Len(<<>>)
    OBVIOUS
  <2> QED
    BY Zenon, <1>1, <2>1, <2>2
<1>6. mem \in [Cells -> Nat] /\ \A c \in Cells : mem[c] = 0
  BY Zenon, <1>1, ZeroNat
<1>7. TypeOK
  BY Zenon, <1>1, <1>3, <1>4, <1>5, <1>6, ZeroNat, LengthsNat DEF TypeOK, Phases
<1>8. InputInv /\ PlaceInv
  BY Zenon, <1>1, <1>2, <1>3 DEF InputInv, PlaceInv
<1>9. GotInv /\ ReadInv /\ WriteInv /\ BlockInv
  BY Zenon, <1>1, <1>3, <1>5 DEF GotInv, ReadInv, WriteInv, BlockInv
<1>10. WrittenIsPrefix
  <2>1. ASSUME NEW c \in Cells PROVE ~(Rank(c) <= offset)
    <3>1. PICK r \in Nat : r = Rank(c) /\ r >= 1
      BY Zenon, <1>2, RankNat
    <3>2. ~(r <= 0)
      BY <3>1
    <3> QED
      BY Zenon, <1>1, <3>1, <3>2
  <2> QED
    BY Zenon, <1>6, <2>1 DEF WrittenIsPrefix
<1>11. UsedIsWritten /\ StatusIsTruthful
  BY Zenon, <1>1, <1>3 DEF UsedIsWritten, StatusIsTruthful
<1> QED
  BY ZenonT(30), <1>7, <1>8, <1>9, <1>10, <1>11 DEF IInv

\* A state that stays as it is.
LEMMA Stutter == ASSUME IInv, UNCHANGED requestVars PROVE IInv'
<1>1. /\ Kept /\ UNCHANGED <<got, mem, offset>>
      /\ got' = got /\ offset' = offset /\ used' = used /\ count' = count
      /\ phase' = phase /\ at' = at /\ part' = part
  BY DEF requestVars, vars, Kept, input
<1> QED
  BY Zenon, <1>1, SameStep

\* Every step keeps the invariant.
LEMMA NextInv == ASSUME IInv, RequestNext PROVE IInv'
<1>1. CASE ChainNext /\ UNCHANGED blockVars
  <2>1. Kept
    <3>1. UNCHANGED input
      BY Zenon, <1>1 DEF ChainNext, Revoke, StartRead, ReadLease, ReadPart, ReadDrop, ReadDone,
         StartWrite, WriteLease, WritePart, WriteDrop, WriteDone, Lease, Drop
    <3> QED
      BY Zenon, <1>1, <3>1 DEF Kept
  <2>2. CASE Revoke
    BY Zenon, <2>1, <2>2, RevokeStep
  <2>3. CASE StartRead
    BY ZenonT(30), <2>1, <2>3, StartReadStep
  <2>4. CASE ReadLease
    BY Zenon, <2>1, <2>4, ReadLeaseStep
  <2>5. CASE ReadPart
    BY Zenon, <2>1, <2>5, ReadPartStep
  <2>6. CASE ReadDrop
    BY ZenonT(30), <2>1, <2>6, DropStep DEF ReadDrop
  <2>7. CASE ReadDone
    BY Zenon, <2>1, <2>7, ReadDoneStep
  <2>8. CASE StartWrite
    BY Zenon, <2>1, <2>8, StartWriteStep
  <2>9. CASE WriteLease
    BY Zenon, <2>1, <2>9, WriteLeaseStep
  <2>10. CASE WritePart
    BY Zenon, <2>1, <2>10, WritePartStep
  <2>11. CASE WriteDrop
    BY ZenonT(30), <2>1, <2>11, DropStep DEF WriteDrop
  <2>12. CASE WriteDone
    BY Zenon, <2>1, <2>12, WriteDoneStep
  <2> QED
    BY ZenonT(30), <1>1, <2>2, <2>3, <2>4, <2>5, <2>6, <2>7, <2>8, <2>9, <2>10, <2>11, <2>12 DEF ChainNext
<1>2. CASE ParseBlock \/ LeaseBlock \/ ExecuteBlock
  BY Zenon, <1>2, ParseBlockStep, LeaseBlockStep, ExecuteBlockStep
<1> QED
  BY Zenon, <1>1, <1>2 DEF RequestNext
\* A cell is the pair of its descriptor and its byte.
LEMMA CellPair == ASSUME NEW c \in Cells PROVE c = <<c[1], c[2]>>
<1>1. PICK d \in All : c \in {d} \X (1..Length(d))
  BY Zenon DEF Cells
<1> QED
  BY <1>1

\* Two cells of S with the same place are the same.
LEMMA PlaceIsUnique ==
  ASSUME chain \in Seq(Descriptor), NEW S, NEW c \in Cells, NEW e \in Cells, c[1] \in S, e[1] \in S,
         c[2] + Total(S)[c[1] - 1] = e[2] + Total(S)[e[1] - 1]
  PROVE  c = e
<1>1. PICK d \in All : d = e[1]
  BY Zenon, CellIs
<1>2. PICK k \in Nat, t \in Nat, l \in Nat :
        /\ k = e[2] /\ t = Total(S)[d - 1] /\ l = Length(d) /\ k >= 1 /\ k <= l
  <2>1. /\ e[2] \in Nat /\ Total(S)[e[1] - 1] \in Nat /\ e[2] >= 1 /\ e[2] <= Length(e[1])
    BY Zenon, CellPlace
  <2>2. Length(d) \in Nat
    BY Zenon, PartsAdd
  <2> QED
    BY Zenon, <1>1, <2>1, <2>2
<1>3. PICK place : place = c[2] + Total(S)[c[1] - 1] /\ place = k + t
  BY Zenon, <1>1, <1>2
<1>4. ~(k + t <= t) /\ ~(k + t > t + l)
  BY <1>2
<1>5. c[1] = d /\ place = c[2] + t
  BY Zenon, <1>1, <1>2, <1>3, <1>4, PlaceFrom
<1>6. PICK m \in Nat : m = c[2]
  BY Zenon, CellPlace
<1>7. m + t = k + t
  BY Zenon, <1>3, <1>5, <1>6
<1>8. m = k
  BY <1>7
<1> QED
  BY Zenon, <1>1, <1>2, <1>5, <1>6, <1>8, CellPair

-----------------------------------------------------------------------------
(* The bytes arrive: there is room for what is written.                    *)

Room == offset <= Capacity(Writable)

\* There is room at the beginning.
LEMMA InitRoom == ASSUME RequestInit, IInv PROVE Room
<1>1. offset = 0
  BY Zenon DEF RequestInit, Init, BlockInit
<1>2. Capacity(Writable) \in Nat
  BY Zenon, CapacityNat DEF IInv, InputInv
<1> QED
  BY <1>1, <1>2 DEF Room

\* A part that is written lies in the chain.
LEMMA WritePartRoom == ASSUME IInv, WritePart, Kept, IInv' PROVE Room'
<1>1. phase = "write" /\ phase' = phase /\ AtPart /\ at' = at /\ part' = part + 1
  BY DEF WritePart
<1>2. chain' = chain /\ chain \in Seq(Descriptor) /\ Writable = Way
  BY Zenon, <1>1, KeptIs DEF IInv, InputInv, Way
<1>3. PICK t \in Nat, l \in Nat, b \in Nat :
        /\ t = Total(Writable)[at - 1] /\ l = Length(at) /\ b <= l
        /\ at \in All /\ at \in Writable
        /\ Reached(Writable)' = t + b
  <2>1. \A S : S = Way => Reached(S)' = Total(S)[at - 1] + (Before + Parts[part])
    BY Zenon, <1>1, AtPartIs
  <2>2. Writable' = Writable
    BY Zenon, <1>2, SameChain
  <2>3. Reached(Writable)' = Total(Writable)[at - 1] + (Before + Parts[part])
    BY Zenon, <1>2, <2>1, <2>2
  <2>4. /\ at \in All /\ at \in Writable /\ Parts[part] \in Nat /\ Before \in Nat
        /\ Before + Parts[part] <= Length(at) /\ Total(Writable)[at - 1] \in Nat /\ Length(at) \in Nat
    BY Zenon, <1>1, <1>2, AtPartIs
  <2>5. Before + Parts[part] \in Nat
    BY <2>4
  <2> QED
    BY Zenon, <2>3, <2>4, <2>5
<1>4. t + l <= Capacity(Writable) /\ Capacity(Writable) \in Nat
  <2>1. Total(Writable)[at] = t + l /\ at \in 0..Len(chain)
    BY Zenon, <1>2, <1>3, TotalAdds
  <2> QED
    BY Zenon, <1>2, <2>1, TotalAdds, CapacityNat
<1>5. Capacity(Writable)' = Capacity(Writable)
  BY Zenon, <1>2, SameChain
<1>6. offset' = Smaller(count', t + b) /\ count' \in Nat
  <2>1. WriteInv' /\ count' \in Nat
    BY Zenon DEF IInv, TypeOK
  <2> QED
    BY Zenon, <1>1, <1>3, <2>1 DEF WriteInv, Smaller
<1>7. offset' <= t + b
  BY <1>3, <1>6 DEF Smaller
<1>8. offset' \in Nat
  BY Zenon DEF IInv, TypeOK
<1>9. offset' <= Capacity(Writable)
  BY <1>3, <1>4, <1>7, <1>8
<1> QED
  BY Zenon, <1>5, <1>9 DEF Room

\* preadv stays within the payload.
LEMMA ExecuteBlockRoom == ASSUME IInv, Room, ExecuteBlock PROVE Room'
<1>1. handler = "block" /\ phase = "io" /\ chain' = chain
  BY DEF ExecuteBlock, input
<1>2. chain \in Seq(Descriptor) /\ WellFormed
  BY Zenon, <1>1, BeforeMove
<1>3. Capacity(Writable)' = Capacity(Writable)
  BY Zenon, <1>1, SameChain
<1>4. CASE offset' = offset
  BY Zenon, <1>3, <1>4 DEF Room
<1>5. CASE type = "in" /\ offset' \in 0..PayloadLength
  <2>1. PICK L \in Nat : L = Len(chain)
    BY Zenon, <1>2, TotalAdds
  <2>2. /\ L >= 2 /\ PayloadLength \in Nat /\ PayloadLength = Total(Payload)[L - 1]
        /\ \A m \in 0..L - 1 : Total(Writable)[m] = Total(Payload)[m]
    BY Zenon, <1>2, <1>5, <2>1, PayloadFirst
  <2>3. L - 1 \in 0..L - 1 /\ L - 1 \in 0..L
    BY <2>2
  <2>4. PayloadLength <= Capacity(Writable) /\ Capacity(Writable) \in Nat
    BY Zenon, <1>2, <2>1, <2>2, <2>3, TotalAdds, CapacityNat
  <2>5. offset' <= Capacity(Writable)
    BY <1>5, <2>2, <2>4
  <2> QED
    BY Zenon, <1>3, <2>5 DEF Room
<1>6. offset' = offset \/ (type = "in" /\ offset' \in 0..PayloadLength)
  BY Zenon DEF ExecuteBlock, Move
<1> QED
  BY Zenon, <1>4, <1>5, <1>6

\* Every other step leaves the chain and the bytes written as they are.
LEMMA NextRoom == ASSUME IInv, Room, [RequestNext]_requestVars, IInv' PROVE Room'
<1>1. ASSUME chain' = chain, offset' = offset PROVE Room'
  BY Zenon, <1>1, SameChain DEF Room
<1>2. CASE UNCHANGED requestVars
  <2>1. chain' = chain /\ offset' = offset
    BY <1>2 DEF requestVars, vars
  <2> QED
    BY Zenon, <1>1, <2>1
<1>3. CASE ExecuteBlock
  BY Zenon, <1>3, ExecuteBlockRoom
<1>4. CASE ParseBlock \/ LeaseBlock
  <2>1. chain' = chain /\ offset' = offset
    BY <1>4 DEF ParseBlock, LeaseBlock, input
  <2> QED
    BY Zenon, <1>1, <2>1
<1>5. CASE ChainNext /\ UNCHANGED blockVars
  <2>1. UNCHANGED input
    BY Zenon, <1>5 DEF ChainNext, Revoke, StartRead, ReadLease, ReadPart, ReadDrop, ReadDone,
       StartWrite, WriteLease, WritePart, WriteDrop, WriteDone, Lease, Drop
  <2>2. Kept /\ chain' = chain
    BY <1>5, <2>1 DEF Kept, input
  <2>3. CASE WritePart
    BY Zenon, <2>2, <2>3, WritePartRoom
  <2>4. CASE ~WritePart
    <3>1. UNCHANGED offset
      BY Zenon, <1>5, <2>4 DEF ChainNext, Revoke, StartRead, ReadLease, ReadPart, ReadDrop, ReadDone,
         StartWrite, WriteLease, WriteDrop, WriteDone, Lease, Drop
    <3> QED
      BY Zenon, <1>1, <2>2, <3>1
  <2> QED
    BY Zenon, <2>3, <2>4
<1> QED
  BY Zenon, <1>2, <1>3, <1>4, <1>5 DEF RequestNext

\* Each of the bytes written so far is in one cell, which is writable.
BytesArriveOnce ==
  \A i \in 1..offset :
    \E c \in Cells : chain[c[1]].write /\ \A e \in Cells : mem[e] = Base + i <=> e = c

\* It is so while there is room, as a rank belongs to one writable cell.
LEMMA BytesArrive == ASSUME IInv, Room PROVE BytesArriveOnce
<1>1. chain \in Seq(Descriptor) /\ offset \in Nat /\ Capacity(Writable) \in Nat
  BY Zenon, CapacityNat DEF IInv, InputInv, TypeOK
<1>2. Base \in Nat
  BY Zenon, StartNat, ZeroNat DEF Base, IInv, InputInv
<1> SUFFICES ASSUME NEW i \in 1..offset
             PROVE  \E c \in Cells : /\ chain[c[1]].write
                                     /\ \A e \in Cells : mem[e] = Base + i <=> e = c
  BY Zenon DEF BytesArriveOnce
<1>3. i \in Nat /\ i >= 1 /\ i <= offset /\ i <= Capacity(Writable)
  BY <1>1 DEF Room
<1>4. PICK c \in Cells : c[1] \in Writable /\ c[2] + Total(Writable)[c[1] - 1] = i
  BY Zenon, <1>1, <1>3, PlaceHasCell
<1>5. chain[c[1]].write /\ Rank(c) = i
  BY Zenon, <1>4, RankIs DEF Writable
<1>6. mem[c] = Base + i
  BY Zenon, <1>3, <1>5 DEF IInv, WrittenIsPrefix
<1>7. ASSUME NEW e \in Cells, mem[e] = Base + i PROVE e = c
  <2>1. PICK r \in Nat : r = Rank(e)
    BY Zenon, <1>1, RankNat
  <2>2. Base + i # 0
    BY <1>2, <1>3
  <2>3. chain[e[1]].write /\ Base + r = Base + i
    BY Zenon, <1>7, <2>1, <2>2 DEF IInv, WrittenIsPrefix
  <2>4. r = i
    BY <1>2, <1>3, <2>3
  <2>5. e[1] \in Writable /\ e[2] + Total(Writable)[e[1] - 1] = i
    BY Zenon, <2>1, <2>3, <2>4, RankIs
  <2> QED
    BY Zenon, <1>1, <1>4, <2>5, PlaceIsUnique
<1> QED
  BY Zenon, <1>5, <1>6, <1>7

-----------------------------------------------------------------------------
\* The invariant holds in every behaviour.
LEMMA Invariant == RequestSpec => []IInv
<1>1. RequestInit => IInv
  BY Zenon, InitInv
<1>2. IInv /\ [RequestNext]_requestVars => IInv'
  BY Zenon, NextInv, Stutter
<1> QED
  BY <1>1, <1>2, PTL DEF RequestSpec

\* Every variable keeps its type: the cells read are cells of the chain, and
\* nothing is ever written beside the descriptors, for chains, descriptors and
\* parts of any number and lengths.
THEOREM TypeCorrect == RequestSpec => []TypeOK
<1>1. IInv => TypeOK
  BY Zenon DEF IInv
<1> QED
  BY <1>1, Invariant, PTL

\* At every moment of write_chain, write_reply, write_response, fill_chain or
\* preadv, the guest finds the front of the device's bytes in the writable cells
\* and its own everywhere else, also when the memory was revoked on the way.
THEOREM WritesAPrefix == RequestSpec => []WrittenIsPrefix
<1>1. IInv => WrittenIsPrefix
  BY Zenon DEF IInv
<1> QED
  BY <1>1, Invariant, PTL

\* The used length a chain is completed with is what was written to it.
THEOREM UsedIsTruthful == RequestSpec => []UsedIsWritten
<1>1. IInv => UsedIsWritten
  BY Zenon DEF IInv
<1> QED
  BY <1>1, Invariant, PTL

\* What read_chain and its like give to a backend is all of the readable cells,
\* each in its place.
THEOREM ReadsAll == RequestSpec => []ReadIsWhole
<1>1. IInv => ReadIsWhole
  <2>1. phase \in {"reply", "done"} => phase \in {"reply", "write", "done"}
    BY Zenon
  <2> QED
    BY Zenon, <2>1 DEF IInv, GotInv, ReadInv, ReadIsWhole
<1> QED
  BY <1>1, Invariant, PTL

\* VIRTIO_BLK_S_OK means that all of the payload was moved and lies inside the
\* image, whatever the sector, the image and the payload are.
THEOREM StatusHolds == RequestSpec => []StatusIsTruthful
<1>1. IInv => StatusIsTruthful
  BY Zenon DEF IInv
<1> QED
  BY <1>1, Invariant, PTL

\* No byte is lost or written twice: at every moment each of the bytes that a
\* device has counted as written is in exactly one cell of the chain.  The
\* invariant says where the cells of a rank are; this, that there are as many.
THEOREM BytesArriveExactlyOnce == RequestSpec => []BytesArriveOnce
<1>1. RequestInit => IInv /\ Room
  BY Zenon, InitInv, InitRoom
<1>2. IInv /\ Room /\ [RequestNext]_requestVars => (IInv /\ Room)'
  <2>1. IInv /\ [RequestNext]_requestVars => IInv'
    BY Zenon, NextInv, Stutter
  <2> QED
    BY Zenon, <2>1, NextRoom
<1>3. IInv /\ Room => BytesArriveOnce
  BY Zenon, BytesArrive
<1> QED
  BY <1>1, <1>2, <1>3, PTL DEF RequestSpec
=============================================================================
