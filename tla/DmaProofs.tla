------------------------------ MODULE DmaProofs -----------------------------
(***************************************************************************)
(* Proofs about src/src/dma.rs: the lease protocol of DmaMemory, for any   *)
(* finite set of threads and any set of drainers; then DmaMemory::new and  *)
(* translate, for every address width, every list of segments and every    *)
(* range.                                                                  *)
(*                                                                         *)
(* NoLeaseUnmapped is not inductive.  A drain that returned must have seen *)
(* active = 0 after revoked became visible, and from then on no lease()    *)
(* passes its second load; that a zero counter means no holder is          *)
(* ActiveCountsHolders.  IInv puts the three together.                     *)
(*                                                                         *)
(* The invariant of translate's loop is that the parts tile the range up   *)
(* to the cursor (PartsTile) and that every address before the cursor is   *)
(* mapped (Covered): the first alone does not say that the cursor passed   *)
(* over mapped addresses only, which the result needs.                     *)
(***************************************************************************)
EXTENDS DmaMemory, DmaTranslate, FiniteSetTheorems, TLAPS

-----------------------------------------------------------------------------
(* The lease protocol.                                                     *)

Holders == {t \in Threads : pc[t] \in Holding}

\* The drainers run only once revoke() is visible, because of the barrier.
DrainAfterRevoke == \A d \in Drainers : drain[d] # "idle" => revoked

\* A drain that returned leaves nobody admitted.
ReturnedIsQuiet ==
  \A d \in Drainers : drain[d] = "returned" => revoked /\ Admitted = {}

\* The mapping is removed only after a drain that returned.
UnmappedIsDrained ==
  ~mapped => \E d \in Drainers : drain[d] = "returned"

CountInv == TypeOK /\ ActiveCountsHolders

IInv ==
  /\ CountInv
  /\ DrainAfterRevoke
  /\ ReturnedIsQuiet
  /\ UnmappedIsDrained

-----------------------------------------------------------------------------
\* The holders are finitely many, as the threads are.
LEMMA HoldersFinite == IsFiniteSet(Holders) /\ Cardinality(Holders) \in Nat
<1>1. Holders \subseteq Threads
  BY DEF Holders
<1>2. IsFiniteSet(Holders)
  BY <1>1, ThreadsAssumption, FS_Subset
<1> QED
  BY <1>2, FS_CardinalityType

\* A step that moves one thread into the counted region adds one holder.
LEMMA HolderEnters ==
  ASSUME TypeOK, NEW t \in Threads, NEW to \in Holding,
         pc[t] \notin Holding, pc' = [pc EXCEPT ![t] = to]
  PROVE  Cardinality(Holders') = Cardinality(Holders) + 1
<1>1. Holders' = Holders \cup {t}
  BY DEF Holders, TypeOK
<1>2. t \notin Holders
  BY DEF Holders
<1> QED
  BY Zenon, <1>1, <1>2, HoldersFinite, FS_AddElement

\* A step that moves one thread out of the counted region removes one holder.
LEMMA HolderLeaves ==
  ASSUME TypeOK, NEW t \in Threads, NEW to \in LeaseStates \ Holding,
         pc[t] \in Holding, pc' = [pc EXCEPT ![t] = to]
  PROVE  /\ Cardinality(Holders') = Cardinality(Holders) - 1
         /\ Cardinality(Holders) >= 1
<1>1. Holders' = Holders \ {t}
  BY DEF Holders, TypeOK
<1>2. t \in Holders
  BY DEF Holders
<1>3. Cardinality(Holders') = Cardinality(Holders) - 1
  BY Zenon, <1>1, <1>2, HoldersFinite, FS_RemoveElement
<1>4. IsFiniteSet(Holders')
  BY <1>1, HoldersFinite, FS_Subset
<1>5. Cardinality(Holders') \in Nat
  BY <1>4, FS_CardinalityType
<1> QED
  BY <1>3, <1>5, HoldersFinite

\* A step that keeps every thread on its side of the counted region leaves
\* the set of holders as it is.
LEMMA HoldersKept ==
  ASSUME TypeOK, NEW t \in Threads, NEW to \in LeaseStates,
         pc[t] \in Holding <=> to \in Holding, pc' = [pc EXCEPT ![t] = to]
  PROVE  Holders' = Holders
  BY DEF Holders, TypeOK

-----------------------------------------------------------------------------
\* The counter and the types are right initially.
LEMMA CountInit == Init => CountInv
<1> SUFFICES ASSUME Init PROVE CountInv
  OBVIOUS
<1>1. TypeOK
  BY Zenon DEF Init, TypeOK, LeaseStates, DrainStates, NotifiedStates
<1>2. {t \in Threads : pc[t] \in Holding} = {}
  BY DEF Init, Holding
<1> QED
  BY <1>1, <1>2, FS_EmptySet DEF Init, CountInv, ActiveCountsHolders

\* Every step keeps the types, and keeps active equal to the number of
\* threads between fetch_add and fetch_sub.
LEMMA CountStep == CountInv /\ [Next]_vars => CountInv'
<1> SUFFICES ASSUME CountInv, [Next]_vars PROVE CountInv'
  OBVIOUS
<1> USE DEF LeaseStates
<1>0. TypeOK /\ active = Cardinality(Holders) /\ active \in Nat
  BY DEF CountInv, ActiveCountsHolders, Holders, TypeOK
<1>a. SUFFICES TypeOK' /\ active' = Cardinality(Holders')
  BY DEF CountInv, ActiveCountsHolders, Holders
<1>b. ASSUME UNCHANGED <<pc, active>> PROVE active' = Cardinality(Holders')
  BY <1>0, <1>b DEF Holders
<1>1. ASSUME NEW t \in Threads, LeaseLoad(t) PROVE TypeOK' /\ active' = Cardinality(Holders')
  <2>1. Holders' = Holders
    BY Zenon, <1>0, <1>1, HoldersKept DEF LeaseLoad, Step, Holding
  <2> QED
    BY <1>0, <1>1, <2>1 DEF LeaseLoad, Step, TypeOK, Holding
<1>2. ASSUME NEW t \in Threads, LeaseAdd(t) PROVE TypeOK' /\ active' = Cardinality(Holders')
  <2>1. Cardinality(Holders') = Cardinality(Holders) + 1
    BY Zenon, <1>0, <1>2, HolderEnters DEF LeaseAdd, Step, Holding
  <2> QED
    BY <1>0, <1>2, <2>1 DEF LeaseAdd, Step, TypeOK, Holding
<1>3. ASSUME NEW t \in Threads, LeaseRecheck(t) PROVE TypeOK' /\ active' = Cardinality(Holders')
  <2>1. Holders' = Holders
    BY Zenon, <1>0, <1>3, HoldersKept DEF LeaseRecheck, Step, Holding
  <2> QED
    BY <1>0, <1>3, <2>1 DEF LeaseRecheck, Step, TypeOK, Holding
<1>4. ASSUME NEW t \in Threads, LeaseTranslate(t) PROVE TypeOK' /\ active' = Cardinality(Holders')
  <2>1. Holders' = Holders
    BY Zenon, <1>0, <1>4, HoldersKept DEF LeaseTranslate, Step, Holding
  <2> QED
    BY <1>0, <1>4, <2>1 DEF LeaseTranslate, Step, TypeOK, Holding
<1>5. ASSUME NEW t \in Threads, DropActive(t) PROVE TypeOK' /\ active' = Cardinality(Holders')
  <2>1. PICK to \in {"notify", "idle"} : pc' = [pc EXCEPT ![t] = to]
    BY Zenon, <1>5 DEF DropActive, Step
  <2>2. pc[t] \in Holding
    BY <1>5 DEF DropActive, Step, Holding
  <2>3. /\ Cardinality(Holders') = Cardinality(Holders) - 1
        /\ Cardinality(Holders) >= 1
    BY Zenon, <1>0, <2>1, <2>2, HolderLeaves DEF Holding
  <2> QED
    BY <1>0, <1>5, <2>1, <2>3 DEF DropActive, TypeOK
<1>6. ASSUME NEW t \in Threads, NotifyWaiters(t) PROVE TypeOK' /\ active' = Cardinality(Holders')
  <2>1. Holders' = Holders
    BY Zenon, <1>0, <1>6, HoldersKept DEF NotifyWaiters, Step, Holding
  <2> QED
    BY <1>0, <1>6, <2>1 DEF NotifyWaiters, Step, TypeOK, Holding, NotifiedStates
<1>7. CASE Revoke
  BY <1>0, <1>b, <1>7 DEF Revoke, TypeOK
<1>8. CASE FlushRevoke
  BY Zenon, <1>0, <1>b, <1>8 DEF FlushRevoke, TypeOK
<1>9. ASSUME NEW d \in Drainers, Drainer(d) PROVE TypeOK' /\ active' = Cardinality(Holders')
  <2>1. CASE CallDrain(d)
    BY <1>0, <1>b, <2>1 DEF CallDrain, TypeOK, DrainStates
  <2>2. CASE DrainSubscribe(d)
    BY <1>0, <1>b, <2>2 DEF DrainSubscribe, TypeOK, DrainStates, NotifiedStates
  <2>3. CASE DrainCheck(d)
    BY <1>0, <1>b, <2>3 DEF DrainCheck, TypeOK, DrainStates, NotifiedStates
  <2>4. CASE DrainWake(d)
    BY <1>0, <1>b, <2>4 DEF DrainWake, TypeOK, DrainStates, NotifiedStates
  <2> QED
    BY <1>9, <2>1, <2>2, <2>3, <2>4 DEF Drainer
<1>10. CASE Unmap
  BY Zenon, <1>0, <1>b, <1>10 DEF Unmap, TypeOK
<1>11. CASE UNCHANGED vars
  BY <1>0, <1>b, <1>11 DEF vars, TypeOK
<1> QED
  BY <1>1, <1>2, <1>3, <1>4, <1>5, <1>6, <1>7, <1>8, <1>9, <1>10, <1>11 DEF Next, Thread

-----------------------------------------------------------------------------
\* The type theorem: the fields of the generation, the threads and the drainers
\* have their types; in particular fetch_sub never takes active below zero.
THEOREM LeaseTypes == Spec => []TypeOK
<1>1. CountInv => TypeOK
  BY DEF CountInv
<1> QED
  BY <1>1, CountInit, CountStep, PTL DEF Spec

\* The counter theorem: active, which wait_for_drain() relies on, counts the
\* holders exactly in every reachable state.
THEOREM ActiveIsExact == Spec => []ActiveCountsHolders
<1>1. CountInv => ActiveCountsHolders
  BY DEF CountInv
<1> QED
  BY <1>1, CountInit, CountStep, PTL DEF Spec

\* A zero counter means that no thread is admitted.
LEMMA ZeroIsQuiet == CountInv /\ active = 0 => Admitted = {}
<1> SUFFICES ASSUME CountInv, active = 0 PROVE Admitted = {}
  OBVIOUS
<1>1. Cardinality(Holders) = 0
  BY DEF CountInv, ActiveCountsHolders, Holders
<1>2. Holders = {}
  BY <1>1, HoldersFinite, FS_EmptySet
<1> QED
  BY <1>2 DEF Holders, Admitted, Holding

\* Nobody is admitted by a step once revoked is visible.
LEMMA NoAdmissionWhenRevoked ==
  ASSUME TypeOK, [Next]_vars, revoked
  PROVE  revoked' /\ Admitted' \subseteq Admitted
<1>1. ASSUME NEW t \in Threads, Thread(t) PROVE Admitted' \subseteq Admitted
  BY Zenon, <1>1 DEF TypeOK, Thread, LeaseLoad, LeaseAdd, LeaseRecheck, LeaseTranslate,
              DropActive, NotifyWaiters, Step, Admitted
<1>2. ASSUME UNCHANGED pc PROVE Admitted' \subseteq Admitted
  BY <1>2 DEF Admitted
<1>3. revoked'
  BY Zenon DEF Next, Thread, LeaseLoad, LeaseAdd, LeaseRecheck, LeaseTranslate,
         DropActive, NotifyWaiters, Revoke, FlushRevoke, Drainer, CallDrain,
         DrainSubscribe, DrainCheck, DrainWake, Unmap, vars
<1>4. (\E t \in Threads : Thread(t)) \/ UNCHANGED pc
  BY Zenon DEF Next, Revoke, FlushRevoke, Drainer, CallDrain, DrainSubscribe,
         DrainCheck, DrainWake, Unmap, vars
<1> QED
  BY <1>1, <1>2, <1>3, <1>4

\* With the barrier, the invariant holds initially and is kept.
LEMMA IInvInit == Init => IInv
  BY CountInit DEF Init, IInv, DrainAfterRevoke, ReturnedIsQuiet, UnmappedIsDrained

\* Every step of the protocol keeps the invariant.
LEMMA IInvStep ==
  ASSUME Fence
  PROVE  IInv /\ [Next]_vars => IInv'
<1> SUFFICES ASSUME IInv, [Next]_vars PROVE IInv'
  OBVIOUS
<1>0. TypeOK
  BY DEF IInv, CountInv
<1>1. CountInv'
  BY CountStep DEF IInv
<1>2. ASSUME UNCHANGED <<drain, mapped>>
      PROVE  DrainAfterRevoke' /\ ReturnedIsQuiet' /\ UnmappedIsDrained'
  BY <1>0, <1>2, NoAdmissionWhenRevoked
     DEF IInv, DrainAfterRevoke, ReturnedIsQuiet, UnmappedIsDrained
<1>3. ASSUME NEW d \in Drainers, Drainer(d)
      PROVE  DrainAfterRevoke' /\ ReturnedIsQuiet' /\ UnmappedIsDrained'
  <2>1. UNCHANGED <<revoked, active, pc, mapped>> /\ Admitted' = Admitted
    BY <1>3 DEF Drainer, CallDrain, DrainSubscribe, DrainCheck, DrainWake, Admitted
  <2>2. DrainAfterRevoke'
    BY <1>0, <1>3, <2>1
       DEF IInv, DrainAfterRevoke, TypeOK, Drainer, CallDrain, DrainSubscribe,
           DrainCheck, DrainWake
  <2>3. \A e \in Drainers : drain'[e] = "returned" =>
          drain[e] = "returned" \/ (revoked /\ active = 0)
    BY <1>0, <1>3
       DEF IInv, DrainAfterRevoke, TypeOK, Drainer, CallDrain, DrainSubscribe,
           DrainCheck, DrainWake
  <2>4. ReturnedIsQuiet'
    BY <2>1, <2>3, ZeroIsQuiet DEF IInv, ReturnedIsQuiet
  <2>5. \A e \in Drainers : drain[e] = "returned" => drain'[e] = "returned"
    BY <1>0, <1>3 DEF TypeOK, Drainer, CallDrain, DrainSubscribe, DrainCheck, DrainWake
  <2>6. UnmappedIsDrained'
    BY <2>1, <2>5 DEF IInv, UnmappedIsDrained
  <2> QED
    BY <2>2, <2>4, <2>6
<1>4. CASE Unmap
  BY <1>1, <1>4 DEF Unmap, IInv, DrainAfterRevoke, ReturnedIsQuiet, UnmappedIsDrained, Admitted
<1>5. (\E d \in Drainers : Drainer(d)) \/ Unmap \/ UNCHANGED <<drain, mapped>>
  BY DEF Next, Thread, LeaseLoad, LeaseAdd, LeaseRecheck, LeaseTranslate,
         DropActive, NotifyWaiters, Revoke, FlushRevoke, vars
<1> QED
  BY <1>1, <1>2, <1>3, <1>4, <1>5 DEF IInv

\* The safety theorem: when a barrier separates revoke() from the drain, the
\* transport never unmaps memory that a lease still reaches.
THEOREM UnmapIsSafe ==
  ASSUME Fence
  PROVE  Spec => []NoLeaseUnmapped
<1>1. IInv => NoLeaseUnmapped
  BY DEF IInv, ReturnedIsQuiet, UnmappedIsDrained, NoLeaseUnmapped
<1> QED
  BY <1>1, IInvInit, IInvStep, PTL DEF Spec

-----------------------------------------------------------------------------
\* Every step of the protocol is a step of DmaGuard, or changes nothing that
\* DmaGuard sees.
LEMMA GuardStep ==
  ASSUME Fence
  PROVE  IInv /\ [Next]_vars => [Guard!Next]_(Guard!vars)
<1> SUFFICES ASSUME IInv, [Next]_vars PROVE [Guard!Next]_(Guard!vars)
  OBVIOUS
<1> USE DEF Guard!vars
<1>0. TypeOK
  BY DEF IInv, CountInv
<1>1. ASSUME UNCHANGED <<revoked, mapped>>, Admitted' = Admitted
      PROVE  UNCHANGED Guard!vars
  BY <1>1
<1>2. ASSUME NEW t \in Threads, LeaseRecheck(t) PROVE [Guard!Next]_(Guard!vars)
  <2>1. CASE revoked
    BY <1>0, <1>1, <1>2, <2>1 DEF LeaseRecheck, Step, Admitted, TypeOK
  <2>2. CASE ~revoked
    <3>1. Admitted' = Admitted \cup {t} /\ t \notin Admitted
      BY <1>0, <1>2, <2>2 DEF LeaseRecheck, Step, Admitted, TypeOK
    <3>2. Guard!Admit(t)
      BY <1>2, <2>2, <3>1 DEF LeaseRecheck, Guard!Admit
    <3> QED
      BY <3>2 DEF Guard!Next
  <2> QED
    BY <2>1, <2>2
<1>3. ASSUME NEW t \in Threads, LeaseTranslate(t) \/ DropActive(t)
      PROVE  [Guard!Next]_(Guard!vars)
  <2>1. UNCHANGED <<revoked, mapped>>
    BY <1>3 DEF LeaseTranslate, DropActive
  <2>2. Admitted' = Admitted \/ (t \in Admitted /\ Admitted' = Admitted \ {t})
    BY <1>0, <1>3 DEF LeaseTranslate, DropActive, Step, Admitted, TypeOK
  <2>3. ASSUME t \in Admitted, Admitted' = Admitted \ {t} PROVE Guard!Release(t)
    BY <2>1, <2>3 DEF Guard!Release
  <2> QED
    BY <1>1, <2>1, <2>2, <2>3 DEF Guard!Next
<1>4. ASSUME NEW t \in Threads, LeaseLoad(t) \/ LeaseAdd(t) \/ NotifyWaiters(t)
      PROVE  UNCHANGED Guard!vars
  BY <1>0, <1>1, <1>4 DEF LeaseLoad, LeaseAdd, NotifyWaiters, Step, Admitted, TypeOK
<1>5. CASE FlushRevoke
  <2>1. Guard!Close
    BY <1>5 DEF FlushRevoke, Guard!Close, Admitted
  <2> QED
    BY <2>1 DEF Guard!Next
<1>6. CASE Unmap
  <2>1. revoked /\ Admitted = {} /\ Admitted' = Admitted
    BY <1>6 DEF Unmap, IInv, ReturnedIsQuiet, Admitted
  <2>2. Guard!Remove
    BY <1>6, <2>1 DEF Unmap, Guard!Remove
  <2> QED
    BY <2>2 DEF Guard!Next
<1>7. ASSUME Revoke \/ (\E d \in Drainers : Drainer(d)) \/ UNCHANGED vars
      PROVE  UNCHANGED Guard!vars
  BY <1>7 DEF Revoke, Drainer, CallDrain, DrainSubscribe, DrainCheck, DrainWake,
              vars, Admitted
<1> QED
  BY <1>2, <1>3, <1>4, <1>5, <1>6, <1>7 DEF Next, Thread

\* The refinement theorem: the lease protocol implements DmaGuard.
THEOREM ProtocolImplementsGuard ==
  ASSUME Fence
  PROVE  Spec => ImplementsGuard
<1>1. Init => Guard!Init
  BY DEF Init, Guard!Init, Admitted
<1> QED
  BY <1>1, IInvInit, IInvStep, GuardStep, PTL DEF Spec, Guard!Spec, ImplementsGuard

-----------------------------------------------------------------------------
(* DmaMemory::new and translate.                                           *)

TranslateType ==
  /\ segments \in Seq(Segment)
  /\ range \in DmaRange
  /\ cursor \in Nat
  /\ parts \in Seq(Part)
  /\ phase \in {"new", "invalid", "ready", "loop", "ok", "err"}

\* What new() established is kept for the life of the generation.
Checked == phase \notin {"new", "invalid"} => Sorted(segments) /\ Valid(segments)

\* Outside the loop and its results there is nothing translated.
Blank == phase \in {"new", "invalid", "ready"} => parts = <<>>

\* The loop has passed over mapped addresses only, and never beyond the end.
Covered ==
  phase \in {"loop", "ok"} =>
    /\ Fits(range)
    /\ range.gpa <= cursor /\ cursor <= EndOf(range)
    /\ parts = <<>> => cursor = range.gpa
    /\ \A a \in range.gpa..(cursor - 1) : Mapped(a)

TranslateInv ==
  /\ TranslateType
  /\ Checked
  /\ Blank
  /\ Covered
  /\ PartsTile
  /\ TranslatesMappedRanges

-----------------------------------------------------------------------------
\* No address is both before the end of a segment and past its successors.
LEMMA Apart ==
  \A start, length, next, later, a \in Nat :
    ~(start + length <= next /\ next <= later /\ a < start + length /\ later <= a)
OBVIOUS

\* A sorted list whose neighbours do not overlap gives an address at most one
\* segment: between two that hold it, the first ends before the second begins.
LEMMA OneSegment ==
  ASSUME NEW s \in Seq(Segment), Sorted(s), Valid(s), NEW a \in Nat,
         NEW i \in DOMAIN s, NEW j \in DOMAIN s,
         Contains(s[i], a), Contains(s[j], a)
  PROVE  i = j
<1>1. ASSUME NEW k \in DOMAIN s, NEW l \in DOMAIN s, k < l,
             Contains(s[k], a), Contains(s[l], a)
      PROVE  FALSE
  <2>0. k \in 1..Len(s) /\ l \in 1..Len(s) /\ Len(s) \in Nat
    OBVIOUS
  <2>1. k + 1 \in 1..Len(s) /\ k + 1 # 1 /\ (k + 1) - 1 = k
    BY <1>1, <2>0
  <2>2. s[k] \in Segment /\ s[k + 1] \in Segment /\ s[l] \in Segment
    BY <2>0, <2>1
  <2>3. /\ s[k].gpa \in Nat /\ s[k].length \in Nat
        /\ s[k + 1].gpa \in Nat
        /\ s[l].gpa \in Nat /\ s[l].length \in Nat
    <3>1. \A x \in Segment : x.gpa \in Nat /\ x.length \in Nat
      BY DEF Segment
    <3> QED
      BY Zenon, <2>2, <3>1
  <2>4. s[k].gpa + s[k].length <= s[k + 1].gpa
    <3>1. \A m \in DOMAIN s : m # 1 => EndOf(s[m - 1]) <= s[m].gpa
      BY DEF Valid
    <3>2. k + 1 \in DOMAIN s
      BY <2>1
    <3>3. EndOf(s[(k + 1) - 1]) <= s[k + 1].gpa
      BY <2>1, <3>1, <3>2
    <3> QED
      BY <2>1, <3>3 DEF EndOf
  <2>5. s[k + 1].gpa <= s[l].gpa
    <3>1. CASE k + 1 = l
      BY <2>3, <3>1
    <3>2. CASE k + 1 < l
      BY <2>0, <2>1, <3>2 DEF Sorted
    <3> QED
      BY <1>1, <2>0, <3>1, <3>2
  <2>6. a < s[k].gpa + s[k].length /\ s[l].gpa <= a
    BY <1>1 DEF Contains, EndOf
  <2> QED
    BY Zenon, <2>3, <2>4, <2>5, <2>6, Apart
<1>2. i \in Nat /\ j \in Nat
  OBVIOUS
<1> QED
  BY <1>1, <1>2

\* The list that new() stores has the elements' type of the list it was given.
LEMMA PermutedType ==
  ASSUME NEW s \in Seq(Segment), NEW p \in [DOMAIN s -> DOMAIN s]
  PROVE  [i \in DOMAIN s |-> s[p[i]]] \in Seq(Segment)
<1>1. DOMAIN s = 1..Len(s) /\ Len(s) \in Nat /\ \A i \in DOMAIN s : s[i] \in Segment
  OBVIOUS
<1>2. \A i \in 1..Len(s) : s[p[i]] \in Segment
  BY <1>1
<1>3. \A n \in Nat : \A f : (\A i \in 1..n : f[i] \in Segment) =>
        [i \in 1..n |-> f[i]] \in Seq(Segment)
  OBVIOUS
<1>4. PICK f : f = [i \in 1..Len(s) |-> s[p[i]]]
  BY Zenon
<1>5. f = [i \in 1..Len(s) |-> f[i]] /\ \A i \in 1..Len(s) : f[i] \in Segment
  BY Zenon, <1>2, <1>4
<1>6. f \in Seq(Segment)
  BY Zenon, <1>1, <1>3, <1>5
<1> QED
  BY Zenon, <1>1, <1>4, <1>6

\* Any segment that holds the cursor gives a next part that starts at the
\* cursor, is not empty, stays inside the range and inside the segment.
LEMMA NextPart ==
  ASSUME TranslateType, NEW i \in DOMAIN segments, Contains(segments[i], cursor),
         cursor < EndOf(range)
  PROVE  /\ PartEnd(segments[i]) \in Nat
         /\ cursor < PartEnd(segments[i])
         /\ PartEnd(segments[i]) <= EndOf(range)
         /\ PartEnd(segments[i]) <= EndOf(segments[i])
         /\ cursor - segments[i].gpa \in Nat
<1>1. segments[i] \in Segment /\ range \in DmaRange /\ cursor \in Nat
  BY DEF TranslateType
<1> QED
  BY <1>1 DEF Contains, PartEnd, EndOf, Segment, DmaRange

-----------------------------------------------------------------------------
\* One iteration that finds a segment keeps the tiling and the covering.
LEMMA IterateFound ==
  ASSUME TranslateInv, Iterate, phase = "loop",
         NEW i \in DOMAIN segments, Contains(segments[i], cursor),
         parts' = Append(parts, [gpa |-> cursor,
                                 base |-> segments[i].base,
                                 offset |-> cursor - segments[i].gpa,
                                 length |-> PartEnd(segments[i]) - cursor]),
         cursor' = PartEnd(segments[i]), phase' = phase
  PROVE  TranslateInv'
<1> DEFINE new == [gpa |-> cursor,
                   base |-> segments[i].base,
                   offset |-> cursor - segments[i].gpa,
                   length |-> PartEnd(segments[i]) - cursor]
<1>0. /\ TranslateType /\ Checked /\ Covered /\ PartsTile
      /\ UNCHANGED <<segments, range>> /\ cursor < EndOf(range)
  BY DEF TranslateInv, Iterate
<1>1. /\ PartEnd(segments[i]) \in Nat
      /\ cursor < PartEnd(segments[i])
      /\ PartEnd(segments[i]) <= EndOf(range)
      /\ PartEnd(segments[i]) <= EndOf(segments[i])
      /\ cursor - segments[i].gpa \in Nat
  BY <1>0, NextPart
<1>2. segments[i] \in Segment /\ cursor \in Nat /\ range \in DmaRange /\ parts \in Seq(Part)
  BY <1>0 DEF TranslateType
<1>3. new \in Part
  BY <1>1, <1>2 DEF Part, Segment
<1>4. TranslateType'
  BY <1>0, <1>1, <1>3 DEF TranslateType
<1>5. Checked' /\ Blank'
  BY <1>0 DEF Checked, Blank, Sorted, Valid
<1>6. \A a \in cursor..(cursor' - 1) : Contains(segments[i], a)
  BY <1>1, <1>2 DEF Contains, EndOf, Segment
<1>7. Covered'
  <2>1. \A a \in range.gpa..(cursor' - 1) : Mapped(a)
    <3> SUFFICES ASSUME NEW a \in range.gpa..(cursor' - 1) PROVE Mapped(a)
      OBVIOUS
    <3>1. a \in range.gpa..(cursor - 1) \/ a \in cursor..(cursor' - 1)
      BY <1>1, <1>2 DEF DmaRange
    <3> QED
      BY <1>0, <1>6, <3>1 DEF Covered, Mapped
  <2>2. \A a : Mapped(a)' <=> Mapped(a)
    BY <1>0 DEF Mapped
  <2>3. parts' # <<>>
    BY <1>2, <1>3
  <2>4. Fits(range) /\ range.gpa <= cursor
    BY <1>0 DEF Covered
  <2>5. range.gpa <= cursor' /\ cursor' <= EndOf(range)
    BY <1>1, <1>2, <2>4 DEF DmaRange
  <2> QED
    BY <1>0, <2>1, <2>2, <2>3, <2>4, <2>5 DEF Covered, Fits, EndOf
<1>8. PartsTile'
  <2>1. /\ Len(parts') = Len(parts) + 1
        /\ parts'[Len(parts')] = new
        /\ \A k \in 1..Len(parts) : parts'[k] = parts[k]
        /\ DOMAIN parts' = 1..(Len(parts) + 1)
        /\ DOMAIN parts = 1..Len(parts)
        /\ Len(parts) \in Nat
    BY <1>2, <1>3
  <2>2. EndOf(new) = cursor'
    BY <1>1, <1>2 DEF EndOf
  <2>3. parts'[1].gpa = range.gpa
    <3>1. CASE parts = <<>>
      BY <1>0, <1>2, <2>1, <3>1 DEF Covered
    <3>2. CASE parts # <<>>
      <4>1. 1 \in 1..Len(parts)
        BY <1>2, <2>1, <3>2
      <4>2. parts[1].gpa = range.gpa
        BY <1>0, <3>2 DEF PartsTile
      <4> QED
        BY <2>1, <4>1, <4>2
    <3> QED
      BY Zenon, <3>1, <3>2
  <2>4. ASSUME NEW k \in DOMAIN parts'
        PROVE  /\ parts'[k].length > 0
               /\ k > 1 => parts'[k].gpa = EndOf(parts'[k - 1])
               /\ \A a \in parts'[k].gpa..(EndOf(parts'[k]) - 1) :
                    <<parts'[k].base, parts'[k].offset + (a - parts'[k].gpa)>> \in HostOf(a)
    <3>1. CASE k \in 1..Len(parts)
      <4>1. parts'[k] = parts[k] /\ (k > 1 => parts'[k - 1] = parts[k - 1])
        BY <2>1, <3>1
      <4> QED
        BY <1>0, <2>1, <3>1, <4>1 DEF PartsTile
    <3>2. CASE k = Len(parts) + 1
      <4>1. parts'[k] = new
        BY <2>1, <3>2
      <4>2. new.length > 0
        BY <1>1, <1>2
      <4>3. k > 1 => new.gpa = EndOf(parts'[k - 1])
        <5> SUFFICES ASSUME k > 1 PROVE cursor = EndOf(parts'[k - 1])
          OBVIOUS
        <5>1. parts # <<>> /\ k - 1 = Len(parts) /\ k - 1 \in 1..Len(parts)
          BY <1>2, <2>1, <3>2
        <5>2. EndOf(parts[Len(parts)]) = cursor
          BY <1>0, <5>1 DEF PartsTile
        <5> QED
          BY <2>1, <5>1, <5>2
      <4>4. ASSUME NEW a \in new.gpa..(EndOf(new) - 1)
            PROVE  <<new.base, new.offset + (a - new.gpa)>> \in HostOf(a)
        <5>1. Contains(segments[i], a)
          BY <1>6, <2>2
        <5>2. new.offset + (a - new.gpa) = a - segments[i].gpa
          BY <1>2 DEF Segment
        <5> QED
          BY <5>1, <5>2 DEF HostOf
      <4> QED
        BY <4>1, <4>2, <4>3, <4>4
    <3> QED
      BY <2>1, <3>1, <3>2
  <2>5. \A a : HostOf(a)' = HostOf(a)
    BY <1>0 DEF HostOf, Contains, EndOf
  <2> QED
    BY <1>0, <1>1, <2>1, <2>2, <2>3, <2>4, <2>5 DEF PartsTile, EndOf
<1>9. TranslatesMappedRanges'
  BY DEF TranslatesMappedRanges
<1> QED
  BY <1>4, <1>5, <1>7, <1>8, <1>9 DEF TranslateInv

\* An iteration that finds no segment stops at an address that is not mapped.
LEMMA IterateHole ==
  ASSUME TranslateInv, Iterate, UNCHANGED <<cursor, parts>>, phase' = "err",
         \A i \in DOMAIN segments : ~Contains(segments[i], cursor)
  PROVE  TranslateInv'
<1>0. /\ TranslateType /\ Checked /\ Covered /\ PartsTile /\ phase = "loop"
      /\ UNCHANGED <<segments, range, cursor, parts>> /\ cursor < EndOf(range)
  BY DEF TranslateInv, Iterate
<1>1. ~Mapped(cursor) /\ cursor \in range.gpa..(EndOf(range) - 1)
  BY <1>0 DEF Mapped, Covered, TranslateType, DmaRange, EndOf
<1>2. TranslatesMappedRanges'
  BY <1>0, <1>1 DEF TranslatesMappedRanges, Mapped, EndOf
<1>3. TranslateType' /\ Checked' /\ Blank' /\ Covered'
  BY <1>0 DEF TranslateType, Checked, Blank, Covered, Sorted, Valid
<1>4. PartsTile'
  BY <1>0 DEF PartsTile, HostOf
<1> QED
  BY <1>2, <1>3, <1>4 DEF TranslateInv

\* The invariant holds before new() has looked at a list.
LEMMA TranslateInitially == TranslateInit => TranslateInv
<1> SUFFICES ASSUME TranslateInit PROVE TranslateInv
  OBVIOUS
<1>1. TranslateType
  BY InputAssumption DEF TranslateInit, TranslateType, DmaRange, NoRange
<1>2. Checked /\ Blank /\ Covered /\ TranslatesMappedRanges
  BY DEF TranslateInit, Checked, Blank, Covered, TranslatesMappedRanges
<1>3. PartsTile
  BY DEF TranslateInit, PartsTile
<1> QED
  BY <1>1, <1>2, <1>3 DEF TranslateInv

\* Every step of new() and translate() keeps the invariant.
LEMMA TranslateStep == TranslateInv /\ [TranslateNext]_translateVars => TranslateInv'
<1> SUFFICES ASSUME TranslateInv, [TranslateNext]_translateVars PROVE TranslateInv'
  OBVIOUS
<1>0. TranslateType /\ Checked /\ Blank /\ Covered /\ PartsTile /\ TranslatesMappedRanges
  BY DEF TranslateInv
<1>1. CASE New
  <2>1. PICK p \in [DOMAIN segments -> DOMAIN segments] :
          segments' = [i \in DOMAIN segments |-> segments[p[i]]]
    BY Zenon, <1>1 DEF New
  <2>2. segments' \in Seq(Segment)
    BY Zenon, <1>0, <2>1, PermutedType DEF TranslateType
  <2>3. TranslateType' /\ Checked'
    BY <1>0, <1>1, <2>2 DEF New, TranslateType, Checked
  <2>4. parts = <<>> /\ parts' = <<>>
    BY <1>0, <1>1 DEF New, Blank
  <2>5. Blank' /\ Covered' /\ TranslatesMappedRanges' /\ PartsTile'
    BY <1>1, <2>4 DEF New, Blank, Covered, TranslatesMappedRanges, PartsTile
  <2> QED
    BY <2>3, <2>5 DEF TranslateInv
<1>2. CASE Begin
  <2>1. PICK r \in Ranges :
          range' = r /\ cursor' = r.gpa /\ phase' = IF Fits(r) THEN "loop" ELSE "err"
    BY <1>2 DEF Begin
  <2>2. r \in DmaRange /\ r.gpa \in Nat /\ r.length \in Nat
    BY InputAssumption DEF DmaRange
  <2>3. parts' = <<>> /\ segments' = segments /\ phase = "ready"
    BY <1>2 DEF Begin
  <2>4. TranslateType' /\ Checked' /\ Blank'
    BY <1>0, <2>1, <2>2, <2>3 DEF TranslateType, Checked, Blank
  <2>5. Covered'
    BY <2>1, <2>2, <2>3 DEF Covered, EndOf, Fits
  <2>6. PartsTile'
    BY <2>3 DEF PartsTile
  <2>7. TranslatesMappedRanges'
    BY <2>1 DEF TranslatesMappedRanges, Fits
  <2> QED
    BY <2>4, <2>5, <2>6, <2>7 DEF TranslateInv
<1>3. CASE Iterate
  <2> DEFINE found == {i \in DOMAIN segments : Contains(segments[i], cursor)}
  <2>1. CASE found = {}
    <3>1. phase' = "err" /\ UNCHANGED <<cursor, parts>>
      BY <1>3, <2>1 DEF Iterate, AtHole
    <3> QED
      BY <1>3, <2>1, <3>1, IterateHole
  <2>2. CASE found # {}
    <3> DEFINE i == CHOOSE i \in found : \A j \in found : i <= j
    <3>1. i \in found
      <4>1. PICK m \in found : TRUE
        BY <2>2
      <4>2. \A j \in found : j = m
        BY <1>0, <1>3, OneSegment DEF TranslateType, Checked, Iterate
      <4>3. m \in Nat
        BY <1>0 DEF TranslateType
      <4>4. \A j \in found : m <= j
        BY <4>2, <4>3
      <4> QED
        BY <4>1, <4>4, Zenon
    <3>2. /\ parts' = Append(parts, [gpa |-> cursor,
                                     base |-> segments[i].base,
                                     offset |-> cursor - segments[i].gpa,
                                     length |-> PartEnd(segments[i]) - cursor])
          /\ cursor' = PartEnd(segments[i]) /\ phase' = phase /\ phase = "loop"
      BY <1>3, <2>2, Zenon DEF Iterate
    <3> HIDE DEF i
    <3>3. i \in DOMAIN segments /\ Contains(segments[i], cursor)
      BY <3>1
    <3> QED
      BY <1>3, <3>2, <3>3, IterateFound
  <2> QED
    BY <2>1, <2>2
<1>4. CASE Finish
  <2>1. /\ phase = "loop" /\ phase' = "ok" /\ UNCHANGED <<segments, range, cursor, parts>>
        /\ cursor >= EndOf(range)
    BY <1>4 DEF Finish
  <2>2. cursor = EndOf(range)
    BY <1>0, <2>1 DEF Covered, TranslateType, DmaRange, EndOf
  <2>3. TranslatesMappedRanges'
    BY <1>0, <2>1, <2>2 DEF Covered, TranslatesMappedRanges, Mapped, Fits, EndOf
  <2>4. TranslateType' /\ Checked' /\ Blank'
    BY <1>0, <2>1 DEF TranslateType, Checked, Blank, Sorted, Valid
  <2>5. Covered'
    BY <1>0, <2>1 DEF Covered, Mapped, Fits, EndOf
  <2>6. PartsTile'
    BY <1>0, <2>1 DEF PartsTile, HostOf
  <2> QED
    BY <2>3, <2>4, <2>5, <2>6 DEF TranslateInv
<1>5. CASE Again
  <2>1. /\ phase \in {"ok", "err"} /\ phase' = "ready" /\ range' = NoRange /\ cursor' = 0
        /\ parts' = <<>> /\ segments' = segments
    BY <1>5 DEF Again
  <2>2. TranslateType' /\ Checked' /\ Blank'
    BY <1>0, <2>1 DEF TranslateType, Checked, Blank, DmaRange, NoRange
  <2>3. Covered' /\ TranslatesMappedRanges' /\ PartsTile'
    BY <2>1 DEF Covered, TranslatesMappedRanges, PartsTile
  <2> QED
    BY <2>2, <2>3 DEF TranslateInv
<1>6. CASE UNCHANGED translateVars
  <2>1. TranslateType' /\ Checked' /\ Blank' /\ Covered'
    BY <1>0, <1>6 DEF translateVars, TranslateType, Checked, Blank, Covered, Mapped, Sorted, Valid
  <2>2. TranslatesMappedRanges' /\ PartsTile'
    BY <1>0, <1>6 DEF translateVars, TranslatesMappedRanges, PartsTile, Mapped, HostOf
  <2> QED
    BY <2>1, <2>2 DEF TranslateInv
<1> QED
  BY <1>1, <1>2, <1>3, <1>4, <1>5, <1>6 DEF TranslateNext

-----------------------------------------------------------------------------
\* The parts theorem: at every moment of the loop the parts tile the range up
\* to the cursor and point where their segments do.
THEOREM PartsAlwaysTile == TranslateSpec => []PartsTile
<1>1. TranslateInv => PartsTile
  BY DEF TranslateInv
<1> QED
  BY <1>1, TranslateInitially, TranslateStep, PTL DEF TranslateSpec

\* The result theorem: translate() accepts exactly the ranges whose end is
\* representable and whose every address is mapped.
THEOREM TranslateIsExact == TranslateSpec => []TranslatesMappedRanges
<1>1. TranslateInv => TranslatesMappedRanges
  BY DEF TranslateInv
<1> QED
  BY <1>1, TranslateInitially, TranslateStep, PTL DEF TranslateSpec

\* The aliasing theorem: after new() no guest address has two host addresses.
THEOREM NewExcludesAliases == TranslateSpec => []NoAliases
<1>1. TranslateInv => NoAliases
  <2> SUFFICES ASSUME TranslateInv, phase \notin {"new", "invalid"}, NEW a \in 0..Top,
                      NEW h \in HostOf(a), NEW k \in HostOf(a)
               PROVE  h = k
    BY DEF NoAliases
  <2>1. a \in Nat /\ segments \in Seq(Segment) /\ Sorted(segments) /\ Valid(segments)
    BY TopAssumption DEF TranslateInv, TranslateType, Checked
  <2>2. PICK i \in DOMAIN segments :
          Contains(segments[i], a) /\ h = <<segments[i].base, a - segments[i].gpa>>
    BY DEF HostOf
  <2>3. PICK j \in DOMAIN segments :
          Contains(segments[j], a) /\ k = <<segments[j].base, a - segments[j].gpa>>
    BY DEF HostOf
  <2>4. i = j
    BY <2>1, <2>2, <2>3, OneSegment
  <2> QED
    BY <2>2, <2>3, <2>4
<1> QED
  BY <1>1, TranslateInitially, TranslateStep, PTL DEF TranslateSpec
=============================================================================
