-------------------------- MODULE MemoryConfigProofs ------------------------
(***************************************************************************)
(* Proof that a subscriber of the virtio-mem configuration is current, and *)
(* of the types, for any updaters and any configurations.                  *)
(*                                                                         *)
(* SubscriberIsCurrent speaks of a transport that has read everything.     *)
(* What is inductive is about the words it has read so far: with no        *)
(* update() under way and nothing new in the channel, these are current.   *)
(* An update() that replaced the configuration is under way until it has   *)
(* sent, and a send makes the version differ from the one seen.            *)
(***************************************************************************)
EXTENDS MemoryConfigState, FiniteSetTheorems, TLAPS

Quiet == \A u \in Updaters : pc[u] = "idle"

Versions ==
  /\ version \in Nat /\ seen \in Nat /\ seen <= version
  /\ pc \in [Updaters -> {"idle", "borrow", "send"}]
  /\ view = [w \in Words |-> view[w]]
  /\ unread \subseteq Words
  /\ watcher \in {"absent", "reading", "fresh"}

ReadIsCurrent ==
  watcher # "absent" /\ seen = version /\ Quiet =>
    \A w \in Words \ unread : view[w] = Encode(config)[w]

IInv ==
  /\ Versions
  /\ watcher = "fresh" => unread = {}
  /\ ReadIsCurrent

-----------------------------------------------------------------------------
\* The inductive invariant covers what a subscriber relies on.
LEMMA InvImpliesCurrent == IInv => SubscriberIsCurrent
<1> SUFFICES ASSUME IInv, watcher = "fresh", seen = version, Quiet
             PROVE  view = Encode(config)
  BY DEF SubscriberIsCurrent, Quiet
<1>1. \A w \in Words : view[w] = Encode(config)[w]
  BY DEF IInv, ReadIsCurrent
<1> QED
  BY <1>1 DEF IInv, Versions, Encode

\* No one has subscribed yet.
LEMMA InitInv == Init => IInv
<1> SUFFICES ASSUME Init PROVE IInv
  OBVIOUS
<1>1. Versions
  BY DEF Init, Versions, Encode
<1> QED
  BY <1>1 DEF Init, IInv, ReadIsCurrent

\* An update() that has replaced the configuration is under way: nothing is
\* said of the words read before it.
LEMMA WriteInv == ASSUME IInv, NEW u \in Updaters, Write(u) PROVE IInv'
<1>1. Versions' /\ pc'[u] = "borrow"
  BY DEF IInv, Versions, Write, Goto, transport
<1> QED
  BY <1>1 DEF IInv, ReadIsCurrent, Quiet, Write, transport

\* update() is still under way once it has read the generation.
LEMMA BorrowInv == ASSUME IInv, NEW u \in Updaters, Borrow(u) PROVE IInv'
<1>1. Versions' /\ pc'[u] = "send"
  BY DEF IInv, Versions, Borrow, Goto, transport
<1> QED
  BY <1>1 DEF IInv, ReadIsCurrent, Quiet, Borrow, transport

\* Without a receiver there is no subscriber; with one, it has a new version
\* to be told of.
LEMMA SendInv == ASSUME IInv, NEW u \in Updaters, Send(u) PROVE IInv'
<1>1. Versions'
  BY DEF IInv, Versions, Send, Goto, transport
<1>2. watcher' # "absent" => seen' # version'
  BY DEF IInv, Versions, Send, transport
<1> QED
  BY <1>1, <1>2 DEF IInv, ReadIsCurrent, Send, transport

\* A word that is read is the one of the current configuration.
LEMMA ReadInv == ASSUME IInv, NEW w \in Words, Read(w) PROVE IInv'
<1>1. Versions'
  BY DEF IInv, Versions, Read
<1>2. ReadIsCurrent'
  <2> SUFFICES ASSUME seen' = version', Quiet', NEW v \in Words \ unread'
               PROVE  view'[v] = Encode(config)'[v]
    BY DEF ReadIsCurrent, Words, Layout
  <2>1. Quiet /\ seen = version /\ watcher # "absent" /\ Encode(config)' = Encode(config)
    BY DEF Quiet, Read, Encode
  <2>2. CASE v = w
    BY <2>1, <2>2 DEF Read, Snapshot, IInv, Versions
  <2>3. CASE v # w
    BY <2>1, <2>3 DEF Read, IInv, Versions, ReadIsCurrent
  <2> QED
    BY <2>2, <2>3
<1> QED
  BY <1>1, <1>2 DEF IInv, Read

\* A transport that is told of a change, or subscribes, has all to read.
LEMMA TellInv == ASSUME IInv, Subscribe \/ Changed PROVE IInv'
<1>1. Versions' /\ unread' = Words /\ watcher' = "reading"
  BY DEF IInv, Versions, Subscribe, Changed
<1> QED
  BY <1>1 DEF IInv, ReadIsCurrent, Words, Layout

\* Every step keeps the invariant.
LEMMA InvStep == IInv /\ [Next]_vars => IInv'
<1> SUFFICES ASSUME IInv, [Next]_vars PROVE IInv'
  OBVIOUS
<1>1. CASE \E u \in Updaters : Write(u) \/ Borrow(u) \/ Send(u)
  BY <1>1, WriteInv, BorrowInv, SendInv
<1>2. CASE Subscribe \/ Changed
  BY <1>2, TellInv
<1>3. CASE \E w \in Words : Read(w)
  BY <1>3, ReadInv
<1>4. CASE Unsubscribe
  BY <1>4 DEF IInv, Versions, ReadIsCurrent, Unsubscribe
<1>5. CASE UNCHANGED vars
  BY <1>5 DEF IInv, Versions, ReadIsCurrent, Quiet, vars, transport
<1> QED
  BY <1>1, <1>2, <1>3, <1>4, <1>5 DEF Next

\* A subscriber that has handled every change it was told of has the current
\* configuration whenever no update() is under way, whatever the updaters and
\* the moments at which they call update().
THEOREM SubscriberStaysCurrent == Spec => []SubscriberIsCurrent
BY InitInv, InvStep, InvImpliesCurrent, PTL DEF Spec

-----------------------------------------------------------------------------
(* Types.  The bounds of version and generation are what counts: an        *)
(* update() under way has been called and has not sent, so the values the  *)
(* channel took and the calls under way are together no more than the      *)
(* calls; and no generation is ahead of the number of values taken.        *)

Pending == {u \in Updaters : pc[u] # "idle"}

CountInv ==
  /\ calls \in 0..MaxUpdates /\ version \in Nat
  /\ IsFiniteSet(Pending)
  /\ version + Cardinality(Pending) <= calls

GenerationInv ==
  /\ version \in Nat
  /\ generation \in 0..version
  /\ next \in [Updaters -> Nat]
  /\ \A u \in Updaters : next[u] <= version + 1

WordsInv ==
  /\ config \in Accepted
  /\ view \in [Words -> Nat]

\* What validate() was given are natural numbers, and so are the encoded words.
LEMMA EncodeType == ASSUME NEW c \in Accepted PROVE Encode(c) \in [Words -> Nat]
<1>1. c \in MemoryConfig
  BY ConfigAssumption DEF Accepted
<1>2. \A w \in Words : c[Layout[w]] \in Nat
  BY <1>1 DEF Words, Layout, MemoryConfig
<1> QED
  BY <1>2 DEF Encode

\* A call begins, or ends with a value that the channel may take.
LEMMA CountStep == ASSUME CountInv, pc \in [Updaters -> {"idle", "borrow", "send"}], [Next]_vars
                   PROVE  CountInv'
<1> USE DEF CountInv
<1>0. Cardinality(Pending) \in Nat
  BY FS_CardinalityType
<1>1. ASSUME NEW u \in Updaters, Write(u) PROVE CountInv'
  <2>1. Pending' = Pending \cup {u} /\ u \notin Pending
    BY <1>1 DEF Pending, Write, Goto
  <2>2. IsFiniteSet(Pending') /\ Cardinality(Pending') = Cardinality(Pending) + 1
    BY <2>1, FS_AddElement
  <2> QED
    BY <1>0, <1>1, <2>2, ConfigAssumption DEF Write
<1>2. ASSUME NEW u \in Updaters, Send(u) PROVE CountInv'
  <2>1. Pending' = Pending \ {u} /\ u \in Pending
    BY <1>2 DEF Pending, Send, Goto
  <2>2. IsFiniteSet(Pending') /\ Cardinality(Pending') = Cardinality(Pending) - 1
    BY <2>1, FS_RemoveElement
  <2>3. version' \in {version, version + 1} /\ calls' = calls
    BY <1>2 DEF Send
  <2> QED
    BY <1>0, <2>2, <2>3
<1>3. CASE UNCHANGED <<calls, version>> /\ Pending' = Pending
  BY <1>3
<1>4. ASSUME NEW u \in Updaters, Borrow(u)
      PROVE  UNCHANGED <<calls, version>> /\ Pending' = Pending
  BY <1>4 DEF Borrow, Goto, Pending
<1>5. ASSUME \/ Subscribe \/ (\E w \in Words : Read(w)) \/ Changed \/ Unsubscribe
             \/ UNCHANGED vars
      PROVE  UNCHANGED <<calls, version>> /\ Pending' = Pending
  BY <1>5 DEF Subscribe, Read, Changed, Unsubscribe, vars, Pending
<1> QED
  BY <1>1, <1>2, <1>3, <1>4, <1>5 DEF Next

\* A generation is one more than a value the channel had.
LEMMA GenerationStep == ASSUME GenerationInv, [Next]_vars PROVE GenerationInv'
<1> USE DEF GenerationInv
<1>1. ASSUME NEW u \in Updaters, Borrow(u) PROVE GenerationInv'
  BY <1>1 DEF Borrow
<1>2. ASSUME NEW u \in Updaters, Send(u) PROVE GenerationInv'
  BY <1>2 DEF Send
<1>3. CASE UNCHANGED <<generation, version, next>>
  BY <1>3
<1> QED
  BY <1>1, <1>2, <1>3 DEF Next, Write, Subscribe, Read, Changed, Unsubscribe, vars

\* Only what validate() accepts replaces the configuration.
LEMMA WordsStep == ASSUME WordsInv, [Next]_vars PROVE WordsInv'
<1> USE DEF WordsInv
<1>1. ASSUME NEW u \in Updaters, Write(u) PROVE WordsInv'
  BY <1>1 DEF Write, Accepted, transport
<1>2. ASSUME NEW w \in Words, Read(w) PROVE WordsInv'
  BY <1>2, EncodeType DEF Read, Snapshot
<1>3. CASE UNCHANGED <<config, view>>
  BY <1>3
<1> QED
  BY <1>1, <1>2, <1>3 DEF Next, Borrow, Send, Subscribe, Changed, Unsubscribe, vars, transport

\* The type theorem: the configuration anyone reads is one that validate()
\* accepted, the transport is never told of a version there is not, and neither
\* the version nor the generation gets ahead of the calls of update().
THEOREM TypeCorrect == Spec => []TypeOK
<1> DEFINE Types == IInv /\ CountInv /\ GenerationInv /\ WordsInv
<1>1. Init => Types
  <2> SUFFICES ASSUME Init PROVE Types
    OBVIOUS
  <2>1. Pending = {}
    BY DEF Init, Pending
  <2>2. CountInv
    BY <2>1, FS_EmptySet, ConfigAssumption DEF Init, CountInv
  <2>3. GenerationInv
    BY DEF Init, GenerationInv
  <2>4. WordsInv
    BY EncodeType DEF Init, WordsInv, Accepted
  <2> QED
    BY <2>2, <2>3, <2>4, InitInv
<1>2. Types /\ [Next]_vars => Types'
  BY InvStep, CountStep, GenerationStep, WordsStep DEF IInv, Versions
<1>3. Types => TypeOK
  <2> SUFFICES ASSUME Types PROVE TypeOK
    OBVIOUS
  <2>1. Cardinality(Pending) \in Nat
    BY FS_CardinalityType DEF CountInv
  <2>2. version \in 0..MaxUpdates /\ generation \in 0..MaxUpdates /\ calls \in 0..MaxUpdates
    BY <2>1, ConfigAssumption DEF CountInv, GenerationInv
  <2>3. next \in [Updaters -> 0..(MaxUpdates + 1)]
    BY <2>2, ConfigAssumption DEF GenerationInv
  <2> QED
    BY <2>2, <2>3 DEF TypeOK, IInv, Versions, WordsInv
<1> QED
  <2> HIDE DEF Types
  <2> QED
    BY <1>1, <1>2, <1>3, PTL DEF Spec
=============================================================================
