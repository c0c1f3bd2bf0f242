------------------------------ MODULE VirtQueue -----------------------------
(***************************************************************************)
(* A split virtqueue (src/src/queue.rs) between a guest driver and one     *)
(* device.  Device actions are the single guest-memory accesses of         *)
(* VirtQueue::pop and VirtQueue::complete; each takes a DMA lease of its   *)
(* own and so fails once the generation is revoked.  The queue's Mutex     *)
(* makes pop and complete exclusive, hence the one device pc.              *)
(*                                                                         *)
(* The driver is external: it owns the descriptors, publishes a chain by   *)
(* filling the table and a slot and then storing the index, and follows    *)
(* the used ring.  Guest and device memory accesses are taken as           *)
(* sequentially consistent.                                                *)
(***************************************************************************)
EXTENDS Integers, Sequences, FiniteSets

CONSTANTS
  QSize,      \* QueueLayout.size
  IdxMod,     \* the ring indices are counted modulo IdxMod: 2^16 for u16
  MaxChain,   \* bound on the descriptors of a chain the driver builds
  Lens        \* used lengths a device reports

\* size is a power of two below 2^16: it divides the modulus, more than once.
ASSUME SizeAssumption ==
  /\ QSize \in Nat \ {0}
  /\ IdxMod \in Nat
  /\ IdxMod % QSize = 0
  /\ IdxMod >= 2 * QSize
ASSUME ChainAssumption == MaxChain \in 1..QSize

VARIABLES
  \* guest memory
  desc,        \* descriptor table: the next index, or End without F_NEXT
  availRing, availIdx,
  usedRing, usedIdx,
  \* the driver
  chainOf,     \* the descriptors of the chain outstanding at each head
  publishing,  \* a chain is written but its index is not
  usedSeen,    \* used index up to which answers were collected
  \* the device
  last_available, next_used,   \* QueueState
  pc,
  head, current, walked,   \* pop: the head, the descriptor to read, those read
  answer,         \* complete: the chain and the used length it was called with
  inflight,       \* the DescriptorChains popped and not completed
  revoked         \* DmaMemory::is_revoked

guest == <<desc, availRing, availIdx, usedRing, usedIdx>>
driver == <<chainOf, publishing, usedSeen>>
device == <<last_available, next_used, pc, head, current, walked, answer, inflight>>
vars == <<guest, driver, device, revoked>>

Index == 0..(QSize - 1)
End == QSize + 1
Slot(i) == i % QSize
\* Faulty variant: the index does not wrap.
IncNoWrap(i) == i + 1
Inc(i) == (i + 1) % IdxMod
Diff(i, j) == (i - j) % IdxMod    \* wrapping_sub

\* The sequences of distinct descriptors a driver can make a chain of.
Lists == {s \in UNION {[1..n -> Index] : n \in 1..MaxChain} :
            \A i, j \in DOMAIN s : s[i] = s[j] => i = j}
Chains == {[head |-> s[1], descriptors |-> s] : s \in Lists}
Elems(s) == {s[i] : i \in DOMAIN s}
NoAnswer == [head |-> End, len |-> 0]

TypeOK ==
  /\ desc \in [Index -> Index \cup {End}]
  /\ availRing \in [Index -> Index]
  /\ usedRing \in [Index -> [head : Index, len : Lens \cup {0}]]
  /\ {availIdx, usedIdx, usedSeen, last_available, next_used} \subseteq 0..(IdxMod - 1)
  /\ chainOf \in [Index -> Lists \cup {<<>>}]
  /\ publishing \in BOOLEAN
  /\ pc \in {"idle", "head", "chain", "len", "index", "error"}
  /\ {head, current} \subseteq Index
  /\ walked \in Lists \cup {<<>>}
  /\ answer \in [head : Index \cup {End}, len : Lens \cup {0}]
  /\ inflight \subseteq Chains
  /\ revoked \in BOOLEAN

Init ==
  /\ desc = [i \in Index |-> End]
  /\ availRing = [i \in Index |-> 0]
  /\ usedRing = [i \in Index |-> [head |-> 0, len |-> 0]]
  /\ availIdx = 0 /\ usedIdx = 0 /\ usedSeen = 0
  /\ chainOf = [i \in Index |-> <<>>]
  /\ publishing = FALSE
  /\ last_available = 0 /\ next_used = 0
  /\ pc = "idle"
  /\ head = 0 /\ current = 0 /\ walked = <<>>
  /\ answer = NoAnswer
  /\ inflight = {}
  /\ revoked = FALSE

-----------------------------------------------------------------------------
(* The driver, external to the crate.                                      *)

Free == Index \ UNION {Elems(chainOf[h]) : h \in Index}

DriverWrite ==
  /\ ~publishing
  /\ \E s \in Lists :
       /\ Elems(s) \subseteq Free
       /\ chainOf' = [chainOf EXCEPT ![s[1]] = s]
       /\ desc' = [i \in Index |->
                     IF \E k \in DOMAIN s : s[k] = i
                     THEN LET k == CHOOSE k \in DOMAIN s : s[k] = i
                          IN  IF k = Len(s) THEN End ELSE s[k + 1]
                     ELSE desc[i]]
       /\ availRing' = [availRing EXCEPT ![Slot(availIdx)] = s[1]]
  /\ publishing' = TRUE
  /\ UNCHANGED <<availIdx, usedRing, usedIdx, usedSeen, device, revoked>>

DriverPublish ==
  /\ publishing
  /\ publishing' = FALSE
  /\ availIdx' = Inc(availIdx)
  /\ UNCHANGED <<desc, availRing, usedRing, usedIdx, chainOf, usedSeen, device, revoked>>

DriverCollect ==
  /\ usedSeen # usedIdx
  /\ chainOf' = [chainOf EXCEPT ![usedRing[Slot(usedSeen)].head] = <<>>]
  /\ usedSeen' = Inc(usedSeen)
  /\ UNCHANGED <<guest, publishing, device, revoked>>

\* stop() of the device revokes the generation at any moment.
Revoke ==
  /\ ~revoked
  /\ revoked' = TRUE
  /\ UNCHANGED <<guest, driver, device>>

-----------------------------------------------------------------------------
(* VirtQueue::pop.                                                         *)

\* Faulty variant: a full ring is taken for an overrun.
PopIndexFullFails ==
  /\ pc = "idle" /\ ~revoked
  /\ availIdx # last_available
  /\ pc' = IF Diff(availIdx, last_available) >= QSize THEN "error" ELSE "head"
  /\ UNCHANGED <<guest, driver, last_available, next_used, head, current, walked,
                 answer, inflight, revoked>>

\* Read the available index: nothing new, too much, or one chain to read.
PopIndex ==
  /\ pc = "idle" /\ ~revoked
  /\ availIdx # last_available
  /\ pc' = IF Diff(availIdx, last_available) > QSize THEN "error" ELSE "head"
  /\ UNCHANGED <<guest, driver, last_available, next_used, head, current, walked,
                 answer, inflight, revoked>>

\* Read the head from the ring; read_chain rejects one beyond the table.
PopHead ==
  /\ pc = "head" /\ ~revoked
  /\ head' = availRing[Slot(last_available)]
  /\ current' = head'
  /\ pc' = IF head' >= QSize THEN "error" ELSE "chain"
  /\ UNCHANGED <<guest, driver, last_available, next_used, walked, answer, inflight,
                 revoked>>

\* One iteration of read_chain: read a descriptor and follow F_NEXT, at most
\* QSize times.  The last descriptor ends pop, which then advances.
PopChain ==
  /\ pc = "chain" /\ ~revoked
  /\ LET next == desc[current]
         chain == Append(walked, current)
     IN  IF next = End
         THEN /\ last_available' = Inc(last_available)
              /\ inflight' = inflight \cup {[head |-> head, descriptors |-> chain]}
              /\ walked' = <<>>
              /\ pc' = "idle"
              /\ UNCHANGED current
         ELSE /\ walked' = chain
              /\ current' = next
              /\ pc' = IF next >= QSize \/ Len(chain) = QSize THEN "error" ELSE "chain"
              /\ UNCHANGED <<last_available, inflight>>
  /\ UNCHANGED <<guest, driver, next_used, head, answer, revoked>>

-----------------------------------------------------------------------------
(* VirtQueue::complete, of any chain in flight.                            *)

\* Faulty variant: the index is stored with the id, before the length.
CompleteIdPublished ==
  /\ pc = "idle" /\ ~revoked
  /\ \E c \in inflight, len \in Lens :
       /\ answer' = [head |-> c.head, len |-> len]
       /\ usedRing' = [usedRing EXCEPT ![Slot(next_used)].head = c.head]
  /\ usedIdx' = Inc(next_used)
  /\ pc' = "len"
  /\ UNCHANGED <<desc, availRing, availIdx, driver, last_available, next_used,
                 head, current, walked, inflight, revoked>>

CompleteId ==
  /\ pc = "idle" /\ ~revoked
  /\ \E c \in inflight, len \in Lens :
       /\ answer' = [head |-> c.head, len |-> len]
       /\ usedRing' = [usedRing EXCEPT ![Slot(next_used)].head = c.head]
  /\ pc' = "len"
  /\ UNCHANGED <<desc, availRing, availIdx, usedIdx, driver, last_available, next_used,
                 head, current, walked, inflight, revoked>>

CompleteLen ==
  /\ pc = "len" /\ ~revoked
  /\ usedRing' = [usedRing EXCEPT ![Slot(next_used)].len = answer.len]
  /\ pc' = "index"
  /\ UNCHANGED <<desc, availRing, availIdx, usedIdx, driver, last_available, next_used,
                 head, current, walked, answer, inflight, revoked>>

\* After the fence: advance next_used and store it as the used index.
CompleteIndex ==
  /\ pc = "index" /\ ~revoked
  /\ next_used' = Inc(next_used)
  /\ usedIdx' = next_used'
  /\ inflight' = {c \in inflight : c.head # answer.head}
  /\ answer' = NoAnswer
  /\ pc' = "idle"
  /\ UNCHANGED <<desc, availRing, availIdx, usedRing, driver, last_available, head,
                 current, walked, revoked>>

\* A lease for the next access is refused: pop or complete returns the error.
\* next_used is already advanced when the store of the index is refused.
LeaseFails ==
  /\ revoked /\ pc # "error"
  /\ pc' = "error"
  /\ next_used' = IF pc = "index" THEN Inc(next_used) ELSE next_used
  /\ UNCHANGED <<guest, driver, last_available, head, current, walked, answer, inflight,
                 revoked>>

-----------------------------------------------------------------------------
Next ==
  \/ DriverWrite \/ DriverPublish \/ DriverCollect \/ Revoke
  \/ PopIndex \/ PopHead \/ PopChain
  \/ CompleteId \/ CompleteLen \/ CompleteIndex
  \/ LeaseFails

Spec == Init /\ [][Next]_vars

-----------------------------------------------------------------------------
(* Properties.                                                             *)

\* pop and complete fail only because the generation was revoked: with a
\* driver that keeps to the protocol no index check, no bound of read_chain
\* and no wraparound of the 16-bit indices ever reports an error.
OnlyRevokeFails == pc = "error" => revoked

\* The chains in the ring that the device has not taken, oldest first, and
\* the answers in the used ring that the driver has not collected.
PostedChains ==
  [i \in 1..Diff(availIdx, last_available) |->
     LET h == availRing[Slot(last_available + i - 1)]
     IN  [head |-> h, descriptors |-> chainOf[h]]]
UnreadAnswers ==
  [i \in 1..Diff(usedIdx, usedSeen) |-> usedRing[Slot(usedSeen + i - 1)]]

Channel == INSTANCE RequestChannel WITH
  posted <- PostedChains,
  taken <- inflight,
  answering <- answer,
  answered <- UnreadAnswers

\* The rings implement a request channel: pop takes each posted chain once, in
\* order and with the descriptors the driver linked, when it advances
\* last_available; complete answers it once, whole and with the length it was
\* called with, when it stores the used index and not before; and no later
\* write touches an answer the driver has not collected.  The indices wrap
\* many times.
ImplementsChannel == Channel!Spec
=============================================================================
