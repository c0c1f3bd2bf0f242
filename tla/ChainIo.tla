------------------------------- MODULE ChainIo ------------------------------
(***************************************************************************)
(* How the devices copy between their buffers and a descriptor chain:      *)
(* read_chain, write_chain and their like in src/src/console.rs,           *)
(* network.rs, vsock.rs, fs.rs, memory.rs and rng.rs.  BlockRequest adds   *)
(* the block device, which leaves the copying to preadv and pwritev.       *)
(*                                                                         *)
(* A descriptor is the lengths of the parts that a lease of its range has  *)
(* (DmaTranslate), whether the range is mapped, and its direction.  Every  *)
(* function checks the chain, then goes through it, leases the descriptors *)
(* it visits and copies part by part: its plan says which, and what it     *)
(* refuses.                                                                *)
(* The memory may be revoked at any moment, and then no lease is given.    *)
(*                                                                         *)
(* A cell <<d, k>> is byte k of descriptor d.  Bytes are numbered: byte i  *)
(* of what a device writes is i, and 0 is what the guest left in a cell.   *)
(***************************************************************************)
EXTENDS Integers, Sequences

CONSTANTS
  Descriptors,  \* the descriptors a driver may use
  MaxChain,     \* bound on their number in a chain
  HEADER_SIZE,  \* of a frame, a packet, a FUSE request or a memory request
  RESPONSE_SIZE,
  MAXIMUM,      \* the largest frame or payload
  Amounts,      \* what a header may say, and how many bytes a backend may have
  MaxU32        \* the largest u32, which a used length is

U32 == 0..MaxU32

\* A range that is leased is cut into parts, none for an empty range.
ASSUME ChainAssumption ==
  /\ Descriptors \subseteq [parts : Seq(Nat), write : BOOLEAN, mapped : BOOLEAN]
  /\ Amounts \subseteq Nat
  /\ MaxU32 \in Nat
  /\ HEADER_SIZE \in Nat /\ RESPONSE_SIZE \in U32

VARIABLES
  handler, chain,
  field,        \* what the header the guest wrote says
  phase,        \* start, read, reply, write, done or err
  at, part,     \* the descriptor, and the part of its lease, 0 without one
  got,          \* the cells read
  count, offset,      \* bytes to write, and written
  mem,          \* the cells of the chain
  used,         \* used length
  revoked

vars == <<handler, chain, field, phase, at, part, got, count, offset, mem, used, revoked>>

\* The first n members of a list added up, for every n.
Sums(s) ==
  LET sums[n \in 0..Len(s)] == IF n = 0 THEN 0 ELSE sums[n - 1] + s[n]
  IN  sums

Length(d) == Sums(chain[d].parts)[Len(chain[d].parts)]
All == 1..Len(chain)
Writable == {d \in All : chain[d].write}
Readable == All \ Writable
Empty == {d \in All : Length(d) = 0}
Cells == UNION {{d} \X (1..Length(d)) : d \in All}

\* How many bytes the descriptors of S have, up to each place in the chain.
Total(S) == Sums([d \in All |-> IF d \in S THEN Length(d) ELSE 0])
Capacity(S) == Total(S)[Len(chain)]

Smaller(a, b) == IF a < b THEN a ELSE b

\* ok: the chain passes the checks before the loop; visit: the descriptors the
\* loop leases; refuse: those it fails at; breaks: it ends with the last byte.
Plan(ok, visit, refuse, breaks) ==
  [ok |-> ok, visit |-> visit, refuse |-> refuse, breaks |-> breaks]

-----------------------------------------------------------------------------
(* Reading: the plans, and what is accepted once all is read.              *)

read_chain == Plan(Writable = {}, All, {}, FALSE)

read_tx_frame == Plan(Writable = {}, All, {}, FALSE)
FrameFits == Len(got) > HEADER_SIZE /\ Len(got) - HEADER_SIZE <= MAXIMUM

\* field is header.length; VsockRun has the type of the packet.
read_packet == Plan(Writable = {}, All, {}, FALSE)
PacketFits ==
  /\ Len(got) >= HEADER_SIZE
  /\ Len(got) = HEADER_SIZE + field
  /\ field <= MAXIMUM

\* Faulty variant: the reply buffers are read as well.
ParseEverything == Plan(TRUE, All, Empty, FALSE)

\* A writable descriptor is put aside for the reply, unless it is empty.
parse_chain == Plan(TRUE, Readable, Empty, FALSE)
ChainFits == Len(got) >= HEADER_SIZE /\ Writable # {}

\* field is the request type: 0 is unknown.
parse_request ==
  Plan(/\ Len(chain) = 2
       /\ ~chain[1].write /\ Length(1) = HEADER_SIZE
       /\ chain[2].write /\ Length(2) = RESPONSE_SIZE,
       {1}, {}, FALSE)

ReadPlan ==
  CASE handler = "consoleTx" -> read_chain
    [] handler = "networkTx" -> read_tx_frame
    [] handler = "vsockTx"   -> read_packet
    [] handler = "fs"        -> parse_chain
    [] handler = "memory"    -> parse_request

Accepted ==
  CASE handler = "consoleTx" -> TRUE
    [] handler = "networkTx" -> FrameFits
    [] handler = "vsockTx"   -> PacketFits
    [] handler = "fs"        -> ChainFits
    [] handler = "memory"    -> field # 0

\* Faulty variant: the header is taken off the length, not added.
TransmitPayload == IF handler = "vsockTx" THEN field - HEADER_SIZE ELSE 0

\* What process_tx and its like complete the chain with.  vsock reports the
\* length of the packet, or the largest there is, although it wrote nothing.
TransmitLength == IF handler = "vsockTx" THEN Smaller(HEADER_SIZE + field, MaxU32) ELSE 0

-----------------------------------------------------------------------------
(* Writing count bytes.                                                    *)

\* Faulty variant: the capacity of the whole chain is not compared.
WriteChainUnchecked == Plan(Readable = {}, All, {}, TRUE)

write_chain == Plan(Readable = {} /\ count <= Capacity(All), All, {}, TRUE)

\* The header and a frame that is not empty.
write_rx_frame ==
  Plan(/\ count > HEADER_SIZE /\ count - HEADER_SIZE <= MAXIMUM
       /\ Readable = {}
       /\ count <= Capacity(All),
       All, {}, TRUE)

\* packet_bytes and write_packet; field is header.length.
write_packet ==
  Plan(/\ count = HEADER_SIZE + field /\ field <= MAXIMUM
       /\ Readable = {}
       /\ count <= Capacity(All),
       All, {}, TRUE)

write_reply == Plan(count <= Capacity(Writable), Writable, {}, TRUE)

write_response == Plan(TRUE, {2}, {}, FALSE)

\* The direction is looked at in the loop: earlier descriptors are filled.
fill_chain == Plan(TRUE, Writable, Empty \cup Readable, FALSE)

WritePlan ==
  CASE handler = "consoleRx" -> write_chain
    [] handler = "networkRx" -> write_rx_frame
    [] handler = "vsockRx"   -> write_packet
    [] handler = "fs"        -> write_reply
    [] handler = "memory"    -> write_response
    [] handler = "rng"       -> fill_chain

\* How many bytes there are for the guest: arc4random_buf fills whatever the
\* chain has, the backends and the file system have what they have.
Counts ==
  CASE handler = "memory" -> {RESPONSE_SIZE}
    [] handler = "rng"    -> {Capacity(Writable)}
    [] OTHER              -> Amounts

-----------------------------------------------------------------------------
Readers == {"consoleTx", "networkTx", "vsockTx", "fs", "memory"}
Writers == {"consoleRx", "networkRx", "vsockRx", "rng"}

Init ==
  /\ handler \in Readers \cup Writers
  /\ chain \in UNION {[1..n -> Descriptors] : n \in 1..MaxChain}
  /\ field \in (IF handler \in {"vsockTx", "vsockRx", "memory"} THEN Amounts ELSE {0})
  /\ phase = "start"
  /\ at = 1 /\ part = 0
  /\ got = <<>>
  /\ count = 0 /\ offset = 0
  /\ mem = [c \in Cells |-> 0]
  /\ used = 0
  /\ revoked = FALSE

input == <<handler, chain, field>>
Become(p) == phase' = p /\ at' = 1 /\ part' = 0
Done(n) == Become("done") /\ used' = n

Revoke ==
  /\ ~revoked /\ phase \notin {"done", "err"}
  /\ revoked' = TRUE
  /\ UNCHANGED <<input, phase, at, part, got, count, offset, mem, used>>

StartRead ==
  /\ phase = "start" /\ handler \in Readers
  /\ Become(IF ReadPlan.ok THEN "read" ELSE "err")
  /\ UNCHANGED <<input, got, count, offset, mem, used, revoked>>

StartWrite ==
  /\ phase = "reply" \/ (phase = "start" /\ handler \in Writers)
  /\ count' \in Counts
  /\ UNCHANGED <<input, got, offset, mem, revoked>>
  /\ IF handler = "fs" /\ count' = 0
     THEN Done(0)
     ELSE Become(IF WritePlan'.ok THEN "write" ELSE "err") /\ UNCHANGED used

\* The next descriptor: the loop fails at it, has no use for it, or leases it.
Refused(plan) ==
  \/ at \in plan.refuse
  \/ at \in plan.visit /\ (revoked \/ (~chain[at].mapped /\ Length(at) > 0))

Lease(plan) ==
  /\ at \in All /\ part = 0
  /\ \/ Refused(plan) /\ Become("err")
     \/ /\ ~Refused(plan) /\ at \notin plan.visit
        /\ at' = at + 1 /\ UNCHANGED <<phase, part>>
     \/ /\ ~Refused(plan) /\ at \in plan.visit
        /\ part' = 1 /\ UNCHANGED <<phase, at>>
  /\ UNCHANGED <<input, got, count, offset, mem, used, revoked>>

\* A part of the lease, past the bytes of the parts before it.
Parts == chain[at].parts
Before == Sums(Parts)[part - 1]
AtPart == part > 0 /\ part <= Len(Parts)

\* Past the last part the lease is dropped.
Drop ==
  /\ part > 0 /\ part > Len(Parts)
  /\ at' = at + 1 /\ part' = 0
  /\ UNCHANGED <<input, phase, got, count, offset, mem, used, revoked>>

ReadLease == phase = "read" /\ Lease(ReadPlan)

ReadPart ==
  /\ phase = "read" /\ AtPart
  /\ got' = got \o [k \in 1..Parts[part] |-> <<at, Before + k>>]
  /\ part' = part + 1
  /\ UNCHANGED <<input, phase, at, count, offset, mem, used, revoked>>

ReadDrop == phase = "read" /\ Drop

ReadDone ==
  /\ phase = "read" /\ at \notin All
  /\ CASE ~Accepted -> Become("err") /\ UNCHANGED used
       [] Accepted /\ handler \in {"fs", "memory"} -> Become("reply") /\ UNCHANGED used
       [] OTHER -> Done(TransmitLength)
  /\ UNCHANGED <<input, got, count, offset, mem, revoked>>

Full(plan) == plan.breaks /\ offset = count

WriteLease == phase = "write" /\ ~Full(WritePlan) /\ Lease(WritePlan)

\* Faulty variant: every part starts at the first byte again.
CopyFromStart(d, start, n) ==
  [c \in Cells |-> IF c[1] = d /\ c[2] \in start + 1 .. start + n THEN c[2] - start ELSE mem[c]]

\* copy_from_slice of n bytes to descriptor d, past its first start bytes.
Copy(d, start, n) ==
  [c \in Cells |-> IF c[1] = d /\ c[2] \in start + 1 .. start + n
                   THEN offset + c[2] - start ELSE mem[c]]

WritePart ==
  /\ phase = "write" /\ ~Full(WritePlan) /\ AtPart
  /\ LET n == Smaller(Parts[part], count - offset) IN
     /\ mem' = Copy(at, Before, n)
     /\ offset' = offset + n
  /\ part' = part + 1
  /\ UNCHANGED <<input, phase, at, got, count, used, revoked>>

WriteDrop == phase = "write" /\ ~Full(WritePlan) /\ Drop

\* The last byte is written, or the descriptors are at their end, which fs
\* takes for an error, as all do a length that is no u32.
WriteDone ==
  /\ phase = "write" /\ (Full(WritePlan) \/ at \notin All)
  /\ LET n == IF handler = "rng" THEN offset ELSE count IN
     IF n > MaxU32 \/ (handler = "fs" /\ offset < count)
     THEN Become("err") /\ UNCHANGED used
     ELSE Done(n)
  /\ UNCHANGED <<input, got, count, offset, mem, revoked>>

ChainNext ==
  \/ Revoke
  \/ StartRead \/ ReadLease \/ ReadPart \/ ReadDrop \/ ReadDone
  \/ StartWrite \/ WriteLease \/ WritePart \/ WriteDrop \/ WriteDone
=============================================================================
