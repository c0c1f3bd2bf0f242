---------------------------- MODULE BlockRequest ----------------------------
(***************************************************************************)
(* One request of the block device (src/src/block.rs): parse_request,      *)
(* execute, which leases every range before the worker starts, and         *)
(* execute_blocking, which moves the payload with preadv or pwritev.  The  *)
(* first descriptor is the header, the last the status byte.  Byte i of    *)
(* the image is numbered i + 1.                                            *)
(***************************************************************************)
EXTENDS ChainIo

CONSTANTS
  BlockChains,  \* the chains a driver may send
  SECTOR_SIZE,
  CAPACITY,     \* of the image, in bytes
  Sectors,      \* the sectors a driver may ask for
  MaxU64        \* the largest u64

ASSUME BlockAssumption ==
  /\ BlockChains \subseteq Seq([parts : Seq(Nat), write : BOOLEAN, mapped : BOOLEAN])
  /\ Sectors \subseteq Nat
  /\ SECTOR_SIZE \in Nat /\ CAPACITY \in Nat

VARIABLES
  type, sector,         \* of the header
  read_only, flush_supported,
  status                \* the status byte

blockInput == <<type, sector, read_only, flush_supported>>
blockVars == <<blockInput, status>>

StatusAt == Len(chain)
Payload == 2..StatusAt - 1
PayloadLength == Capacity(Payload)

NoBlock ==
  /\ type = "other" /\ sector = 0 /\ read_only = FALSE /\ flush_supported = FALSE
  /\ status = "none"

BlockInit ==
  /\ handler = "block"
  /\ chain \in BlockChains
  /\ field = 0 /\ phase = "start" /\ at = 1 /\ part = 0
  /\ got = <<>> /\ count = 0 /\ offset = 0
  /\ mem = [c \in Cells |-> 0]
  /\ used = 0 /\ revoked = FALSE
  /\ type \in {"in", "out", "flush", "other"}
  /\ sector \in Sectors
  /\ read_only \in BOOLEAN /\ flush_supported \in BOOLEAN
  /\ type \notin {"in", "out"} => sector = 0 /\ ~read_only
  /\ type # "flush" => ~flush_supported
  /\ status = "none"

\* parse_request.  The header is leased; the other ranges are only checked.
WellFormed ==
  /\ StatusAt >= 2
  /\ ~chain[1].write /\ Length(1) = HEADER_SIZE
  /\ chain[StatusAt].write /\ Length(StatusAt) = 1
  /\ \A d \in Payload :
       /\ type = "in" => chain[d].write
       /\ type = "out" => ~chain[d].write
       /\ type # "flush"
       /\ Length(d) > 0
  /\ type \in {"in", "out"} => StatusAt > 2
  /\ \A d \in All : chain[d].mapped

ParseBlock ==
  /\ handler = "block" /\ phase = "start"
  /\ Become(IF WellFormed /\ ~revoked THEN "lease" ELSE "err")
  /\ UNCHANGED <<input, got, count, offset, mem, used, revoked, blockVars>>

\* execute: the lease of each payload range, then of the status byte.
LeaseBlock ==
  /\ handler = "block" /\ phase = "lease"
  /\ IF revoked THEN Become("err")
     ELSE IF at < StatusAt - 1 THEN at' = at + 1 /\ UNCHANGED <<phase, part>>
     ELSE Become("io")
  /\ UNCHANGED <<input, got, count, offset, mem, used, revoked, blockVars>>

Start == sector * SECTOR_SIZE

\* Faulty variant: the end of the request is not compared with the capacity.
InsideStart == Start <= CAPACITY /\ PayloadLength <= CAPACITY

Inside == Start <= CAPACITY /\ PayloadLength <= CAPACITY - Start

\* preadv or pwritev moves n bytes, in the order of the I/O vectors.
Position(c) == c[2] + Total(Payload)[c[1] - 1]
Moved(n) == {c \in Cells : c[1] \in Payload /\ Position(c) <= n}

Move(n) ==
  IF type = "in"
  THEN /\ mem' = [c \in Cells |-> IF c \in Moved(n) THEN Start + Position(c) ELSE mem[c]]
       /\ offset' = n
       /\ UNCHANGED got
  ELSE /\ got' = [i \in 1..n |-> CHOOSE c \in Moved(n) : Position(c) = i]
       /\ UNCHANGED <<mem, offset>>

\* The answer s: a read that went well reports its payload, if a u32 can.
Answer(s) ==
  LET n == IF s = "OK" /\ type = "in" THEN 1 + PayloadLength ELSE 1 IN
  IF n > MaxU32
  THEN Become("err") /\ UNCHANGED <<status, used>>
  ELSE Done(n) /\ status' = s

\* execute_blocking and write_status, in the worker that owns the leases.
ExecuteBlock ==
  /\ handler = "block" /\ phase = "io"
  /\ \/ /\ type = "flush" /\ flush_supported
        /\ \E s \in {"OK", "IOERR"} : Answer(s)
        /\ UNCHANGED <<got, mem, offset>>
     \/ /\ type = "other" \/ (type = "flush" /\ ~flush_supported)
        /\ Answer("UNSUPP")
        /\ UNCHANGED <<got, mem, offset>>
     \/ /\ type \in {"in", "out"} /\ Start > MaxU64
        /\ Become("err")
        /\ UNCHANGED <<got, mem, offset, used, status>>
     \/ /\ type \in {"in", "out"} /\ Start <= MaxU64
        /\ ~Inside \/ (type = "out" /\ read_only)
        /\ Answer("IOERR")
        /\ UNCHANGED <<got, mem, offset>>
     \/ /\ type \in {"in", "out"} /\ Start <= MaxU64
        /\ Inside /\ ~(type = "out" /\ read_only)
        /\ \E n \in 0..PayloadLength :
             Move(n) /\ Answer(IF n = PayloadLength THEN "OK" ELSE "IOERR")
  /\ UNCHANGED <<input, count, revoked, blockInput>>
=============================================================================
