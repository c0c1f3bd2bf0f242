------------------------------ MODULE RequestIo -----------------------------
(***************************************************************************)
(* One chain served by one of the devices, from the checks on the chain to *)
(* the used length: ChainIo and BlockRequest together.                     *)
(***************************************************************************)
EXTENDS BlockRequest

requestVars == <<vars, blockVars>>

RequestInit == (Init /\ NoBlock) \/ BlockInit

RequestNext ==
  \/ ChainNext /\ UNCHANGED blockVars
  \/ ParseBlock \/ LeaseBlock \/ ExecuteBlock

RequestSpec == RequestInit /\ [][RequestNext]_requestVars

-----------------------------------------------------------------------------
(* Properties.                                                             *)

TypeOK ==
  /\ handler \in Readers \cup Writers \cup {"block"}
  /\ phase \in {"start", "read", "reply", "write", "lease", "io", "done", "err"}
  /\ at \in 1..Len(chain) + 1 /\ part \in Nat
  /\ got \in Seq(Cells)
  /\ count \in Nat /\ offset \in Nat /\ used \in U32
  /\ mem \in [Cells -> Nat]
  /\ status \in {"none", "OK", "IOERR", "UNSUPP"}

\* The place of a cell among those of its direction, in chain order.
Rank(c) == c[2] + Total(IF chain[c[1]].write THEN Writable ELSE Readable)[c[1] - 1]

Base == IF handler = "block" THEN Start ELSE 0

\* At every moment, also when the memory is revoked half way, what a device
\* has written is the front of its bytes, in the order of the writable
\* descriptors whatever their lengths and parts, and no other cell is touched.
WrittenIsPrefix ==
  \A c \in Cells :
    mem[c] = IF chain[c[1]].write /\ Rank(c) <= offset THEN Base + Rank(c) ELSE 0

\* The used length is what the device wrote, all of what it had: the driver
\* reads no byte that is not there.  vsock's transmit queue is left out, and
\* the block device adds its status byte and may have written more than it
\* reports when it reports an error.
UsedIsWritten ==
  phase = "done" /\ handler # "vsockTx" =>
    IF handler = "block"
    THEN used <= offset + 1 /\ (status = "OK" => used = offset + 1)
    ELSE used = offset

\* A backend is given the whole of the readable cells in order, wherever the
\* descriptors and the parts end.
ReadIsWhole ==
  phase \in {"reply", "done"} /\ handler \in Readers =>
    /\ Len(got) = Capacity(Readable)
    /\ \A i \in 1..Len(got) : ~chain[got[i][1]].write /\ Rank(got[i]) = i

\* VIRTIO_BLK_S_OK means that the whole payload was moved, to or from a place
\* inside the image; and an image opened read-only, and what lies behind its
\* end, is never written.
StatusIsTruthful ==
  /\ status = "OK" /\ type \in {"in", "out"} =>
       /\ Start + PayloadLength <= CAPACITY
       /\ (IF type = "in" THEN offset ELSE Len(got)) = PayloadLength
  /\ handler = "block" /\ got # <<>> => ~read_only /\ Start + Len(got) <= CAPACITY
=============================================================================
