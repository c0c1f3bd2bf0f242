--------------------------- MODULE MC_PacketDevices -------------------------
(* PacketDevices with two chains on queue 1, the first transmit queue of   *)
(* either device, so that one may be left behind another, and one on each  *)
(* other queue.                                                            *)
EXTENDS PacketDevices

MCDepth == [q \in 0..2 * Pairs |-> IF q = tx_queue(0) THEN 2 ELSE 1]
=============================================================================
