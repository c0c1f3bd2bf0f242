------------------------------ MODULE NetworkRun ----------------------------
(***************************************************************************)
(* NetworkDevice (src/src/network.rs): the control queue, which sets the   *)
(* number of active queue pairs, the transmit queues of the active pairs,  *)
(* and the receive queues, one frame to each active pair in turn.          *)
(***************************************************************************)
EXTENDS PacketRun

rx_queue(pair) == pair * 2
tx_queue(pair) == pair * 2 + 1
control_queue == Pairs * 2

IsNetwork == device = "network"
Still == UNCHANGED <<config, kickVars, stopVars, wake>>

\* process_control: the pop of the control queue.
PopControl ==
  /\ IsNetwork /\ Still
  /\ Pop(control_queue, "control", "tx", "handle")
  /\ queue' = IF pc' = "tx" THEN tx_queue(0) ELSE queue
  /\ UNCHANGED <<frames, pairs>>

\* Faulty variant: zero queue pairs are accepted.
HandleControlZero ==
  /\ IsNetwork /\ Still
  /\ \/ Try("handle", "status") /\ UNCHANGED active
     \/ /\ ~revoked
        /\ Goto("handle", "status")
        /\ \E n \in 0..Pairs : active' = n
  /\ UNCHANGED <<avail, frames, turn, queue>>

\* handle_control: a malformed chain is an error; another command, and zero or
\* too many pairs, is answered with VIRTIO_NET_ERR and changes nothing.
handle_control ==
  /\ IsNetwork /\ Still
  /\ \/ Try("handle", "status") /\ UNCHANGED active
     \/ /\ ~revoked
        /\ Goto("handle", "status")
        /\ \E n \in 1..Pairs : active' = n
  /\ UNCHANGED <<avail, frames, turn, queue>>

write_control_status ==
  /\ IsNetwork /\ Still
  /\ Try("status", "complete")
  /\ UNCHANGED <<avail, frames, pairs, queue>>

\* process_tx: the pop; an empty queue ends the inner loop, and the range of
\* pairs, which nothing changes meanwhile, the outer one.
PopTx ==
  /\ IsNetwork /\ Still
  /\ LET last == queue = tx_queue(active - 1) IN
     /\ Pop(queue, "tx", IF last THEN "rx" ELSE "tx", "read")
     /\ queue' = IF pc' = "tx" THEN queue + 2 ELSE queue
  /\ UNCHANGED <<frames, pairs>>

read_tx_frame ==
  /\ IsNetwork /\ Still
  /\ Try("read", "transmit")
  /\ UNCHANGED <<avail, frames, pairs, queue>>

\* backend.transmit(), awaited, which may refuse, above all when shut.
Transmit ==
  /\ IsNetwork /\ Still
  /\ \/ (closed \/ MayFault) /\ Fail("transmit", ~closed)
     \/ Goto("transmit", "complete")
  /\ UNCHANGED <<avail, frames, pairs, queue>>

\* Faulty variant: the turn goes over every pair, active or not.
HasFrameAnyPair ==
  /\ IsNetwork /\ Still
  /\ IF frames = 0
     THEN Goto("rx", "subscribe") /\ UNCHANGED <<queue, turn>>
     ELSE /\ Goto("rx", "popRx")
          /\ queue' = rx_queue(turn % Pairs)
          /\ turn' = (turn + 1) % Wrap
  /\ UNCHANGED <<avail, frames, active>>

\* process_rx: while the backend has a frame, the next active pair in turn.
HasFrame ==
  /\ IsNetwork /\ Still
  /\ IF frames = 0
     THEN Goto("rx", "subscribe") /\ UNCHANGED <<queue, turn>>
     ELSE /\ Goto("rx", "popRx")
          /\ queue' = rx_queue(turn % active)
          /\ turn' = (turn + 1) % Wrap
  /\ UNCHANGED <<avail, frames, active>>

\* No chain on that pair: process_rx returns, whatever the other pairs have.
PopRx ==
  /\ IsNetwork /\ Still
  /\ Pop(queue, "popRx", "subscribe", "take")
  /\ UNCHANGED <<frames, pairs, queue>>

TakeFrame ==
  /\ IsNetwork /\ Still
  /\ IF frames = 0
     THEN Fail("take", FALSE) /\ UNCHANGED frames
     ELSE Goto("take", "write") /\ frames' = frames - 1
  /\ UNCHANGED <<avail, pairs, queue>>

write_rx_frame ==
  /\ IsNetwork /\ Still
  /\ Try("write", "complete")
  /\ UNCHANGED <<avail, frames, pairs, queue>>

\* complete: the used ring.
CompleteChain ==
  /\ IsNetwork /\ Still
  /\ IF revoked THEN Fail("complete", FALSE) ELSE Goto("complete", "interrupt")
  /\ UNCHANGED <<avail, frames, pairs, queue>>

\* Faulty variant: one frame is transmitted for a kick.
NotifyChainOnce ==
  /\ IsNetwork /\ Still
  /\ \/ Goto("interrupt", IF queue # control_queue /\ queue % 2 = 1
                           THEN "subscribe"
                           ELSE IF queue = control_queue THEN "control" ELSE "rx")
     \/ MayFault /\ Fail("interrupt", TRUE)
  /\ UNCHANGED <<avail, frames, pairs, queue>>

\* complete: the interrupt; then the loop the chain came from goes round.
NotifyChain ==
  /\ IsNetwork /\ Still
  /\ \/ Goto("interrupt", CASE queue = control_queue -> "control"
                            [] queue # control_queue /\ queue % 2 = 1 -> "tx"
                            [] OTHER -> "rx")
     \/ MayFault /\ Fail("interrupt", TRUE)
  /\ UNCHANGED <<avail, frames, pairs, queue>>

process_control == PopControl \/ handle_control \/ write_control_status
process_tx == PopTx \/ read_tx_frame \/ Transmit
process_rx == HasFrame \/ PopRx \/ TakeFrame \/ write_rx_frame
NetworkStep == process_control \/ process_tx \/ process_rx \/ CompleteChain \/ NotifyChain

KickNetwork == IsNetwork /\ (KickStore \/ KickNotify)
StopNetwork == IsNetwork /\ (StopDown \/ StopClose \/ StopRevoke \/ StopNotify)
RunNetwork == IsNetwork /\ (Loop \/ NetworkStep)
=============================================================================
