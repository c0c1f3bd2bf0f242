------------------------------- MODULE VsockRun -----------------------------
(***************************************************************************)
(* VsockDevice (src/src/vsock.rs): packets from the guest, packets for the *)
(* guest, and the event queue, whose chains it gives back unused.          *)
(***************************************************************************)
EXTENDS PacketRun

QUEUE_RX == 0
QUEUE_TX == 1
QUEUE_EVENT == 2

IsVsock == device = "vsock"
Quiet == UNCHANGED <<config, kickVars, stopVars, wake, pairs>>

\* validate_packet_type: the types the driver and the device agreed on.
Negotiated == {"stream"} \cup (IF seqpacket THEN {"seqpacket"} ELSE {})
validate_packet_type(from, to) ==
  \E type \in {"stream", "seqpacket"} :
    IF type \in Negotiated THEN Goto(from, to) ELSE MayFault /\ Fail(from, TRUE)

\* process_tx: the pop.
PopPacketTx ==
  /\ IsVsock /\ Quiet
  /\ Pop(QUEUE_TX, "tx", "rx", "read")
  /\ UNCHANGED <<frames, queue>>

\* read_packet and the type of the packet.
ReadPacket ==
  /\ IsVsock /\ Quiet
  /\ \/ Break("read")
     \/ ~revoked /\ validate_packet_type("read", "transmit")
  /\ UNCHANGED <<avail, frames, queue>>

\* backend.receive_packet(), awaited.
ReceivePacket ==
  /\ IsVsock /\ Quiet
  /\ \/ (closed \/ MayFault) /\ Fail("transmit", ~closed)
     \/ Goto("transmit", "complete")
  /\ UNCHANGED <<avail, frames, queue>>

\* Faulty variant: the backend is not asked first.
HasPacketUnasked ==
  /\ IsVsock /\ Quiet
  /\ Goto("rx", "popRx")
  /\ queue' = QUEUE_RX
  /\ UNCHANGED <<avail, frames>>

\* process_rx: until the backend has no packet or the queue no chain.
HasPacket ==
  /\ IsVsock /\ Quiet
  /\ IF frames = 0
     THEN Goto("rx", "event") /\ queue' = QUEUE_EVENT
     ELSE Goto("rx", "popRx") /\ queue' = QUEUE_RX
  /\ UNCHANGED <<avail, frames>>

PopPacketRx ==
  /\ IsVsock /\ Quiet
  /\ Pop(QUEUE_RX, "popRx", "event", "take")
  /\ queue' = IF pc' = "event" THEN QUEUE_EVENT ELSE queue
  /\ UNCHANGED frames

\* The packet is taken from the backend before its type is looked at.
TakePacket ==
  /\ IsVsock /\ Quiet
  /\ IF frames = 0
     THEN Fail("take", FALSE) /\ UNCHANGED frames
     ELSE validate_packet_type("take", "write") /\ frames' = frames - 1
  /\ UNCHANGED <<avail, queue>>

\* packet_bytes and write_packet.
WritePacket ==
  /\ IsVsock /\ Quiet
  /\ Try("write", "complete")
  /\ UNCHANGED <<avail, frames, queue>>

CompletePacket ==
  /\ IsVsock /\ Quiet
  /\ IF revoked THEN Fail("complete", FALSE) ELSE Goto("complete", "interrupt")
  /\ UNCHANGED <<avail, frames, queue>>

notify_queue ==
  /\ IsVsock /\ Quiet
  /\ \/ Goto("interrupt", IF queue = QUEUE_TX THEN "tx" ELSE "rx")
     \/ MayFault /\ Fail("interrupt", TRUE)
  /\ UNCHANGED <<avail, frames, queue>>

\* process_event: pop and complete with length 0, with no interrupt.
PopEvent ==
  /\ IsVsock /\ Quiet
  /\ Pop(QUEUE_EVENT, "event", "subscribe", "completeEvent")
  /\ UNCHANGED <<frames, queue>>

CompleteEvent ==
  /\ IsVsock /\ Quiet
  /\ IF revoked THEN Fail("completeEvent", FALSE) ELSE Goto("completeEvent", "event")
  /\ UNCHANGED <<avail, frames, queue>>

process_tx_packets == PopPacketTx \/ ReadPacket \/ ReceivePacket
process_rx_packets == HasPacket \/ PopPacketRx \/ TakePacket \/ WritePacket
process_event == PopEvent \/ CompleteEvent
VsockStep ==
  process_tx_packets \/ process_rx_packets \/ process_event \/ CompletePacket \/ notify_queue

\* kick(), stop() and run() of this device are those of PacketRun.
KickVsock == IsVsock /\ (KickStore \/ KickNotify)
StopVsock == IsVsock /\ (StopDown \/ StopClose \/ StopRevoke \/ StopNotify)
RunVsock == IsVsock /\ (Loop \/ VsockStep)
=============================================================================
