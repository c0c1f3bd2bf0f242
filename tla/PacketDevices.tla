---------------------------- MODULE PacketDevices ---------------------------
(***************************************************************************)
(* A network or a vsock device with its driver, its backend and the        *)
(* transport that kicks and stops it.                                      *)
(***************************************************************************)
EXTENDS NetworkRun, VsockRun

Returned == pc = "returned"

Run == RunNetwork \/ RunVsock

Next ==
  \/ \E q \in Queues : Post(q)
  \/ Arrive
  \/ KickNetwork \/ KickVsock
  \/ StopNetwork \/ StopVsock
  \/ Run

Spec == Init /\ [][Next]_vars

(***************************************************************************)
(* Fairness.  The task of run() is polled when it can run, and the backend *)
(* finishes what it is asked; who published a chain, or brought a frame,   *)
(* kicks; a stop() that began ends.  Nothing makes anyone publish or stop. *)
(***************************************************************************)
Fairness ==
  /\ WF_vars(Run)
  /\ WF_vars(KickStore \/ KickNotify)
  /\ WF_vars(StopClose \/ StopRevoke \/ StopNotify)

FairSpec == Spec /\ Fairness

-----------------------------------------------------------------------------
(* Properties.                                                             *)

Over == down \/ Returned

\* Queues whose chains the device takes by itself: those of the active pairs.
TxQueues == IF IsNetwork THEN {tx_queue(p) : p \in 0..active - 1} ELSE {QUEUE_TX}
RxQueues == IF IsNetwork THEN {rx_queue(p) : p \in 0..active - 1} ELSE {QUEUE_RX}
OtherQueues == IF IsNetwork THEN {control_queue} ELSE {QUEUE_EVENT}
Served == TxQueues \cup OtherQueues

\* run() does not sleep on a kick: with kicked set it waits only while the
\* notification of that kick() is still to come.
NoSleepOnKick == waiter = "waiting" /\ kicked => kicking = "stored"

\* run() fails only after stop() has begun or because something outside the
\* device was at fault: what it asked the backend for is still there, and the
\* queue it turns to exists, when it takes it.
FailureHasCause == result = "err" => down \/ fault

\* Nothing published on the control, event or an active transmit queue waits
\* for ever, although a chain and its kick may come at any moment of run() and
\* a kick may find kicked set: when no more comes, it is all served.
PublishedIsServed ==
  <>[][~Arrive /\ \A q \in Queues : ~Post(q)]_vars =>
    <>[](Over \/ \A q \in Served : avail[q] = 0)

\* run() has just put a frame into the used ring.
Delivered == pc = "interrupt" /\ queue \in RxQueues

\* Once the queues served before it stay empty, frames do not wait for ever
\* while every active pair has a receive chain, the turn may fall on any:
\* again and again one is delivered, or none is left.
FrameIsDelivered ==
  <>[](\A q \in Served : avail[q] = 0) =>
    []<>(Over \/ frames = 0 \/ (\E q \in RxQueues : avail[q] = 0) \/ Delivered)

\* After stop() has begun run() returns, wherever the loop was (down is never
\* cleared and run() does not start again).
StopEndsRun == []<>(down => Returned)
=============================================================================
