---------------------------- MODULE PacketProofs ----------------------------
(***************************************************************************)
(* Proofs about the run() loop of the packet devices, for any number of    *)
(* queue pairs and any bounds.                                             *)
(*                                                                         *)
(* Two arguments.  A kick that has notified is not slept on: until run()   *)
(* swaps kicked away it finds a permit, a future that was picked, or run() *)
(* past its wait.  And the queue run() is at exists: the pair it serves is *)
(* below the number of active pairs, which stays in 1..Pairs.              *)
(***************************************************************************)
EXTENDS PacketDevices, TLAPS

\* Where run() has been notified and has not yet swapped kicked, or is over.
Notified == {"recheck", "swap", "drain", "returned"}

\* The future exists only around the wait, and is enlisted only in it.
Future ==
  /\ waiter # "none" => pc \in {"check", "await"}
  /\ waiter \in {"waiting", "one"} => pc = "await"
  /\ waiter = "waiting" => ~permit

\* A kick that has notified is on its way to run().
KickIsKnown == kicked /\ kicking = "no" => permit \/ waiter = "one" \/ pc \in Notified

WakeType ==
  /\ kicked \in BOOLEAN /\ kicking \in {"no", "stored"}
  /\ NotifyType

WakeInv == WakeType /\ Future /\ KickIsKnown

-----------------------------------------------------------------------------
\* No kick has been given.
LEMMA WakeInit == Init => WakeInv
BY Zenon DEF Init, NotifyInit, WakeInv, WakeType, NotifyType, Future, KickIsKnown

\* The invariant covers the sleeping run().
LEMMA WakeImplies == WakeInv => NoSleepOnKick
BY DEF WakeInv, WakeType, Future, KickIsKnown, NoSleepOnKick, Notified

\* Driver, backend and the statements of stop() before the notification.
LEMMA WakeOutside ==
  ASSUME WakeInv, UNCHANGED <<kicking, kicked, wake, pc>>
  PROVE  WakeInv'
BY DEF WakeInv, WakeType, NotifyType, Future, KickIsKnown, wake

\* kick().
LEMMA WakeKick == ASSUME WakeInv, KickStore \/ KickNotify PROVE WakeInv'
<1>1. CASE KickStore
  BY <1>1 DEF KickStore, WakeInv, WakeType, NotifyType, Future, KickIsKnown, wake, runVars
<1>2. CASE KickNotify
  BY Zenon, <1>2 DEF KickNotify, NotifyOne, WakeInv, WakeType, NotifyType, Future, KickIsKnown, runVars
<1> QED
  BY <1>1, <1>2

\* notify_waiters() of stop() wakes a sleeping run().
LEMMA WakeStop == ASSUME WakeInv, StopNotify PROVE WakeInv'
BY DEF StopNotify, NotifyAll, WakeInv, WakeType, NotifyType, Future, KickIsKnown, kickVars, runVars

\* The loop of run().
LEMMA WakeLoop == ASSUME WakeInv, Loop PROVE WakeInv'
<1> USE DEF WakeInv, WakeType, NotifyType, Future, KickIsKnown, Notified, Goto, kickVars, wake
<1>1. CASE Subscribe
  BY <1>1 DEF Subscribe, Create
<1>2. CASE Check
  BY <1>2 DEF Check, Discard
<1>3. CASE Await
  <2>1. CASE Goto("await", "await") /\ Enlist
    BY <1>3, <2>1 DEF Await, Enlist
  <2>2. CASE Goto("await", "recheck") /\ Complete
    <3>1. waiter' = "none" /\ pc' = "recheck" /\ permit' \in BOOLEAN
      BY Zenon, <2>2 DEF Complete
    <3> QED
      BY <1>3, <3>1 DEF Await
  <2> QED
    BY <1>3, <2>1, <2>2 DEF Await
<1>4. CASE Recheck
  BY <1>4 DEF Recheck
<1>5. CASE Swap
  BY Zenon, <1>5 DEF Swap
<1>6. CASE Drain
  BY <1>6 DEF Drain
<1> QED
  BY <1>1, <1>2, <1>3, <1>4, <1>5, <1>6 DEF Loop

\* Serving chains touches neither kicked nor wake, and starts behind the swap.
LEMMA WakeServe ==
  ASSUME WakeInv, UNCHANGED <<kickVars, wake>>,
         pc \notin {"check", "await"} \cup Notified,
         pc' \notin {"check", "await"}
  PROVE  WakeInv'
BY DEF WakeInv, WakeType, NotifyType, Future, KickIsKnown, Notified, kickVars, wake

\* Serving chains of a network device touches neither the kick nor the wakeup.
LEMMA NetworkServes ==
  ASSUME NetworkStep
  PROVE  /\ UNCHANGED <<kickVars, wake>>
         /\ pc \notin {"check", "await"} \cup Notified
         /\ pc' \notin {"check", "await"}
<1> USE DEF Still, Goto, Fail, Notified
<1>1. CASE process_control
  BY <1>1 DEF process_control, PopControl, handle_control, write_control_status, Pop, Try, Break
<1>2. CASE process_tx
  BY <1>2 DEF process_tx, PopTx, read_tx_frame, Transmit, Pop, Try, Break
<1>3. CASE process_rx
  BY <1>3 DEF process_rx, HasFrame, PopRx, TakeFrame, write_rx_frame, Pop, Try, Break
<1>4. CASE CompleteChain \/ NotifyChain
  BY <1>4 DEF CompleteChain, NotifyChain
<1> QED
  BY <1>1, <1>2, <1>3, <1>4 DEF NetworkStep

\* Serving chains of a vsock device touches neither the kick nor the wakeup.
LEMMA VsockServes ==
  ASSUME VsockStep
  PROVE  /\ UNCHANGED <<kickVars, wake>>
         /\ pc \notin {"check", "await"} \cup Notified
         /\ pc' \notin {"check", "await"}
<1> USE DEF Quiet, Goto, Fail, Notified
<1>1. CASE process_tx_packets
  BY <1>1 DEF process_tx_packets, PopPacketTx, ReadPacket, ReceivePacket, Pop, Break, validate_packet_type
<1>2. CASE process_rx_packets
  BY <1>2 DEF process_rx_packets, HasPacket, PopPacketRx, TakePacket, WritePacket, Pop, Try, Break,
              validate_packet_type
<1>3. CASE process_event
  BY <1>3 DEF process_event, PopEvent, CompleteEvent, Pop
<1>4. CASE CompletePacket \/ notify_queue
  BY <1>4 DEF CompletePacket, notify_queue
<1> QED
  BY <1>1, <1>2, <1>3, <1>4 DEF VsockStep

\* run() of a network or a vsock device never sleeps on a kick that has
\* notified, for any number of queue pairs and whatever the driver, the backend
\* and stop() do.
THEOREM KickIsNeverSleptOn == Spec => []NoSleepOnKick
<1>1. WakeInv /\ [Next]_vars => WakeInv'
  <2> SUFFICES ASSUME WakeInv, [Next]_vars PROVE WakeInv'
    OBVIOUS
  <2>1. CASE (\E q \in Queues : Post(q)) \/ Arrive
    BY <2>1, WakeOutside DEF Post, Arrive, runVars
  <2>2. CASE KickNetwork \/ KickVsock
    BY <2>2, WakeKick DEF KickNetwork, KickVsock
  <2>3. CASE StopNetwork \/ StopVsock
    BY <2>3, WakeStop, WakeOutside
    DEF StopNetwork, StopVsock, StopDown, StopClose, StopRevoke, kickVars, runVars
  <2>4. CASE RunNetwork
    BY <2>4, WakeLoop, WakeServe, NetworkServes DEF RunNetwork
  <2>5. CASE RunVsock
    BY <2>5, WakeLoop, WakeServe, VsockServes DEF RunVsock
  <2>6. CASE UNCHANGED vars
    BY <2>6, WakeOutside DEF vars, kickVars, runVars
  <2> QED
    BY <2>1, <2>2, <2>3, <2>4, <2>5, <2>6 DEF Next, Run
<1> QED
  BY <1>1, WakeInit, WakeImplies, PTL DEF Spec

-----------------------------------------------------------------------------
(* The queue run() is at.                                                  *)

AtControl == queue = control_queue
AtTx == \E p \in 0..active - 1 : queue = tx_queue(p)
AtRx == \E p \in 0..active - 1 : queue = rx_queue(p)

\* Where a network device is determines the kind of its queue, and the pair is
\* an active one: the number of active pairs changes only between the loops.
Place ==
  IsNetwork =>
    /\ pc \in {"control", "handle", "status"} => AtControl
    /\ pc \in {"tx", "read", "transmit"} => AtTx
    /\ pc \in {"popRx", "take", "write"} => AtRx
    /\ pc \in {"complete", "interrupt"} => AtControl \/ AtTx \/ AtRx

QueueInv == TypeOK /\ Place

\* Queues of active pairs, and the control queue, exist.
LEMMA PairsExist ==
  ASSUME TypeOK, IsNetwork
  PROVE  /\ control_queue \in Queues
         /\ \A p \in 0..active - 1 : tx_queue(p) \in Queues /\ rx_queue(p) \in Queues
BY PacketAssumption DEF TypeOK, IsNetwork, Queues, control_queue, tx_queue, rx_queue

\* activate() starts with one active pair.
LEMMA QueueInit == Init => QueueInv
<1> SUFFICES ASSUME Init PROVE QueueInv
  OBVIOUS
<1>1. avail \in [0..2 * Pairs -> Nat] /\ frames \in 0..MaxFrames
  BY PacketAssumption DEF Init
<1>2. {kicks, kicked, down, closed, revoked, fault} \subseteq BOOLEAN /\ seqpacket \in BOOLEAN
  BY Zenon DEF Init
<1>3. active \in 1..Pairs /\ turn \in 0..Wrap - 1 /\ queue \in Queues
  BY PacketAssumption DEF Init, Queues
<1> QED
  BY Zenon, <1>1, <1>2, <1>3 DEF Init, NotifyInit, QueueInv, TypeOK, NotifyType, Place

\* Steps that leave run() where it is.
LEMMA QueueOutside ==
  ASSUME QueueInv, UNCHANGED <<config, pairs, runVars>>, TypeOK'
  PROVE  QueueInv'
BY DEF QueueInv, Place, IsNetwork, AtControl, AtTx, AtRx, control_queue, tx_queue, rx_queue,
       config, pairs, runVars

\* The driver publishes a chain.
LEMMA QueuePost == ASSUME QueueInv, NEW q \in Queues, Post(q) PROVE QueueInv'
<1>1. q \in 0..2 * Pairs
  BY PacketAssumption DEF Queues
<1>2. avail \in [0..2 * Pairs -> Nat]
  BY Zenon DEF QueueInv, TypeOK
<1>3. avail' \in [0..2 * Pairs -> Nat]
  BY <1>1, <1>2 DEF Post
<1>4. TypeOK'
  BY <1>3 DEF Post, QueueInv, TypeOK, Queues, NotifyType, config, stopVars, wake, pairs, runVars
<1> QED
  BY <1>4, QueueOutside DEF Post

\* The backend gets a frame.
LEMMA QueueArrive == ASSUME QueueInv, Arrive PROVE QueueInv'
<1>1. frames' \in 0..MaxFrames
  BY PacketAssumption DEF Arrive, QueueInv, TypeOK
<1>2. TypeOK'
  BY <1>1 DEF Arrive, QueueInv, TypeOK, Queues, NotifyType, config, stopVars, wake, pairs, runVars
<1> QED
  BY <1>2, QueueOutside DEF Arrive

\* kick() leaves run() where it is.
LEMMA QueueKick == ASSUME QueueInv, KickStore \/ KickNotify PROVE QueueInv'
<1>1. TypeOK'
  <2> USE DEF QueueInv, TypeOK, Queues, NotifyType, config, stopVars, wake, pairs, runVars
  <2>1. CASE KickStore
    <3>1. ({kicks, kicked, down, closed, revoked, fault} \subseteq BOOLEAN)'
      BY <2>1, Zenon DEF KickStore
    <3> QED
      BY <2>1, <3>1 DEF KickStore
  <2>2. CASE KickNotify
    <3>1. NotifyType'
      BY Zenon, <2>2 DEF KickNotify, NotifyOne
    <3> QED
      BY <2>2, <3>1 DEF KickNotify
  <2> QED
    BY <2>1, <2>2
<1> QED
  BY <1>1, QueueOutside DEF KickStore, KickNotify

\* stop() leaves run() where it is.
LEMMA QueueStop ==
  ASSUME QueueInv, StopDown \/ StopClose \/ StopRevoke \/ StopNotify
  PROVE  QueueInv'
<1>1. TypeOK'
  <2> USE PacketAssumption
      DEF QueueInv, TypeOK, Queues, NotifyType, config, kickVars, wake, pairs, runVars
  <2>1. CASE StopDown
    BY <2>1 DEF StopDown
  <2>2. CASE StopClose
    BY <2>2 DEF StopClose
  <2>3. CASE StopRevoke
    BY <2>3 DEF StopRevoke
  <2>4. CASE StopNotify
    BY <2>4 DEF StopNotify, NotifyAll
  <2> QED
    BY Zenon, <2>1, <2>2, <2>3, <2>4
<1> QED
  BY <1>1, QueueOutside DEF StopDown, StopClose, StopRevoke, StopNotify

\* The loop of run().
LEMMA QueueLoop == ASSUME QueueInv, Loop PROVE QueueInv'
<1> USE PacketAssumption
    DEF QueueInv, TypeOK, Queues, NotifyType, Place, IsNetwork, Goto, config, kickVars, stopVars,
        wake, pairs
<1>1. CASE Subscribe
  BY <1>1 DEF Subscribe, Create
<1>2. CASE Check
  BY <1>2 DEF Check, Discard
<1>3. CASE Await
  <2>1. NotifyType'
    BY Zenon, <1>3 DEF Await, Enlist, Complete
  <2> QED
    BY <1>3, <2>1 DEF Await
<1>4. CASE Recheck
  BY <1>4 DEF Recheck
<1>5. CASE Swap
  <2>1. ({kicks, kicked, down, closed, revoked, fault} \subseteq BOOLEAN)'
    BY Zenon, <1>5 DEF Swap
  <2>2. queue' \in Queues'
    BY <1>5 DEF Swap
  <2> QED
    BY <1>5, <2>1, <2>2 DEF Swap, AtControl, control_queue
<1>6. CASE Drain
  BY <1>6 DEF Drain
<1> QED
  BY Zenon, <1>1, <1>2, <1>3, <1>4, <1>5, <1>6 DEF Loop

\* Where a step of run() may go, with what it may return.
Moves(from, tos) ==
  /\ pc = from /\ pc' \in tos
  /\ result' \in {"none", "ok", "err"}
  /\ fault' \in BOOLEAN

\* A step that goes on.
LEMMA GotoMoves ==
  ASSUME TypeOK, NEW from, NEW to, Goto(from, to)
  PROVE  Moves(from, {to})
BY DEF TypeOK, Goto, Moves

\* A step that ends run() with an error.
LEMMA FailMoves ==
  ASSUME TypeOK, NEW from, NEW f \in BOOLEAN, Fail(from, f)
  PROVE  Moves(from, {"returned"})
BY DEF TypeOK, Fail, Moves

\* A step that goes on or ends run().
LEMMA TryMoves ==
  ASSUME TypeOK, NEW from, NEW to, Try(from, to)
  PROVE  Moves(from, {to, "returned"})
BY Zenon, GotoMoves, FailMoves DEF Try, Break, Moves

\* A pop takes one chain, none, or fails.
LEMMA PopMoves ==
  ASSUME TypeOK, NEW q \in Queues, NEW from, NEW none, NEW some, Pop(q, from, none, some)
  PROVE  /\ Moves(from, {none, some, "returned"})
         /\ avail' \in [0..2 * Pairs -> Nat]
<1>1. Moves(from, {none, some, "returned"})
  BY Zenon, GotoMoves, FailMoves DEF Pop, Moves
<1>2. q \in 0..2 * Pairs
  BY PacketAssumption DEF Queues
<1>3. CASE UNCHANGED avail
  BY <1>1, <1>3 DEF TypeOK
<1>4. CASE avail[q] > 0 /\ avail' = [avail EXCEPT ![q] = @ - 1]
  <2>1. avail[q] \in Nat
    BY <1>2 DEF TypeOK
  <2>2. avail[q] - 1 \in Nat
    BY <1>4, <2>1, PacketAssumption
  <2> QED
    BY <1>1, <1>2, <1>4, <2>2 DEF TypeOK
<1> QED
  BY Zenon, <1>3, <1>4 DEF Pop

\* The types after a step that serves a chain.
LEMMA ServeType ==
  ASSUME TypeOK, UNCHANGED <<config, kickVars, stopVars, wake>>,
         NEW from, NEW tos \in SUBSET {"subscribe", "control", "handle", "status", "tx", "read",
                                       "transmit", "rx", "popRx", "take", "write", "complete",
                                       "interrupt", "event", "completeEvent", "returned"},
         Moves(from, tos),
         avail' \in [0..2 * Pairs -> Nat], frames' \in 0..MaxFrames,
         active' \in 1..Pairs, turn' \in 0..Wrap - 1, queue' \in Queues
  PROVE  TypeOK'
<1>1. Queues' = Queues
  BY DEF Queues, config
<1>2. ({kicks, kicked, down, closed, revoked, fault} \subseteq BOOLEAN)'
  BY DEF TypeOK, Moves, kickVars, stopVars
<1> QED
  BY <1>1, <1>2 DEF TypeOK, Moves, NotifyType, config, kickVars, stopVars, wake

\* Steps of a network device that stay with their queue.
LEMMA StayInv ==
  ASSUME QueueInv, IsNetwork, Still, UNCHANGED <<pairs, queue>>,
         avail' \in [0..2 * Pairs -> Nat], frames' \in 0..MaxFrames,
         \/ Moves("status", {"complete", "returned"})
         \/ Moves("read", {"transmit", "returned"})
         \/ Moves("transmit", {"complete", "returned"})
         \/ Moves("popRx", {"subscribe", "take", "returned"})
         \/ Moves("take", {"write", "returned"})
         \/ Moves("write", {"complete", "returned"})
         \/ Moves("complete", {"interrupt", "returned"})
  PROVE  QueueInv'
<1>1. TypeOK'
  BY ServeType DEF QueueInv, TypeOK, Still, pairs
<1>2. Place'
  BY DEF QueueInv, Place, AtControl, AtTx, AtRx, tx_queue, rx_queue, control_queue, IsNetwork,
         Moves, Still, config, pairs
<1> QED
  BY <1>1, <1>2 DEF QueueInv

\* The control queue sets the active pairs before a transmit queue is turned to.
LEMMA ControlInv == ASSUME QueueInv, process_control PROVE QueueInv'
<1> USE DEF QueueInv
<1>1. CASE PopControl
  <2>1. /\ Moves("control", {"tx", "handle", "returned"})
        /\ avail' \in [0..2 * Pairs -> Nat]
    BY Zenon, <1>1, PopMoves, PairsExist DEF PopControl
  <2>2. 0 \in 0..active - 1 /\ queue' \in Queues
    BY <1>1, PacketAssumption, PairsExist DEF PopControl, TypeOK
  <2>3. TypeOK'
    BY <1>1, <2>1, <2>2, ServeType DEF PopControl, Still, TypeOK, pairs
  <2>4. Place'
    BY <1>1, <2>1, <2>2
    DEF PopControl, Moves, Place, AtControl, AtTx, tx_queue, control_queue, IsNetwork, pairs
  <2> QED
    BY <2>3, <2>4
<1>2. CASE handle_control
  <2>1. Moves("handle", {"status", "returned"})
    BY <1>2, TryMoves, GotoMoves DEF handle_control, Moves
  <2>2. active' \in 1..Pairs
    BY <1>2 DEF handle_control, TypeOK
  <2>3. TypeOK'
    BY <1>2, <2>1, <2>2, ServeType DEF handle_control, Still, TypeOK
  <2>4. Place'
    BY <1>2, <2>1 DEF handle_control, Moves, Place, AtControl, control_queue, IsNetwork
  <2> QED
    BY <2>3, <2>4
<1>3. CASE write_control_status
  BY <1>3, TryMoves, StayInv DEF write_control_status, TypeOK
<1> QED
  BY <1>1, <1>2, <1>3 DEF process_control

\* The transmit queues of the active pairs, one after the other.
LEMMA TransmitInv == ASSUME QueueInv, process_tx PROVE QueueInv'
<1> USE DEF QueueInv
<1>1. CASE PopTx
  <2>1. PICK p \in 0..active - 1 : queue = tx_queue(p)
    BY <1>1 DEF PopTx, Pop, Goto, Fail, Place, AtTx
  <2>2. queue \in Queues
    BY DEF TypeOK
  <2>3. /\ Moves("tx", {"rx", "tx", "read", "returned"})
        /\ avail' \in [0..2 * Pairs -> Nat]
    BY <1>1, <2>2, PopMoves DEF PopTx, Moves
  <2>4. CASE pc' = "tx"
    <3>1. queue # tx_queue(active - 1)
      BY <1>1, <2>4 DEF PopTx, Pop, Goto, Fail
    <3>2. p + 1 \in 0..active - 1 /\ queue' = tx_queue(p + 1)
      BY <1>1, <2>1, <2>4, <3>1, PacketAssumption DEF PopTx, tx_queue, TypeOK
    <3>3. queue' \in Queues
      BY <1>1, <3>2, PairsExist DEF PopTx
    <3>4. TypeOK'
      BY <1>1, <2>3, <3>3, ServeType DEF PopTx, Still, TypeOK, pairs
    <3> QED
      BY <1>1, <2>4, <3>2, <3>4 DEF PopTx, Place, AtTx, pairs, tx_queue
  <2>5. CASE pc' # "tx"
    <3>1. queue' = queue
      BY Zenon, <1>1, <2>5 DEF PopTx
    <3>2. TypeOK'
      BY Zenon, <1>1, <2>2, <2>3, <3>1, ServeType DEF PopTx, Still, TypeOK, pairs
    <3> QED
      BY <1>1, <2>1, <2>3, <2>5, <3>1, <3>2 DEF PopTx, Place, Moves, AtTx, pairs, tx_queue
  <2> QED
    BY <2>4, <2>5
<1>2. CASE read_tx_frame
  BY <1>2, TryMoves, StayInv DEF read_tx_frame, TypeOK
<1>3. CASE Transmit
  <2>1. Moves("transmit", {"complete", "returned"})
    BY Zenon, <1>3, GotoMoves, FailMoves DEF Transmit, Moves, TypeOK
  <2> QED
    BY <1>3, <2>1, StayInv DEF Transmit, TypeOK
<1> QED
  BY <1>1, <1>2, <1>3 DEF process_tx

\* The receive queue of the pair whose turn it is.
LEMMA ReceiveInv == ASSUME QueueInv, process_rx PROVE QueueInv'
<1> USE DEF QueueInv
<1>1. CASE HasFrame
  <2>1. Moves("rx", {"subscribe", "popRx"})
    BY <1>1, GotoMoves DEF HasFrame, Moves
  <2>2. turn % active \in 0..active - 1 /\ (turn + 1) % Wrap \in 0..Wrap - 1
    BY PacketAssumption DEF TypeOK
  <2>3. queue' \in Queues /\ turn' \in 0..Wrap - 1
    BY <1>1, <2>2, PairsExist DEF HasFrame, TypeOK
  <2>4. TypeOK'
    BY <1>1, <2>1, <2>3, ServeType DEF HasFrame, Still, TypeOK
  <2>5. pc' = "popRx" => AtRx'
    BY <1>1, <2>2 DEF HasFrame, Goto, AtRx, rx_queue
  <2> QED
    BY <2>1, <2>4, <2>5 DEF Place, Moves
<1>2. CASE PopRx
  BY Zenon, <1>2, PopMoves, StayInv DEF PopRx, TypeOK
<1>3. CASE TakeFrame
  <2>1. Moves("take", {"write", "returned"})
    BY Zenon, <1>3, GotoMoves, FailMoves DEF TakeFrame, Moves
  <2>2. frames' \in 0..MaxFrames
    <3>1. frames \in 0..MaxFrames
      BY DEF TypeOK
    <3>2. frames' = frames \/ (frames # 0 /\ frames' = frames - 1)
      BY Zenon, <1>3 DEF TakeFrame
    <3> QED
      BY <3>1, <3>2, PacketAssumption
  <2> QED
    BY <1>3, <2>1, <2>2, StayInv DEF TakeFrame, TypeOK
<1>4. CASE write_rx_frame
  BY <1>4, TryMoves, StayInv DEF write_rx_frame, TypeOK
<1> QED
  BY <1>1, <1>2, <1>3, <1>4 DEF process_rx

\* The loop a chain came from is known by its queue.
LEMMA CompleteInv == ASSUME QueueInv, CompleteChain \/ NotifyChain PROVE QueueInv'
<1> USE DEF QueueInv
<1>1. CASE CompleteChain
  <2>1. Moves("complete", {"interrupt", "returned"})
    BY Zenon, <1>1, GotoMoves, FailMoves DEF CompleteChain, Moves
  <2> QED
    BY <1>1, <2>1, StayInv DEF CompleteChain, TypeOK
<1>2. CASE NotifyChain
  <2>1. Moves("interrupt", {"control", "tx", "rx", "returned"})
    BY Zenon, <1>2, GotoMoves, FailMoves DEF NotifyChain, Moves
  <2>2. TypeOK'
    BY <1>2, <2>1, ServeType DEF NotifyChain, Still, TypeOK, pairs
  <2>3. pc' = "control" => AtControl
    BY <1>2 DEF NotifyChain, Goto, Fail, AtControl
  <2>4. pc' = "tx" => AtTx
    <3> SUFFICES ASSUME pc' = "tx" PROVE AtTx
      OBVIOUS
    <3>1. pc = "interrupt" /\ queue # control_queue /\ queue % 2 = 1
      BY <1>2 DEF NotifyChain, Goto, Fail
    <3>2. \A p \in 0..active - 1 : rx_queue(p) % 2 = 0
      BY PacketAssumption DEF rx_queue, TypeOK
    <3> QED
      BY <1>2, <3>1, <3>2 DEF NotifyChain, Place, AtControl, AtRx
  <2> QED
    BY <1>2, <2>1, <2>2, <2>3, <2>4
    DEF NotifyChain, Place, Moves, AtControl, AtTx, pairs, tx_queue, control_queue
<1> QED
  BY <1>1, <1>2

\* A vsock device has three queues, and goes from one to the next.
LEMMA VsockInv == ASSUME QueueInv, IsVsock, VsockStep PROVE QueueInv'
<1> USE DEF QueueInv
<1>1. {QUEUE_RX, QUEUE_TX, QUEUE_EVENT} \subseteq Queues
  BY DEF IsVsock, Queues, QUEUE_RX, QUEUE_TX, QUEUE_EVENT
<1>2. \A from, to : validate_packet_type(from, to) => Moves(from, {to, "returned"})
  BY Zenon, GotoMoves, FailMoves DEF validate_packet_type, Moves
<1>3. TypeOK'
  <2>1. CASE PopPacketTx
    <3>1. /\ Moves("tx", {"rx", "read", "returned"})
          /\ avail' \in [0..2 * Pairs -> Nat]
      BY <1>1, <2>1, PopMoves DEF PopPacketTx
    <3> QED
      BY <2>1, <3>1, ServeType DEF PopPacketTx, Quiet, TypeOK, pairs
  <2>2. CASE ReadPacket
    <3>1. Moves("read", {"transmit", "returned"})
      BY Zenon, <1>2, <2>2, FailMoves DEF ReadPacket, Break, Moves
    <3> QED
      BY <2>2, <3>1, ServeType DEF ReadPacket, Quiet, TypeOK, pairs
  <2>3. CASE ReceivePacket
    <3>1. Moves("transmit", {"complete", "returned"})
      BY Zenon, <2>3, GotoMoves, FailMoves DEF ReceivePacket, Moves, TypeOK
    <3> QED
      BY <2>3, <3>1, ServeType DEF ReceivePacket, Quiet, TypeOK, pairs
  <2>4. CASE HasPacket
    <3>1. Moves("rx", {"event", "popRx"})
      BY Zenon, <2>4, GotoMoves DEF HasPacket, Moves
    <3> QED
      BY <1>1, <2>4, <3>1, ServeType DEF HasPacket, Quiet, TypeOK, pairs
  <2>5. CASE PopPacketRx
    <3>1. /\ Moves("popRx", {"event", "take", "returned"})
          /\ avail' \in [0..2 * Pairs -> Nat]
      BY Zenon, <1>1, <2>5, PopMoves DEF PopPacketRx
    <3> QED
      BY <1>1, <2>5, <3>1, ServeType DEF PopPacketRx, Quiet, TypeOK, pairs
  <2>6. CASE TakePacket
    <3>1. Moves("take", {"write", "returned"})
      BY Zenon, <1>2, <2>6, FailMoves DEF TakePacket, Moves
    <3>2. frames' \in 0..MaxFrames
      <4>1. frames \in 0..MaxFrames
        BY DEF TypeOK
      <4>2. frames' = frames \/ (frames # 0 /\ frames' = frames - 1)
        BY Zenon, <2>6 DEF TakePacket
      <4> QED
        BY <4>1, <4>2, PacketAssumption
    <3> QED
      BY <2>6, <3>1, <3>2, ServeType DEF TakePacket, Quiet, TypeOK, pairs
  <2>7. CASE WritePacket
    BY Zenon, <2>7, TryMoves, ServeType DEF WritePacket, Quiet, TypeOK, pairs
  <2>8. CASE CompletePacket
    <3>1. Moves("complete", {"interrupt", "returned"})
      BY Zenon, <2>8, GotoMoves, FailMoves DEF CompletePacket, Moves
    <3> QED
      BY <2>8, <3>1, ServeType DEF CompletePacket, Quiet, TypeOK, pairs
  <2>9. CASE notify_queue
    <3>1. Moves("interrupt", {"tx", "rx", "returned"})
      BY Zenon, <2>9, GotoMoves, FailMoves DEF notify_queue, Moves
    <3> QED
      BY <2>9, <3>1, ServeType DEF notify_queue, Quiet, TypeOK, pairs
  <2>10. CASE PopEvent
    <3>1. /\ Moves("event", {"subscribe", "completeEvent", "returned"})
          /\ avail' \in [0..2 * Pairs -> Nat]
      BY Zenon, <1>1, <2>10, PopMoves DEF PopEvent
    <3> QED
      BY <2>10, <3>1, ServeType DEF PopEvent, Quiet, TypeOK, pairs
  <2>11. CASE CompleteEvent
    <3>1. Moves("completeEvent", {"event", "returned"})
      BY Zenon, <2>11, GotoMoves, FailMoves DEF CompleteEvent, Moves
    <3> QED
      BY <2>11, <3>1, ServeType DEF CompleteEvent, Quiet, TypeOK, pairs
  <2> QED
    BY Zenon, <2>1, <2>2, <2>3, <2>4, <2>5, <2>6, <2>7, <2>8, <2>9, <2>10, <2>11
    DEF VsockStep, process_tx_packets, process_rx_packets, process_event
<1>4. IsVsock'
  BY Zenon DEF IsVsock, VsockStep, process_tx_packets, process_rx_packets, process_event, PopPacketTx,
         ReadPacket, ReceivePacket, HasPacket, PopPacketRx, TakePacket, WritePacket, CompletePacket,
         notify_queue, PopEvent, CompleteEvent, Quiet, config
<1> QED
  BY <1>3, <1>4 DEF Place, IsNetwork, IsVsock

\* Every queue that run() turns to exists, the number of active pairs stays
\* between 1 and the pairs there are, whatever the control queue asks for, and
\* the turn stays a usize: for any number of pairs.
THEOREM QueueExists == Spec => []TypeOK
<1>1. QueueInv /\ [Next]_vars => QueueInv'
  <2> SUFFICES ASSUME QueueInv, [Next]_vars PROVE QueueInv'
    OBVIOUS
  <2>1. CASE (\E q \in Queues : Post(q)) \/ Arrive
    BY <2>1, QueuePost, QueueArrive
  <2>2. CASE KickNetwork \/ KickVsock
    BY <2>2, QueueKick DEF KickNetwork, KickVsock
  <2>3. CASE StopNetwork \/ StopVsock
    BY <2>3, QueueStop DEF StopNetwork, StopVsock
  <2>4. CASE RunNetwork
    BY <2>4, QueueLoop, ControlInv, TransmitInv, ReceiveInv, CompleteInv
    DEF RunNetwork, NetworkStep
  <2>5. CASE RunVsock
    BY <2>5, QueueLoop, VsockInv DEF RunVsock
  <2>6. CASE UNCHANGED vars
    <3>1. TypeOK'
      BY <2>6 DEF QueueInv, TypeOK, Queues, NotifyType, vars, config, kickVars, stopVars, wake,
                  pairs, runVars
    <3> QED
      BY <2>6, <3>1, QueueOutside DEF vars
  <2> QED
    BY <2>1, <2>2, <2>3, <2>4, <2>5, <2>6 DEF Next, Run
<1>2. QueueInv => TypeOK
  BY DEF QueueInv
<1> QED
  BY <1>1, <1>2, QueueInit, PTL DEF Spec

-----------------------------------------------------------------------------
(* Why run() fails.                                                        *)

\* Only stop() revokes the generation and shuts the backend, and a frame that
\* the backend had before a pop is there after it unless it was shut.
CauseInv ==
  /\ TypeOK
  /\ revoked \/ closed => down
  /\ stopping # "no" => down
  /\ pc \in {"popRx", "take"} => frames # 0 \/ down
  /\ FailureHasCause

\* The driver, the backend and the transport.
LEMMA CauseOutside ==
  ASSUME CauseInv, TypeOK',
         \/ (\E q \in Queues : Post(q)) \/ Arrive \/ KickStore \/ KickNotify
         \/ StopDown \/ StopClose \/ StopRevoke \/ StopNotify
  PROVE  CauseInv'
<1>1. CASE Arrive
  <2>1. UNCHANGED <<down, closed, revoked, stopping, pc, result, fault>>
    BY Zenon, <1>1 DEF Arrive, stopVars, runVars
  <2>2. frames' # 0
    BY <1>1 DEF Arrive, CauseInv, TypeOK
  <2> QED
    BY Zenon, <2>1, <2>2 DEF CauseInv, FailureHasCause
<1>2. CASE (\E q \in Queues : Post(q)) \/ KickStore \/ KickNotify
  <2>1. UNCHANGED <<frames, down, closed, revoked, stopping, pc, result, fault>>
    BY Zenon, <1>2 DEF Post, KickStore, KickNotify, stopVars, runVars
  <2> QED
    BY Zenon, <2>1 DEF CauseInv, FailureHasCause
<1>3. CASE StopDown \/ StopClose \/ StopRevoke \/ StopNotify
  <2>1. stopping \in {"down", "closed", "revoked"} => down
    BY DEF CauseInv
  <2>2. down'
    <3>1. CASE StopDown
      BY <3>1 DEF StopDown
    <3>2. CASE StopClose
      BY <2>1, <3>2 DEF StopClose
    <3>3. CASE StopRevoke
      BY <2>1, <3>3 DEF StopRevoke
    <3>4. CASE StopNotify
      BY <2>1, <3>4 DEF StopNotify
    <3> QED
      BY Zenon, <1>3, <3>1, <3>2, <3>3, <3>4
  <2> QED
    BY Zenon, <2>2 DEF CauseInv, FailureHasCause
<1> QED
  BY Zenon, <1>1, <1>2, <1>3

\* The loop of run() itself never fails.
LEMMA CauseLoop == ASSUME CauseInv, TypeOK', Loop PROVE CauseInv'
BY DEF CauseInv, FailureHasCause, stopVars, Loop, Subscribe, Check, Await, Recheck, Swap, Drain, Goto

\* A step of run() that goes on.
LEMMA CauseGoto ==
  ASSUME CauseInv, TypeOK', UNCHANGED stopVars, NEW from, NEW to, Goto(from, to),
         to \in {"popRx", "take"} => frames' # 0 \/ down
  PROVE  CauseInv'
BY DEF CauseInv, FailureHasCause, Goto, stopVars

\* A step that fails, after stop() or for a fault outside.
LEMMA CauseFail ==
  ASSUME CauseInv, TypeOK', UNCHANGED stopVars, NEW from, NEW f \in BOOLEAN, Fail(from, f),
         down \/ f
  PROVE  CauseInv'
<1>1. fault \in BOOLEAN /\ fault' \in BOOLEAN
  BY DEF CauseInv, TypeOK
<1>2. FailureHasCause' /\ pc' = "returned"
  BY <1>1 DEF Fail, FailureHasCause, stopVars
<1> QED
  BY Zenon, <1>2 DEF CauseInv, stopVars

\* A refused lease or a fault.
LEMMA CauseBreak ==
  ASSUME CauseInv, TypeOK', UNCHANGED stopVars, NEW from, Break(from)
  PROVE  CauseInv'
<1>1. CASE revoked
  BY Zenon, <1>1, CauseFail DEF Break, CauseInv
<1>2. CASE ~revoked
  BY Zenon, <1>2, CauseFail DEF Break
<1> QED
  BY <1>1, <1>2

\* A step that goes on unless the generation is revoked or something is at fault.
LEMMA CauseTry ==
  ASSUME CauseInv, TypeOK', UNCHANGED stopVars, NEW from, NEW to,
         to \notin {"popRx", "take"}, Try(from, to)
  PROVE  CauseInv'
BY CauseBreak, CauseGoto DEF Try

\* A pop does not take the frame that was seen.
LEMMA CausePop ==
  ASSUME CauseInv, TypeOK', UNCHANGED <<stopVars, frames>>, NEW q, NEW from, NEW none, NEW some,
         Pop(q, from, none, some),
         none \notin {"popRx", "take"},
         some \in {"popRx", "take"} => from = "popRx"
  PROVE  CauseInv'
<1>1. pc = from
  BY DEF Pop, Goto, Fail
<1>2. CASE revoked
  BY Zenon, <1>2, CauseFail DEF Pop, CauseInv
<1>3. CASE ~revoked
  BY Zenon, <1>1, <1>3, CauseGoto DEF Pop, CauseInv
<1> QED
  BY <1>2, <1>3

\* The chains of a network device.
LEMMA CauseNetwork == ASSUME CauseInv, TypeOK', NetworkStep PROVE CauseInv'
<1> USE DEF Still
<1>1. CASE process_control
  BY <1>1, CausePop, CauseTry, CauseGoto
  DEF process_control, PopControl, handle_control, write_control_status
<1>2. CASE PopTx
  BY <1>2, CausePop DEF PopTx
<1>3. CASE read_tx_frame
  BY <1>3, CauseTry DEF read_tx_frame
<1>4. CASE Transmit
  <2>1. closed \in BOOLEAN /\ (closed => down)
    BY DEF CauseInv, TypeOK
  <2> QED
    BY Zenon, <1>4, <2>1, CauseGoto, CauseFail DEF Transmit
<1>5. CASE HasFrame
  BY <1>5, CauseGoto DEF HasFrame
<1>6. CASE PopRx
  BY <1>6, CausePop DEF PopRx
<1>7. CASE TakeFrame
  <2>1. frames = 0 => down
    BY <1>7 DEF TakeFrame, CauseInv, Goto, Fail
  <2> QED
    BY Zenon, <1>7, <2>1, CauseGoto, CauseFail DEF TakeFrame
<1>8. CASE write_rx_frame
  BY <1>8, CauseTry DEF write_rx_frame
<1>9. CASE CompleteChain
  BY Zenon, <1>9, CauseGoto, CauseFail DEF CompleteChain, CauseInv
<1>10. CASE NotifyChain
  BY Zenon, <1>10, CauseGoto, CauseFail DEF NotifyChain
<1> QED
  BY <1>1, <1>2, <1>3, <1>4, <1>5, <1>6, <1>7, <1>8, <1>9, <1>10
  DEF NetworkStep, process_tx, process_rx

\* The chains of a vsock device.
LEMMA CauseVsock == ASSUME CauseInv, TypeOK', VsockStep PROVE CauseInv'
<1> USE DEF Quiet
<1>1. ASSUME NEW from, NEW to, to \notin {"popRx", "take"}, UNCHANGED stopVars,
             validate_packet_type(from, to)
      PROVE  CauseInv'
  BY Zenon, <1>1, CauseGoto, CauseFail DEF validate_packet_type
<1>2. CASE PopPacketTx \/ PopPacketRx \/ PopEvent
  BY <1>2, CausePop DEF PopPacketTx, PopPacketRx, PopEvent
<1>3. CASE ReadPacket
  BY <1>1, <1>3, CauseBreak DEF ReadPacket
<1>4. CASE ReceivePacket
  <2>1. closed \in BOOLEAN /\ (closed => down)
    BY DEF CauseInv, TypeOK
  <2> QED
    BY Zenon, <1>4, <2>1, CauseGoto, CauseFail DEF ReceivePacket
<1>5. CASE HasPacket
  BY <1>5, CauseGoto DEF HasPacket
<1>6. CASE TakePacket
  <2>1. frames = 0 => down
    <3>1. pc = "take"
      BY <1>6 DEF TakePacket, validate_packet_type, Goto, Fail
    <3> QED
      BY <3>1 DEF CauseInv
  <2> QED
    BY Zenon, <1>1, <1>6, <2>1, CauseFail DEF TakePacket
<1>7. CASE WritePacket
  BY <1>7, CauseTry DEF WritePacket
<1>8. CASE CompletePacket \/ CompleteEvent
  BY Zenon, <1>8, CauseGoto, CauseFail DEF CompletePacket, CompleteEvent, CauseInv
<1>9. CASE notify_queue
  BY Zenon, <1>9, CauseGoto, CauseFail DEF notify_queue
<1> QED
  BY <1>2, <1>3, <1>4, <1>5, <1>6, <1>7, <1>8, <1>9
  DEF VsockStep, process_tx_packets, process_rx_packets, process_event

\* run() of a packet device fails only after stop() has begun or through a fault
\* outside the device: a frame does not disappear between has_frame() and
\* take_frame(), and no queue is asked that is not there.
THEOREM FailuresHaveCauses == Spec => []FailureHasCause
<1>1. CauseInv /\ TypeOK' /\ [Next]_vars => CauseInv'
  <2> SUFFICES ASSUME CauseInv, TypeOK', [Next]_vars PROVE CauseInv'
    OBVIOUS
  <2>1. CASE UNCHANGED vars
    BY <2>1 DEF CauseInv, FailureHasCause, vars, stopVars, runVars
  <2> QED
    BY <2>1, CauseOutside, CauseLoop, CauseNetwork, CauseVsock
    DEF Next, Run, KickNetwork, KickVsock, StopNetwork, StopVsock, RunNetwork, RunVsock
<1>2. Init /\ TypeOK => CauseInv
  BY DEF Init, CauseInv, FailureHasCause
<1>3. CauseInv => FailureHasCause
  BY DEF CauseInv
<1> QED
  BY <1>1, <1>2, <1>3, QueueExists, PTL DEF Spec
=============================================================================
