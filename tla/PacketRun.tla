------------------------------ MODULE PacketRun -----------------------------
(***************************************************************************)
(* What the packet devices, network (src/src/network.rs) and vsock         *)
(* (src/src/vsock.rs), have in common: run() up to its process_* calls,    *)
(* kick() with its kicked flag, stop(), and the end of serving a chain.    *)
(* NetworkRun and VsockRun add what each does between; PacketDevices puts  *)
(* them together.                                                          *)
(*                                                                         *)
(* Queues have the numbers of the source.  A queue is the number of chains *)
(* available on it: what a chain holds is chosen when run() reads it.  pop *)
(* and complete are single steps (VirtQueue has their inside), and no      *)
(* lease outlives a step, so the drain is over when it is asked for.       *)
(***************************************************************************)
EXTENDS Integers

CONSTANTS
  Pairs,        \* queue pairs of the network device
  Depth,        \* bound on the chains available on each queue
  MaxFrames,    \* bound on the frames or packets the backend holds
  Wrap,         \* next_rx_pair is a usize: its modulus
  MayFault      \* chains may be malformed, backend and transport may refuse

ASSUME PacketAssumption ==
  /\ Pairs \in Nat \ {0}
  /\ Depth \in [0..2 * Pairs -> Nat \ {0}]
  /\ MaxFrames \in Nat
  /\ Wrap \in Nat \ {0}
  /\ MayFault \in BOOLEAN

VARIABLES
  device,       \* "network" or "vsock"
  seqpacket,    \* vsock: seqpacket_supported
  avail,        \* chains available on each queue
  frames,       \* frames or packets for the guest that the backend holds
  kicks,        \* a kick() is owed for what was published or has come in
  kicking,      \* where kick() is
  kicked,
  down, closed, revoked,
  stopping,     \* where stop() is
  permit, waiter,     \* wake: Notify
  active,       \* network: active_queue_pairs
  turn,         \* network: next_rx_pair
  pc, queue, result,  \* run(), and the queue it is at
  fault         \* something outside the device was at fault

config == <<device, seqpacket>>
kickVars == <<kicks, kicking, kicked>>
stopVars == <<down, closed, revoked, stopping>>
wake == <<permit, waiter>>
pairs == <<active, turn>>
runVars == <<pc, queue, result, fault>>
vars == <<config, avail, frames, kickVars, stopVars, wake, pairs, runVars>>

INSTANCE Notify

Queues == IF device = "network" THEN 0..2 * Pairs ELSE 0..2

TypeOK ==
  /\ device \in {"network", "vsock"} /\ seqpacket \in BOOLEAN
  /\ avail \in [0..2 * Pairs -> Nat]
  /\ frames \in 0..MaxFrames
  /\ {kicks, kicked, down, closed, revoked, fault} \subseteq BOOLEAN
  /\ kicking \in {"no", "stored"}
  /\ stopping \in {"no", "down", "closed", "revoked", "stopped"}
  /\ NotifyType
  /\ active \in 1..Pairs /\ turn \in 0..Wrap - 1
  /\ pc \in {"subscribe", "check", "await", "recheck", "swap", "control", "handle",
             "status", "tx", "read", "transmit", "rx", "popRx", "take", "write",
             "complete", "interrupt", "event", "completeEvent", "drain", "returned"}
  /\ queue \in Queues
  /\ result \in {"none", "ok", "err"}

\* activate() of either device.
Init ==
  /\ device \in {"network", "vsock"}
  /\ seqpacket \in (IF device = "vsock" THEN BOOLEAN ELSE {FALSE})
  /\ avail = [q \in 0..2 * Pairs |-> 0]
  /\ frames = 0
  /\ kicks = FALSE /\ kicking = "no" /\ kicked = FALSE
  /\ down = FALSE /\ closed = FALSE /\ revoked = FALSE /\ stopping = "no"
  /\ NotifyInit
  /\ active = 1 /\ turn = 0
  /\ pc = "subscribe" /\ queue = 0 /\ result = "none" /\ fault = FALSE

-----------------------------------------------------------------------------
(* The driver, the backend and the transport, external.  What is published *)
(* on revoked memory is never read, and no one kicks for it.               *)

Post(q) ==
  /\ ~revoked
  /\ avail[q] < Depth[q]
  /\ avail' = [avail EXCEPT ![q] = @ + 1]
  /\ kicks' = TRUE
  /\ UNCHANGED <<config, frames, kicking, kicked, stopVars, wake, pairs, runVars>>

Arrive ==
  /\ frames < MaxFrames /\ ~closed /\ ~revoked
  /\ frames' = frames + 1
  /\ kicks' = TRUE
  /\ UNCHANGED <<config, avail, kicking, kicked, stopVars, wake, pairs, runVars>>

-----------------------------------------------------------------------------
(* kick(): the flag, then the notification.                                *)

KickStore ==
  /\ kicking = "no" /\ kicks
  /\ kicks' = FALSE
  /\ kicking' = "stored"
  /\ kicked' = TRUE
  /\ UNCHANGED <<config, avail, frames, stopVars, wake, pairs, runVars>>

\* Faulty variant: notify_waiters() in place of notify_one().
KickNotifyWaiters ==
  /\ kicking = "stored"
  /\ kicking' = "no"
  /\ NotifyAll
  /\ UNCHANGED <<config, avail, frames, kicks, kicked, stopVars, pairs, runVars>>

KickNotify ==
  /\ kicking = "stored"
  /\ kicking' = "no"
  /\ NotifyOne
  /\ UNCHANGED <<config, avail, frames, kicks, kicked, stopVars, pairs, runVars>>

-----------------------------------------------------------------------------
(* stop(), statement by statement; only SurpriseRemoval shuts the backend, *)
(* which then has nothing more for the guest.                              *)

StopDown ==
  /\ stopping = "no"
  /\ stopping' = "down"
  /\ down' = TRUE
  /\ UNCHANGED <<config, avail, frames, kickVars, closed, revoked, wake, pairs, runVars>>

StopClose ==
  /\ stopping = "down"
  /\ stopping' = "closed"
  /\ closed' = TRUE
  /\ frames' = 0
  /\ UNCHANGED <<config, avail, kickVars, down, revoked, wake, pairs, runVars>>

StopRevoke ==
  /\ stopping \in {"down", "closed"}
  /\ stopping' = "revoked"
  /\ revoked' = TRUE
  /\ UNCHANGED <<config, avail, frames, kickVars, down, closed, wake, pairs, runVars>>

StopNotify ==
  /\ stopping = "revoked"
  /\ stopping' = "stopped"
  /\ NotifyAll
  /\ UNCHANGED <<config, avail, frames, kickVars, down, closed, revoked, pairs, runVars>>

-----------------------------------------------------------------------------
(* run(): its loop, and the steps that serving any chain is made of.       *)

Goto(from, to) == pc = from /\ pc' = to /\ UNCHANGED <<result, fault>>

\* An error that run() passes on: f says whether the outside is to blame.
Fail(from, f) ==
  /\ pc = from /\ pc' = "returned"
  /\ result' = "err"
  /\ fault' = (fault \/ f)

\* A step that needs the generation, and that a fault outside may make fail.
Break(from) ==
  \/ revoked /\ Fail(from, FALSE)
  \/ ~revoked /\ MayFault /\ Fail(from, TRUE)

Try(from, to) == Break(from) \/ (~revoked /\ Goto(from, to))

\* Pop from q: an error when revoked, else none or a chain.
Pop(q, from, none, some) ==
  \/ revoked /\ Fail(from, FALSE) /\ UNCHANGED avail
  \/ ~revoked /\ avail[q] = 0 /\ Goto(from, none) /\ UNCHANGED avail
  \/ /\ ~revoked /\ avail[q] > 0
     /\ Goto(from, some)
     /\ avail' = [avail EXCEPT ![q] = @ - 1]

Subscribe ==
  /\ Goto("subscribe", "check")
  /\ queue' = 0
  /\ Create
  /\ UNCHANGED <<config, avail, frames, kickVars, stopVars, pairs>>

\* Faulty variant: down is not read before the wait.
CheckNothing ==
  /\ Goto("check", "await")
  /\ UNCHANGED <<config, avail, frames, kickVars, stopVars, wake, pairs, queue>>

\* down is read once the future exists.
Check ==
  /\ IF down
     THEN Goto("check", "drain") /\ Discard
     ELSE Goto("check", "await") /\ UNCHANGED wake
  /\ UNCHANGED <<config, avail, frames, kickVars, stopVars, pairs, queue>>

Await ==
  /\ \/ Goto("await", "await") /\ Enlist
     \/ Goto("await", "recheck") /\ Complete
  /\ UNCHANGED <<config, avail, frames, kickVars, stopVars, pairs, queue>>

Recheck ==
  /\ Goto("recheck", IF down THEN "drain" ELSE "swap")
  /\ UNCHANGED <<config, avail, frames, kickVars, stopVars, wake, pairs, queue>>

\* kicked.swap(false), and what is served first.
Swap ==
  /\ kicked' = FALSE
  /\ IF ~kicked THEN Goto("swap", "subscribe") /\ UNCHANGED queue
     ELSE IF device = "network" THEN Goto("swap", "control") /\ queue' = 2 * Pairs
     ELSE Goto("swap", "tx") /\ queue' = 1
  /\ UNCHANGED <<config, avail, frames, kicks, kicking, stopVars, wake, pairs>>

\* wait_for_drain() and Ok(()).
Drain ==
  /\ pc = "drain" /\ pc' = "returned"
  /\ result' = "ok"
  /\ UNCHANGED <<config, avail, frames, kickVars, stopVars, wake, pairs, queue, fault>>

Loop == Subscribe \/ Check \/ Await \/ Recheck \/ Swap \/ Drain
=============================================================================
