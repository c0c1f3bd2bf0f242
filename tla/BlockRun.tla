------------------------------- MODULE BlockRun -----------------------------
(***************************************************************************)
(* The block device (src/src/block.rs): BlockDevice::run with its pending  *)
(* futures, the blocking workers that own the DMA leases of their          *)
(* requests, and stop() and kick() called from other threads.              *)
(*                                                                         *)
(* pop and complete are single steps here (VirtQueue has their inside);    *)
(* so is the drain (DmaMemory), whose counter is the number of running     *)
(* workers: every lease taken in run() itself is dropped before the task   *)
(* yields.  A request goes                                                 *)
(*   free, posted, parsing, queued, running, done, completing, answered    *)
(* and back to free; queued is a future that was never polled.             *)
(***************************************************************************)
EXTENDS Integers, Sequences, FiniteSets

CONSTANTS
  Requests,
  QueueCount,
  QueueOf,      \* the queue the driver uses for each request
  PerQueue,     \* MAXIMUM_INFLIGHT_PER_QUEUE
  Cap,          \* MAXIMUM_INFLIGHT_REQUESTS
  Faulty        \* requests the device may answer with an error of run()

ASSUME BlockAssumption ==
  /\ IsFiniteSet(Requests)
  /\ QueueCount \in Nat \ {0}
  /\ PerQueue \in Nat \ {0}
  /\ Cap \in Nat \ {0}
  /\ QueueOf \in [Requests -> 0..(QueueCount - 1)]
  /\ Faulty \subseteq Requests

VARIABLES
  posted,       \* per queue, the available chains not popped
  state,        \* where each request is
  kicks,        \* the driver has published and not yet kicked
  down, revoked,
  stopping,     \* where stop() is
  permit, waiter,             \* wake: Notify
  pc, scan_queues, next_queue, tries,   \* run()
  result        \* what run() returned

wake == <<permit, waiter>>
stopVars == <<down, revoked, stopping>>
loop == <<scan_queues, next_queue, tries>>
vars == <<posted, state, kicks, stopVars, wake, pc, loop, result>>

INSTANCE Notify

Queues == 0..(QueueCount - 1)
In(s) == {r \in Requests : state[r] = s}

\* FuturesUnordered: futures never polled, waiting for a worker, or ready.
Pending == {r \in Requests : state[r] \in {"queued", "running", "done", "failed"}}

\* Workers own the leases of their request until they end, and they outlive
\* the future that waits for them.
LeasesHeld == In("running")

Smaller(a, b) == IF a < b THEN a ELSE b
MaximumInflight == Smaller(QueueCount * PerQueue, Cap)

RequestStates == {"free", "posted", "parsing", "queued", "running", "done",
                  "failed", "completing", "answered", "lost"}

TypeOK ==
  /\ posted \in [Queues -> Seq(Requests)]
  /\ state \in [Requests -> RequestStates]
  /\ kicks \in BOOLEAN
  /\ down \in BOOLEAN /\ revoked \in BOOLEAN
  /\ stopping \in {"no", "down", "revoked", "stopped"}
  /\ NotifyType
  /\ pc \in {"idle", "subscribe", "recheck", "await", "scan", "take", "parse", "after",
             "select", "complete", "publish", "notify", "drain", "returned"}
  /\ scan_queues \in BOOLEAN
  /\ next_queue \in Queues
  /\ tries \in 0..QueueCount
  /\ result \in {"none", "ok", "err"}

Init ==
  /\ posted = [q \in Queues |-> <<>>]
  /\ state = [r \in Requests |-> "free"]
  /\ kicks = FALSE
  /\ down = FALSE /\ revoked = FALSE
  /\ stopping = "no"
  /\ NotifyInit
  /\ pc = "idle"
  /\ scan_queues = FALSE
  /\ next_queue = 0
  /\ tries = 0
  /\ result = "none"

Goto(from, to) == pc = from /\ pc' = to
Move(r, to) == state' = [state EXCEPT ![r] = to]

-----------------------------------------------------------------------------
(* The driver and the transport, external: they call kick() and stop().    *)

Post(r) ==
  /\ state[r] = "free"
  /\ Move(r, "posted")
  /\ posted' = [posted EXCEPT ![QueueOf[r]] = Append(@, r)]
  /\ kicks' = TRUE
  /\ UNCHANGED <<stopVars, wake, pc, loop, result>>

Collect(r) ==
  /\ state[r] = "answered"
  /\ Move(r, "free")
  /\ UNCHANGED <<posted, kicks, stopVars, wake, pc, loop, result>>

\* kick()
Kick ==
  /\ kicks
  /\ kicks' = FALSE
  /\ NotifyOne
  /\ UNCHANGED <<posted, state, stopVars, pc, loop, result>>

\* stop(), its three statements
StopDown ==
  /\ stopping = "no"
  /\ stopping' = "down"
  /\ down' = TRUE
  /\ UNCHANGED <<posted, state, kicks, revoked, wake, pc, loop, result>>

StopRevoke ==
  /\ stopping = "down"
  /\ stopping' = "revoked"
  /\ revoked' = TRUE
  /\ UNCHANGED <<posted, state, kicks, down, wake, pc, loop, result>>

StopNotify ==
  /\ stopping = "revoked"
  /\ stopping' = "stopped"
  /\ NotifyAll
  /\ UNCHANGED <<posted, state, kicks, down, revoked, pc, loop, result>>

\* The blocking worker does the I/O, writes the status byte, drops its leases
\* and hands its result to the future, if that still exists.
WorkerEnds(r) ==
  /\ state[r] = "running"
  /\ \/ Move(r, IF pc = "returned" THEN "lost" ELSE "done")
     \/ r \in Faulty /\ Move(r, IF pc = "returned" THEN "lost" ELSE "failed")
  /\ UNCHANGED <<posted, kicks, stopVars, wake, pc, loop, result>>

-----------------------------------------------------------------------------
(* run().                                                                  *)

\* run() ends: its futures and what it held are dropped, its workers run on.
Return(from, res) ==
  /\ Goto(from, "returned")
  /\ result' = res
  /\ state' = [r \in Requests |->
                 IF state[r] \in {"parsing", "queued", "done", "failed", "completing"}
                 THEN "lost" ELSE state[r]]
  /\ Discard

\* The top of the loop: wait only with nothing to scan and nothing pending.
Idle ==
  /\ IF ~scan_queues /\ Pending = {} /\ ~down
     THEN Goto("idle", "subscribe")
     ELSE Goto("idle", "scan")
  /\ UNCHANGED <<posted, state, kicks, stopVars, wake, loop, result>>

Subscribe ==
  /\ Goto("subscribe", "recheck")
  /\ Create
  /\ UNCHANGED <<posted, state, kicks, stopVars, loop, result>>

\* Faulty variant: down is not read again once the future exists.
NoRecheck ==
  /\ Goto("recheck", "await")
  /\ UNCHANGED <<posted, state, kicks, stopVars, wake, loop, result>>

\* down is read again once the future exists.
Recheck ==
  /\ IF down
     THEN Goto("recheck", "scan") /\ Discard
     ELSE Goto("recheck", "await") /\ UNCHANGED wake
  /\ UNCHANGED <<posted, state, kicks, stopVars, loop, result>>

Await ==
  /\ \/ Goto("await", "await") /\ Enlist /\ UNCHANGED scan_queues
     \/ Goto("await", "scan") /\ Complete /\ scan_queues' = TRUE
  /\ UNCHANGED <<posted, state, kicks, stopVars, next_queue, tries, result>>

\* Faulty variant: one request too many in flight.
ScanOneMore ==
  /\ IF ~down /\ scan_queues /\ Cardinality(Pending) <= MaximumInflight
     THEN Goto("scan", "take") /\ tries' = 0 /\ UNCHANGED scan_queues
     ELSE Goto("scan", "after") /\ scan_queues' = FALSE /\ UNCHANGED tries
  /\ UNCHANGED <<posted, state, kicks, stopVars, wake, next_queue, result>>

\* The condition of the inner loop.
Scan ==
  /\ IF ~down /\ scan_queues /\ Cardinality(Pending) < MaximumInflight
     THEN Goto("scan", "take") /\ tries' = 0 /\ UNCHANGED scan_queues
     ELSE Goto("scan", "after") /\ scan_queues' = FALSE /\ UNCHANGED tries
  /\ UNCHANGED <<posted, state, kicks, stopVars, wake, next_queue, result>>

\* Faulty variant: the turn is not taken modulo the number of queues.
NextTurnUnbounded(q) == q + 1
NextTurn(q) == (q + 1) % QueueCount

\* take_work up to the pop, on the next queue in turn.  Every queue was empty:
\* the inner loop breaks.  The generation is revoked: pop fails.
Take ==
  \/ /\ tries = QueueCount
     /\ Goto("take", "after")
     /\ scan_queues' = FALSE
     /\ UNCHANGED <<posted, state, kicks, stopVars, wake, next_queue, tries, result>>
  \/ /\ tries < QueueCount
     /\ next_queue' = NextTurn(next_queue)
     /\ tries' = tries + 1
     /\ IF revoked
        THEN Return("take", "err") /\ UNCHANGED posted
        ELSE /\ UNCHANGED <<result, wake>>
             /\ IF posted[next_queue] = <<>>
                THEN Goto("take", "take") /\ UNCHANGED <<posted, state>>
                ELSE /\ Goto("take", "parse")
                     /\ Move(Head(posted[next_queue]), "parsing")
                     /\ posted' = [posted EXCEPT ![next_queue] = Tail(@)]
     /\ UNCHANGED <<kicks, stopVars, scan_queues>>

\* take_work from parse_request on; the future is pushed, not polled.
Parse ==
  /\ \E r \in In("parsing") :
       \/ /\ revoked \/ r \in Faulty
          /\ Return("parse", "err")
       \/ /\ ~revoked
          /\ Goto("parse", "scan")
          /\ Move(r, "queued")
          /\ UNCHANGED <<wake, result>>
  /\ UNCHANGED <<posted, kicks, stopVars, loop>>

\* Faulty variant: down alone ends run(), whatever is pending.
AfterNoDrain ==
  /\ CASE down                  -> Return("after", "ok")
       [] Pending = {} /\ ~down -> Goto("after", "idle") /\ UNCHANGED <<wake, state, result>>
       [] OTHER                 -> Goto("after", "select") /\ Create /\ UNCHANGED <<state, result>>
  /\ UNCHANGED <<posted, kicks, stopVars, loop>>

\* Between the inner loop and select!.
After ==
  /\ CASE Pending = {} /\ down  -> Goto("after", "drain") /\ UNCHANGED wake
       [] Pending = {} /\ ~down -> Goto("after", "idle") /\ UNCHANGED wake
       [] OTHER                 -> Goto("after", "select") /\ Create
  /\ UNCHANGED <<posted, state, kicks, stopVars, loop, result>>

\* select!: the branch of wake.notified().
SelectWake ==
  /\ \/ Goto("select", "select") /\ Enlist /\ UNCHANGED scan_queues
     \/ Goto("select", "idle") /\ Complete /\ scan_queues' = TRUE
  /\ UNCHANGED <<posted, state, kicks, stopVars, next_queue, tries, result>>

\* select!: pending.next() polls a future for the first time.  execute checks
\* down, takes every lease and spawns the worker, or the future is an error.
PollStart(r) ==
  /\ state[r] = "queued"
  /\ \/ /\ down \/ revoked \/ r \in Faulty
        /\ Return("select", "err")
     \/ /\ ~down /\ ~revoked
        /\ Goto("select", "select")
        /\ Move(r, "running")
        /\ UNCHANGED <<wake, result>>
  /\ UNCHANGED <<posted, kicks, stopVars, loop>>

\* select!: pending.next() yields the result of a worker.
PollDone(r) ==
  /\ \/ /\ state[r] = "failed"
        /\ Return("select", "err")
     \/ /\ state[r] = "done"
        /\ Goto("select", "complete")
        /\ Move(r, "completing")
        /\ Discard
        /\ UNCHANGED result
  /\ UNCHANGED <<posted, kicks, stopVars, loop>>

\* A completion is dropped once down is set.
Completion ==
  /\ IF down
     THEN /\ Goto("complete", "idle")
          /\ \E r \in In("completing") : Move(r, "lost")
     ELSE Goto("complete", "publish") /\ UNCHANGED state
  /\ UNCHANGED <<posted, kicks, stopVars, wake, loop, result>>

\* complete_work: the used ring, unless the generation is revoked.
Publish ==
  /\ \E r \in In("completing") :
       IF revoked
       THEN Return("publish", "err")
       ELSE /\ Goto("publish", "notify")
            /\ Move(r, "answered")
            /\ UNCHANGED <<wake, result>>
  /\ UNCHANGED <<posted, kicks, stopVars, loop>>

\* Faulty variant: the queues are not scanned after a completion.
InterruptNoRescan ==
  /\ Goto("notify", "idle")
  /\ UNCHANGED <<posted, state, kicks, stopVars, wake, loop, result>>

\* complete_work: the interrupt, which the transport may refuse; then the
\* queues are scanned again.
Interrupt ==
  /\ \/ /\ Goto("notify", "idle")
        /\ scan_queues' = TRUE
        /\ UNCHANGED <<state, wake, result>>
     \/ /\ Faulty # {}
        /\ Return("notify", "err")
        /\ UNCHANGED scan_queues
  /\ UNCHANGED <<posted, kicks, stopVars, next_queue, tries>>

\* wait_for_drain() and Ok(()).
Drain ==
  /\ LeasesHeld = {}
  /\ Return("drain", "ok")
  /\ UNCHANGED <<posted, kicks, stopVars, loop>>

-----------------------------------------------------------------------------
Poll(r) == PollStart(r) \/ PollDone(r)

Run ==
  \/ Idle \/ Subscribe \/ Recheck \/ Await \/ Scan \/ Take \/ Parse \/ After
  \/ SelectWake \/ (\E r \in Requests : Poll(r))
  \/ Completion \/ Publish \/ Interrupt \/ Drain

Next ==
  \/ \E r \in Requests : Post(r) \/ Collect(r) \/ WorkerEnds(r)
  \/ Kick
  \/ StopDown \/ StopRevoke \/ StopNotify
  \/ Run

Spec == Init /\ [][Next]_vars

(***************************************************************************)
(* Fairness.  The task of run() is polled when it can run; the I/O of a    *)
(* worker ends; a driver that published kicks; a stop() that began ends.   *)
(* select! starts with a random branch and FuturesUnordered polls its      *)
(* ready futures first in, first out, so no ready future is passed over    *)
(* for ever.  Nothing makes the driver post or the transport stop.         *)
(***************************************************************************)
Fairness ==
  /\ WF_vars(Run)
  /\ \A r \in Requests : SF_vars(Poll(r)) /\ WF_vars(WorkerEnds(r))
  /\ WF_vars(Kick)
  /\ WF_vars(StopRevoke) /\ WF_vars(StopNotify)

FairSpec == Spec /\ Fairness

-----------------------------------------------------------------------------
(* Properties.                                                             *)

Returned == pc = "returned"

\* run() answers Ok only when the device is down, no worker is left and no
\* lease is out: the mapping may then be reclaimed.
OkIsQuiet == result = "ok" => down /\ LeasesHeld = {}

\* No more workers than maximum_inflight are out, those that outlive a failed
\* run() included.
WorkersBounded == Cardinality(LeasesHeld) <= MaximumInflight

\* A published request is answered, whatever the moment of the kick and
\* whatever the other queues do, unless the device goes down or run() fails:
\* no request is out for ever, and only an answer brings it back.
PostedIsAnswered ==
  \A r \in Requests : []<>(state[r] \in {"free", "answered"} \/ down \/ Returned)

\* After stop() has begun run() returns, wherever the loop was (down is never
\* cleared and run() does not start again).
StopEndsRun == []<>(down => Returned)

\* After stop() the transport awaits run() "before reclaiming the DMA mapping":
\* no worker may then still hold a lease on it.
StoppedIsQuiet == stopping = "stopped" /\ Returned => LeasesHeld = {}
=============================================================================
