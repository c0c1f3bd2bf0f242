------------------------------ MODULE DmaMemory -----------------------------
(***************************************************************************)
(* The lease protocol of DmaMemory (src/src/dma.rs), one action per atomic *)
(* memory operation.  Threads call lease() and drop the lease; the         *)
(* transport calls revoke(); drainers call wait_for_drain() after it, as   *)
(* its documentation asks (a run() task can drain earlier, between the     *)
(* statements of stop(): BlockRun has that); the transport unmaps once a   *)
(* drainer has returned.                                                   *)
(*                                                                         *)
(* revoke() is a Release store.  It sits in the storing processor's store  *)
(* buffer until FlushRevoke makes it visible.  When Fence holds, the       *)
(* caller executes a full barrier between revoke() and the drain, as one   *)
(* that revokes through DeviceInstance::stop() does, whose                 *)
(* wake.notify_waiters() takes a lock after the store.  Without it,        *)
(* revoke() followed at once by wait_for_drain(), the loads of the drain   *)
(* may precede the store.                                                  *)
(***************************************************************************)
EXTENDS Integers, FiniteSets

CONSTANTS
  Threads,    \* callers of lease(), each with at most one lease at a time
  Drainers,   \* callers of wait_for_drain()
  Fence       \* a barrier separates revoke() from wait_for_drain()

ASSUME ThreadsAssumption == IsFiniteSet(Threads)
ASSUME FenceAssumption == Fence \in BOOLEAN

VARIABLES
  revoked,    \* DmaLeaseState.revoked, as other processors see it
  storing,    \* the store of revoke() is still in the store buffer
  active,     \* DmaLeaseState.active
  pc,         \* where each thread is in lease() or in the life of its lease
  drain,      \* where each drainer is in wait_for_drain()
  notified,   \* the drainer's Notified future: none, armed or fired
  mapped      \* the segments are mapped

vars == <<revoked, storing, active, pc, drain, notified, mapped>>

\* The places between the increment and the decrement of active.
Holding == {"recheck", "translate", "leased", "fail"}

LeaseStates == {"idle", "add", "notify"} \cup Holding
DrainStates == {"idle", "subscribe", "check", "await", "returned"}
NotifiedStates == {"none", "armed", "fired"}

TypeOK ==
  /\ revoked \in BOOLEAN
  /\ storing \in BOOLEAN
  /\ active \in Nat
  /\ pc \in [Threads -> LeaseStates]
  /\ drain \in [Drainers -> DrainStates]
  /\ notified \in [Drainers -> NotifiedStates]
  /\ mapped \in BOOLEAN

Init ==
  /\ revoked = FALSE
  /\ storing = FALSE
  /\ active = 0
  /\ pc = [t \in Threads |-> "idle"]
  /\ drain = [d \in Drainers |-> "idle"]
  /\ notified = [d \in Drainers |-> "none"]
  /\ mapped = TRUE

-----------------------------------------------------------------------------
(* lease() and the life of the lease.                                      *)

Step(t, from, to) ==
  /\ pc[t] = from
  /\ pc' = [pc EXCEPT ![t] = to]

\* The first load of revoked: an error at once, or on to the increment.
LeaseLoad(t) ==
  /\ ~revoked
  /\ Step(t, "idle", "add")
  /\ UNCHANGED <<revoked, storing, active, drain, notified, mapped>>

\* Faulty variant: the hold is taken without being counted.
LeaseAddUncounted(t) ==
  /\ Step(t, "add", "recheck")
  /\ UNCHANGED <<revoked, storing, active, drain, notified, mapped>>

LeaseAdd(t) ==
  /\ Step(t, "add", "recheck")
  /\ active' = active + 1
  /\ UNCHANGED <<revoked, storing, drain, notified, mapped>>

\* Faulty variant: no second load of revoked.
LeaseNoRecheck(t) ==
  /\ Step(t, "recheck", "translate")
  /\ UNCHANGED <<revoked, storing, active, drain, notified, mapped>>

\* The second load of revoked, after the increment.
LeaseRecheck(t) ==
  /\ Step(t, "recheck", IF revoked THEN "fail" ELSE "translate")
  /\ UNCHANGED <<revoked, storing, active, drain, notified, mapped>>

\* translate() finds the parts, or the range is not mapped.
LeaseTranslate(t) ==
  /\ \E to \in {"leased", "fail"} : Step(t, "translate", to)
  /\ UNCHANGED <<revoked, storing, active, drain, notified, mapped>>

\* Faulty variant: the error paths of lease() keep the count.
DropActiveLeaseOnly(t) ==
  /\ \E from \in {"leased", "fail"} :
       /\ Step(t, from, IF from = "leased" /\ active = 1 THEN "notify" ELSE "idle")
       /\ active' = IF from = "leased" THEN active - 1 ELSE active
  /\ UNCHANGED <<revoked, storing, drain, notified, mapped>>

\* fetch_sub: on an error path of lease(), or when the lease is dropped.
DropActive(t) ==
  /\ \E from \in {"leased", "fail"} :
       Step(t, from, IF active = 1 THEN "notify" ELSE "idle")
  /\ active' = active - 1
  /\ UNCHANGED <<revoked, storing, drain, notified, mapped>>

\* Faulty variant: one waiter is notified.
NotifyOneWaiter(t) ==
  /\ Step(t, "notify", "idle")
  /\ \E d \in Drainers :
       /\ notified[d] = "armed" \/ \A e \in Drainers : notified[e] # "armed"
       /\ notified' = [notified EXCEPT ![d] = IF @ = "armed" THEN "fired" ELSE @]
  /\ UNCHANGED <<revoked, storing, active, drain, mapped>>

\* drained.notify_waiters(): every future created so far fires; no permit
\* is kept for later ones.
NotifyWaiters(t) ==
  /\ Step(t, "notify", "idle")
  /\ notified' = [d \in Drainers |->
                    IF notified[d] = "armed" THEN "fired" ELSE notified[d]]
  /\ UNCHANGED <<revoked, storing, active, drain, mapped>>

-----------------------------------------------------------------------------
(* The transport and wait_for_drain().                                     *)

\* The store of revoke() enters the store buffer.
Revoke ==
  /\ ~revoked /\ ~storing
  /\ storing' = TRUE
  /\ UNCHANGED <<revoked, active, pc, drain, notified, mapped>>

\* The store becomes visible to the other processors.
FlushRevoke ==
  /\ storing
  /\ storing' = FALSE
  /\ revoked' = TRUE
  /\ UNCHANGED <<active, pc, drain, notified, mapped>>

\* wait_for_drain() is called after revoke() in program order.
CallDrain(d) ==
  /\ drain[d] = "idle"
  /\ IF Fence THEN revoked ELSE revoked \/ storing
  /\ drain' = [drain EXCEPT ![d] = "subscribe"]
  /\ UNCHANGED <<revoked, storing, active, pc, notified, mapped>>

\* let notified = drained.notified(): created before active is read.
DrainSubscribe(d) ==
  /\ drain[d] = "subscribe"
  /\ drain' = [drain EXCEPT ![d] = "check"]
  /\ notified' = [notified EXCEPT ![d] = "armed"]
  /\ UNCHANGED <<revoked, storing, active, pc, mapped>>

DrainCheck(d) ==
  /\ drain[d] = "check"
  /\ drain' = [drain EXCEPT ![d] = IF active = 0 THEN "returned" ELSE "await"]
  /\ notified' = [notified EXCEPT ![d] = IF active = 0 THEN "none" ELSE @]
  /\ UNCHANGED <<revoked, storing, active, pc, mapped>>

\* notified.await completes; the loop subscribes again.
DrainWake(d) ==
  /\ drain[d] = "await"
  /\ notified[d] = "fired"
  /\ drain' = [drain EXCEPT ![d] = "subscribe"]
  /\ notified' = [notified EXCEPT ![d] = "none"]
  /\ UNCHANGED <<revoked, storing, active, pc, mapped>>

\* The transport removes the mapping after a drain it awaited.  Unmapping is
\* a system call, which no store of the caller outlives in the buffer.
Unmap ==
  /\ mapped
  /\ ~storing
  /\ \E d \in Drainers : drain[d] = "returned"
  /\ mapped' = FALSE
  /\ UNCHANGED <<revoked, storing, active, pc, drain, notified>>

-----------------------------------------------------------------------------
Thread(t) ==
  \/ LeaseLoad(t)
  \/ LeaseAdd(t)
  \/ LeaseRecheck(t)
  \/ LeaseTranslate(t)
  \/ DropActive(t)
  \/ NotifyWaiters(t)

Drainer(d) ==
  \/ CallDrain(d)
  \/ DrainSubscribe(d)
  \/ DrainCheck(d)
  \/ DrainWake(d)

Next ==
  \/ \E t \in Threads : Thread(t)
  \/ Revoke
  \/ FlushRevoke
  \/ \E d \in Drainers : Drainer(d)
  \/ Unmap

Spec == Init /\ [][Next]_vars

(***************************************************************************)
(* Fairness.  A thread inside lease() runs on, and a request that holds a  *)
(* lease ends (file I/O returns); nothing makes a thread ask for a lease   *)
(* or the transport revoke.  A processor drains its store buffer, and a    *)
(* runnable task is polled.                                                *)
(***************************************************************************)
Fairness ==
  /\ \A t \in Threads :
       WF_vars(LeaseAdd(t) \/ LeaseRecheck(t) \/ LeaseTranslate(t)
               \/ DropActive(t) \/ NotifyWaiters(t))
  /\ WF_vars(FlushRevoke)
  /\ \A d \in Drainers : WF_vars(Drainer(d))
  /\ WF_vars(Unmap)

FairSpec == Spec /\ Fairness

-----------------------------------------------------------------------------
(* Properties.                                                             *)

\* The threads whose lease() has passed its second load of revoked: they
\* have, or are about to have, pointers into guest memory.
Admitted == {t \in Threads : pc[t] \in {"translate", "leased"}}

\* active is exactly the number of threads between the fetch_add of lease()
\* and the matching fetch_sub, error paths included: a leaked or a doubled
\* decrement would make wait_for_drain() hang or return early.
ActiveCountsHolders ==
  active = Cardinality({t \in Threads : pc[t] \in Holding})

\* Once the transport has unmapped the segments no thread holds a lease or is
\* still on its way to one: "revocation waits for those leases to drain".
NoLeaseUnmapped == ~mapped => Admitted = {}

\* Every wait_for_drain() returns after a revoke(), whatever leases were out
\* when it was called: the wakeup of the last drop_active() is not lost, and
\* late lease() calls cannot keep the counter up for ever.
DrainReturns ==
  \A d \in Drainers : drain[d] = "subscribe" ~> drain[d] = "returned"

Guard == INSTANCE DmaGuard WITH
  open <- ~revoked,
  holders <- Admitted,
  mapped <- mapped

\* The flag, the counter and the Notify implement the promise of DmaGuard:
\* lease() is admitted at its second load of revoked, revoke() closes the
\* generation when its store becomes visible, and unmapping after a drain
\* finds the generation closed and empty.
ImplementsGuard == Guard!Spec
=============================================================================
