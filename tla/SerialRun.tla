------------------------------ MODULE SerialRun -----------------------------
(***************************************************************************)
(* The devices that serve one chain at a time: console (src/src/console.rs),*)
(* memory (src/src/memory.rs) and rng (src/src/rng.rs).  Their run() loops *)
(* are the same; the console alone has a receive queue.  A request here is *)
(* a chain of the console's transmit queue, or of the only queue of the    *)
(* other two, which have Buffers = 0.                                      *)
(*                                                                         *)
(* pop and complete are single steps (VirtQueue has their inside).  No     *)
(* lease outlives a step, so the drain is over when it is asked for.       *)
(***************************************************************************)
EXTENDS Integers, Sequences

CONSTANTS
  Requests,
  Faulty,       \* requests that run() may fail on, as malformed or refused
  Buffers,      \* receive chains the driver has
  MaxInput      \* bound on the console input the backend holds

ASSUME SerialAssumption ==
  /\ Faulty \subseteq Requests
  /\ Buffers \in Nat
  /\ MaxInput \in Nat

VARIABLES
  posted,       \* the available chains not popped
  state,        \* where each request is
  buffers,      \* available receive chains
  filled,       \* receive chains used and not collected
  input,        \* input the backend holds
  kicks,        \* a kick() is owed for what was published or has come in
  down, closed, revoked,
  stopping,     \* where stop() is
  permit, waiter,     \* wake: Notify
  pc, result,   \* run()
  fault         \* a chain was malformed, or the backend or transport refused

wake == <<permit, waiter>>
stopVars == <<down, closed, revoked, stopping>>
receive == <<buffers, filled, input>>
vars == <<posted, state, receive, kicks, stopVars, wake, pc, result, fault>>

INSTANCE Notify

TypeOK ==
  /\ posted \in Seq(Requests)
  /\ state \in [Requests -> {"free", "posted", "popped", "read", "applied",
                             "answered", "lost"}]
  /\ {buffers, filled} \subseteq 0..Buffers /\ buffers + filled <= Buffers
  /\ input \in 0..MaxInput
  /\ {kicks, down, closed, revoked, fault} \subseteq BOOLEAN
  /\ stopping \in {"no", "down", "closed", "revoked", "stopped"}
  /\ NotifyType
  /\ pc \in {"subscribe", "check", "await", "recheck", "transmit", "read", "apply",
             "complete", "notify", "receive", "popRx", "readRx", "completeRx",
             "notifyRx", "drain", "returned"}
  /\ result \in {"none", "ok", "err"}

Init ==
  /\ posted = <<>>
  /\ state = [r \in Requests |-> "free"]
  /\ buffers = 0 /\ filled = 0 /\ input = 0
  /\ kicks = FALSE
  /\ down = FALSE /\ closed = FALSE /\ revoked = FALSE
  /\ stopping = "no"
  /\ NotifyInit
  /\ pc = "subscribe"
  /\ result = "none"
  /\ fault = FALSE

Goto(from, to) == pc = from /\ pc' = to
Move(r, to) == state' = [state EXCEPT ![r] = to]

-----------------------------------------------------------------------------
(* The driver, the host side of the console and the transport, external.   *)

Post(r) ==
  /\ state[r] = "free"
  /\ Move(r, "posted")
  /\ posted' = Append(posted, r)
  /\ kicks' = TRUE
  /\ UNCHANGED <<receive, stopVars, wake, pc, result, fault>>

Collect(r) ==
  /\ state[r] = "answered"
  /\ Move(r, "free")
  /\ UNCHANGED <<posted, receive, kicks, stopVars, wake, pc, result, fault>>

\* The receive chain run() has popped and not completed.
Held == IF pc \in {"readRx", "completeRx"} THEN 1 ELSE 0

PostBuffer ==
  /\ buffers + filled + Held < Buffers
  /\ buffers' = buffers + 1
  /\ kicks' = TRUE
  /\ UNCHANGED <<posted, state, filled, input, stopVars, wake, pc, result, fault>>

CollectBuffer ==
  /\ filled > 0
  /\ filled' = filled - 1
  /\ UNCHANGED <<posted, state, buffers, input, kicks, stopVars, wake, pc, result, fault>>

Input ==
  /\ Buffers > 0 /\ input < MaxInput /\ ~closed
  /\ input' = input + 1
  /\ kicks' = TRUE
  /\ UNCHANGED <<posted, state, buffers, filled, stopVars, wake, pc, result, fault>>

\* kick()
Kick ==
  /\ kicks
  /\ kicks' = FALSE
  /\ NotifyOne
  /\ UNCHANGED <<posted, state, receive, stopVars, pc, result, fault>>

\* stop(), statement by statement.  Only the reason SurpriseRemoval closes the
\* backend, and rng has none.
StopDown ==
  /\ stopping = "no"
  /\ stopping' = "down"
  /\ down' = TRUE
  /\ UNCHANGED <<posted, state, receive, kicks, closed, revoked, wake, pc, result, fault>>

StopClose ==
  /\ stopping = "down"
  /\ stopping' = "closed"
  /\ \/ closed' = TRUE /\ input' = 0
     \/ UNCHANGED <<closed, input>>
  /\ UNCHANGED <<posted, state, buffers, filled, kicks, down, revoked, wake, pc, result,
                 fault>>

StopRevoke ==
  /\ stopping = "closed"
  /\ stopping' = "revoked"
  /\ revoked' = TRUE
  /\ UNCHANGED <<posted, state, receive, kicks, down, closed, wake, pc, result, fault>>

StopNotify ==
  /\ stopping = "revoked"
  /\ stopping' = "stopped"
  /\ NotifyAll
  /\ UNCHANGED <<posted, state, receive, kicks, down, closed, revoked, pc, result, fault>>

-----------------------------------------------------------------------------
(* run().                                                                  *)

Fail(from) ==
  /\ Goto(from, "returned")
  /\ result' = "err"

Subscribe ==
  /\ Goto("subscribe", "check")
  /\ Create
  /\ UNCHANGED <<posted, state, receive, kicks, stopVars, result, fault>>

\* Faulty variant: down is not read before the wait.
CheckNothing ==
  /\ Goto("check", "await")
  /\ UNCHANGED <<posted, state, receive, kicks, stopVars, wake, result, fault>>

\* down is read once the future exists.
Check ==
  /\ IF down
     THEN Goto("check", "drain") /\ Discard
     ELSE Goto("check", "await") /\ UNCHANGED wake
  /\ UNCHANGED <<posted, state, receive, kicks, stopVars, result, fault>>

Await ==
  /\ \/ Goto("await", "await") /\ Enlist
     \/ Goto("await", "recheck") /\ Complete
  /\ UNCHANGED <<posted, state, receive, kicks, stopVars, result, fault>>

Recheck ==
  /\ Goto("recheck", IF down THEN "drain" ELSE "transmit")
  /\ UNCHANGED <<posted, state, receive, kicks, stopVars, wake, result, fault>>

\* The pop of process_transmit, process_request or process_queue.  An empty
\* queue ends the first while loop.
PopTransmit ==
  /\ CASE revoked         -> Fail("transmit") /\ UNCHANGED <<posted, state>>
       [] ~revoked /\ posted = <<>> ->
            Goto("transmit", "receive") /\ UNCHANGED <<posted, state, result>>
       [] OTHER           -> /\ Goto("transmit", "read")
                             /\ Move(Head(posted), "popped")
                             /\ posted' = Tail(posted)
                             /\ UNCHANGED result
  /\ UNCHANGED <<receive, kicks, stopVars, wake, fault>>

\* read_chain, parse_request or fill_chain.
ReadChain ==
  \E r \in {q \in Requests : state[q] = "popped"} :
    /\ \/ /\ revoked \/ r \in Faulty
          /\ Fail("read")
          /\ Move(r, "lost")
          /\ fault' = (fault \/ ~revoked)
       \/ /\ ~revoked
          /\ Goto("read", "apply")
          /\ Move(r, "read")
          /\ UNCHANGED <<result, fault>>
    /\ UNCHANGED <<posted, receive, kicks, stopVars, wake>>

\* backend.write_output() or backend.handle(), awaited; nothing for rng.
Apply ==
  \E r \in {q \in Requests : state[q] = "read"} :
    /\ \/ /\ closed \/ r \in Faulty
          /\ Fail("apply")
          /\ Move(r, "lost")
          /\ fault' = (fault \/ ~closed)
       \/ /\ Goto("apply", "complete")
          /\ Move(r, "applied")
          /\ UNCHANGED <<result, fault>>
    /\ UNCHANGED <<posted, receive, kicks, stopVars, wake>>

\* write_response of memory, and complete.
CompleteTransmit ==
  \E r \in {q \in Requests : state[q] = "applied"} :
    /\ IF revoked
       THEN Fail("complete") /\ Move(r, "lost")
       ELSE Goto("complete", "notify") /\ Move(r, "answered") /\ UNCHANGED result
    /\ UNCHANGED <<posted, receive, kicks, stopVars, wake, fault>>

\* Faulty variant: one chain is served for each wakeup.
NotifyTransmitOnce ==
  /\ Goto("notify", "receive")
  /\ UNCHANGED <<posted, state, receive, kicks, stopVars, wake, result, fault>>

\* The interrupt, which the transport may refuse; then the loop goes round.
NotifyTransmit ==
  /\ \/ Goto("notify", "transmit") /\ UNCHANGED <<result, fault>>
     \/ Faulty # {} /\ Fail("notify") /\ fault' = TRUE
  /\ UNCHANGED <<posted, state, receive, kicks, stopVars, wake>>

-----------------------------------------------------------------------------
(* process_receive of the console; the others have no input and pass.      *)

\* Faulty variant: the backend is not asked first.
HasInputUnasked ==
  /\ Goto("receive", "popRx")
  /\ UNCHANGED <<posted, state, receive, kicks, stopVars, wake, result, fault>>

HasInput ==
  /\ Goto("receive", IF input = 0 THEN "subscribe" ELSE "popRx")
  /\ UNCHANGED <<posted, state, receive, kicks, stopVars, wake, result, fault>>

PopReceive ==
  /\ CASE revoked     -> Fail("popRx") /\ UNCHANGED buffers
       [] ~revoked /\ buffers = 0 ->
            Goto("popRx", "subscribe") /\ UNCHANGED <<buffers, result>>
       [] OTHER       -> /\ Goto("popRx", "readRx")
                         /\ buffers' = buffers - 1
                         /\ UNCHANGED result
  /\ UNCHANGED <<posted, state, filled, input, kicks, stopVars, wake, fault>>

\* writable_capacity and backend.read_input(): as much as fits the chain, or
\* None, which is an error.  The chain may be malformed.
ReadInput ==
  /\ \/ /\ input = 0
        /\ Fail("readRx")
        /\ UNCHANGED <<input, fault>>
     \/ /\ Faulty # {}
        /\ Fail("readRx")
        /\ fault' = TRUE
        /\ UNCHANGED input
     \/ /\ \E n \in 1..input : input' = input - n
        /\ Goto("readRx", "completeRx")
        /\ UNCHANGED <<result, fault>>
  /\ UNCHANGED <<posted, state, buffers, filled, kicks, stopVars, wake>>

\* Faulty variant: the chain is answered twice.
CompleteReceiveTwice ==
  /\ IF revoked
     THEN Fail("completeRx") /\ UNCHANGED filled
     ELSE Goto("completeRx", "notifyRx") /\ filled' = filled + 2 /\ UNCHANGED result
  /\ UNCHANGED <<posted, state, buffers, input, kicks, stopVars, wake, fault>>

\* write_chain and complete.
CompleteReceive ==
  /\ IF revoked
     THEN Fail("completeRx") /\ UNCHANGED filled
     ELSE Goto("completeRx", "notifyRx") /\ filled' = filled + 1 /\ UNCHANGED result
  /\ UNCHANGED <<posted, state, buffers, input, kicks, stopVars, wake, fault>>

\* Faulty variant: one receive chain is filled for each wakeup.
NotifyReceiveOnce ==
  /\ Goto("notifyRx", "subscribe")
  /\ UNCHANGED <<posted, state, receive, kicks, stopVars, wake, result, fault>>

NotifyReceive ==
  /\ \/ Goto("notifyRx", "receive") /\ UNCHANGED <<result, fault>>
     \/ Faulty # {} /\ Fail("notifyRx") /\ fault' = TRUE
  /\ UNCHANGED <<posted, state, receive, kicks, stopVars, wake>>

\* wait_for_drain() and Ok(()).
Drain ==
  /\ Goto("drain", "returned")
  /\ result' = "ok"
  /\ UNCHANGED <<posted, state, receive, kicks, stopVars, wake, fault>>

-----------------------------------------------------------------------------
Run ==
  \/ Subscribe \/ Check \/ Await \/ Recheck
  \/ PopTransmit \/ ReadChain \/ Apply \/ CompleteTransmit \/ NotifyTransmit
  \/ HasInput \/ PopReceive \/ ReadInput \/ CompleteReceive \/ NotifyReceive
  \/ Drain

Next ==
  \/ \E r \in Requests : Post(r) \/ Collect(r)
  \/ PostBuffer \/ CollectBuffer \/ Input
  \/ Kick
  \/ StopDown \/ StopClose \/ StopRevoke \/ StopNotify
  \/ Run

Spec == Init /\ [][Next]_vars

(***************************************************************************)
(* Fairness.  The task of run() is polled when it can run and the backend  *)
(* finishes what it is asked; who published, or brought input, kicks; a    *)
(* stop() that began ends.  Nothing makes anyone publish or stop.          *)
(***************************************************************************)
Fairness ==
  /\ WF_vars(Run)
  /\ WF_vars(Kick)
  /\ WF_vars(StopClose) /\ WF_vars(StopRevoke) /\ WF_vars(StopNotify)

FairSpec == Spec /\ Fairness

-----------------------------------------------------------------------------
(* Properties.                                                             *)

Returned == pc = "returned"

\* A published chain is answered, although kicks that come while run() is busy
\* leave one permit between them, unless the device goes down or fails.  A
\* console serves input as long as there is some: input must pause at last.
PostedIsAnswered ==
  <>[](input = 0) =>
    \A r \in Requests :
      state[r] = "posted" ~> (state[r] = "answered" \/ down \/ Returned)

\* Once the transmit queue, which is served first, stays empty, console input
\* that waits while there is a receive chain for it gets a chain completed.
InputIsDelivered ==
  <>[](posted = <<>>) =>
    (input > 0 /\ buffers > 0) ~> (pc = "notifyRx" \/ down \/ Returned)

\* After stop() has begun run() returns, wherever the loop was.
StopEndsRun == down ~> Returned

\* run() fails only after stop() has begun or because something outside the
\* device was at fault: what it checked before an await, the input of the
\* console above all, still holds when it is used.
FailureHasCause == result = "err" => down \/ fault
=============================================================================
