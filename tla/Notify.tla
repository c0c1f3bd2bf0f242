-------------------------------- MODULE Notify ------------------------------
(***************************************************************************)
(* tokio::sync::Notify with one waiting task, as the run() loops use it.   *)
(* External to the crate.  waiter is the Notified future of that task:     *)
(*   none     there is no future                                           *)
(*   created  notified() was called, the future was not polled             *)
(*   waiting  it was polled and is in the list of waiters                  *)
(*   one      notify_one() picked it                                       *)
(*   all      notify_waiters() reached it                                  *)
(***************************************************************************)
VARIABLES
  permit,   \* notify_one() found no waiter: the next poll succeeds
  waiter

NotifyType ==
  /\ permit \in BOOLEAN
  /\ waiter \in {"none", "created", "waiting", "one", "all"}

NotifyInit ==
  /\ permit = FALSE
  /\ waiter = "none"

\* notify_one() wakes a waiter in the list, else leaves one permit.
NotifyOne ==
  IF waiter = "waiting"
  THEN waiter' = "one" /\ UNCHANGED permit
  ELSE permit' = TRUE /\ UNCHANGED waiter

\* notify_waiters() reaches every future created so far and leaves no permit.
NotifyAll ==
  /\ waiter' = IF waiter \in {"created", "waiting"} THEN "all" ELSE waiter
  /\ UNCHANGED permit

Create ==
  /\ waiter' = "created"
  /\ UNCHANGED permit

\* The first poll of a future that no notification reached.
Enlist ==
  /\ waiter = "created" /\ ~permit
  /\ waiter' = "waiting"
  /\ UNCHANGED permit

\* A poll that completes the future, with the permit if it must.
Complete ==
  /\ \/ waiter \in {"one", "all"} /\ UNCHANGED permit
     \/ waiter = "created" /\ permit /\ permit' = FALSE
  /\ waiter' = "none"

\* Dropping a future that notify_one() picked hands the notification on.
Discard ==
  /\ permit' = (permit \/ waiter = "one")
  /\ waiter' = "none"
=============================================================================
