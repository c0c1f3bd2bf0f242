----------------------------- MODULE PooledProofs ---------------------------
(***************************************************************************)
(* PooledRun for any requests, queues and limits: how many workers are     *)
(* out, what an Ok of run() says, and the types, for the block and the     *)
(* file system device.                                                     *)
(***************************************************************************)
EXTENDS PooledRun, FiniteSetTheorems, TLAPS

InPending == {"queued", "running", "done", "failed"}

\* The limit is not exceeded, and it is not reached while a chain is taken; a
\* drain begins with nothing pending; only the end of run() has a result.
PoolInv ==
  /\ state \in [Requests -> RequestStates]
  /\ down \in BOOLEAN
  /\ Cardinality(Pending) <= MaximumInflight
  /\ pc \in {"take", "parse"} => Cardinality(Pending) < MaximumInflight
  /\ pc = "drain" => down /\ Pending = {}
  /\ result # "none" => pc = "returned"
  /\ OkIsQuiet

\* maximum_inflight is a positive number.
LEMMA LimitIsPositive == MaximumInflight \in Nat \ {0}
<1>1. QueueCount * PerQueue \in Nat \ {0}
  BY BlockAssumption
<1> QED
  BY <1>1, BlockAssumption DEF MaximumInflight, Smaller

\* A smaller set of pending requests has a smaller number of them.
LEMMA PendingCount ==
  /\ IsFiniteSet(Pending) /\ Cardinality(Pending) \in Nat
  /\ \A S \in SUBSET Pending : Cardinality(S) \in Nat /\ Cardinality(S) <= Cardinality(Pending)
<1>1. Pending \subseteq Requests
  BY DEF Pending
<1>2. IsFiniteSet(Pending)
  BY <1>1, BlockAssumption, FS_Subset
<1> QED
  BY <1>2, FS_Subset, FS_CardinalityType

\* One request moves: nothing becomes pending, or holds a lease, that was not.
LEMMA MoveOut ==
  ASSUME state \in [Requests -> RequestStates],
         NEW r, NEW to \in RequestStates, Move(r, to),
         r \in Requests /\ to \in InPending => state[r] \in InPending
  PROVE  /\ state' \in [Requests -> RequestStates]
         /\ Pending' \subseteq Pending
         /\ to # "running" => LeasesHeld' \subseteq LeasesHeld
BY Zenon DEF Move, Pending, LeasesHeld, In, InPending

\* A step that pends nothing keeps the invariant.
LEMMA Keep ==
  ASSUME PoolInv, state' \in [Requests -> RequestStates], down' \in BOOLEAN, down => down',
         Pending' \subseteq Pending, result' = result,
         pc' \in {"take", "parse"} => Cardinality(Pending) < MaximumInflight,
         pc' = "drain" => down' /\ Pending' = {},
         result # "none" => pc' = "returned" /\ LeasesHeld' \subseteq LeasesHeld
  PROVE  PoolInv'
<1>1. Cardinality(Pending') <= Cardinality(Pending) /\ Cardinality(Pending') \in Nat
  BY PendingCount
<1>2. /\ Cardinality(Pending)' <= MaximumInflight
      /\ pc' \in {"take", "parse"} => Cardinality(Pending)' < MaximumInflight
  BY <1>1, PendingCount, LimitIsPositive DEF PoolInv
<1>3. OkIsQuiet'
  BY DEF PoolInv, OkIsQuiet
<1> QED
  BY <1>2, <1>3 DEF PoolInv, MaximumInflight

\* A step that changes neither the requests nor the result.
LEMMA KeepState ==
  ASSUME PoolInv, UNCHANGED <<state, result>>, down' \in BOOLEAN, down => down',
         pc' \in {"take", "parse"} => Cardinality(Pending) < MaximumInflight,
         pc' = "drain" => down' /\ Pending = {},
         result # "none" => pc' = "returned"
  PROVE  PoolInv'
<1>1. Pending' = Pending /\ LeasesHeld' = LeasesHeld /\ state' \in [Requests -> RequestStates]
  BY DEF Pending, LeasesHeld, In, PoolInv
<1> QED
  BY <1>1, Keep

\* The end of run(): Ok is said only after the drain.
LEMMA ReturnInv ==
  ASSUME PoolInv, UNCHANGED down, NEW from, NEW res, from # "returned", Return(from, res),
         res = "ok" => from = "drain"
  PROVE  PoolInv'
<1>1. /\ state' \in [Requests -> RequestStates]
      /\ Pending' \subseteq Pending
      /\ LeasesHeld' = LeasesHeld
  BY DEF Return, PoolInv, RequestStates, Pending, LeasesHeld, In
<1>2. Cardinality(Pending') <= Cardinality(Pending) /\ Cardinality(Pending') \in Nat
  BY <1>1, PendingCount
<1>3. Cardinality(Pending)' <= MaximumInflight
  BY <1>2, PendingCount, LimitIsPositive DEF PoolInv
<1>4. LeasesHeld \subseteq Pending
  BY DEF LeasesHeld, In, Pending
<1>5. OkIsQuiet'
  BY <1>1, <1>4 DEF PoolInv, OkIsQuiet, Return, Goto
<1>6. pc' = "returned"
  BY DEF Return, Goto
<1> QED
  BY <1>1, <1>3, <1>5, <1>6 DEF PoolInv, MaximumInflight

\* The driver, the transport and the workers of either device.
LEMMA PoolOutside ==
  ASSUME PoolInv,
         \/ \E r \in Requests : Post(r) \/ Collect(r) \/ WorkerEnds(r) \/ FsWorkerEnds(r)
         \/ Kick \/ StopDown \/ StopRevoke \/ StopNotify
  PROVE  PoolInv'
<1>1. ASSUME NEW r \in Requests, Post(r) \/ Collect(r) \/ WorkerEnds(r) \/ FsWorkerEnds(r)
      PROVE  PoolInv'
  <2>1. PICK to \in RequestStates \ {"running"} :
          Move(r, to) /\ (to \in InPending => state[r] \in InPending)
    BY <1>1 DEF Post, Collect, WorkerEnds, FsWorkerEnds, RequestStates, InPending
  <2>2. UNCHANGED <<pc, result, down>>
    BY <1>1 DEF Post, Collect, WorkerEnds, FsWorkerEnds, stopVars
  <2>3. /\ state' \in [Requests -> RequestStates]
        /\ Pending' \subseteq Pending /\ LeasesHeld' \subseteq LeasesHeld
    BY <2>1, MoveOut DEF PoolInv
  <2> QED
    BY <2>2, <2>3, Keep DEF PoolInv
<1>2. CASE Kick \/ StopDown \/ StopRevoke \/ StopNotify
  BY Zenon, <1>2, KeepState DEF Kick, StopDown, StopRevoke, StopNotify, stopVars, PoolInv
<1> QED
  BY <1>1, <1>2

\* run() where it neither takes nor ends a request.
LEMMA PoolLoop ==
  ASSUME PoolInv, Idle \/ Subscribe \/ Recheck \/ Await \/ Scan \/ After \/ SelectWake
  PROVE  PoolInv'
BY KeepState DEF Idle, Subscribe, Recheck, Await, Scan, After, SelectWake, Goto, stopVars, PoolInv

\* take_work up to the pop pends nothing.
LEMMA PoolTake == ASSUME PoolInv, Take PROVE PoolInv'
<1>1. CASE tries = QueueCount
  BY <1>1, BlockAssumption, KeepState DEF Take, Goto, stopVars, PoolInv
<1>2. CASE tries # QueueCount /\ revoked
  BY Zenon, <1>2, ReturnInv DEF Take, stopVars
<1>3. CASE tries # QueueCount /\ ~revoked /\ posted[next_queue] = <<>>
  BY <1>3, KeepState DEF Take, Goto, stopVars, PoolInv
<1>4. CASE tries # QueueCount /\ ~revoked /\ posted[next_queue] # <<>>
  <2>1. Move(Head(posted[next_queue]), "parsing") /\ Goto("take", "parse")
        /\ UNCHANGED <<result, down>>
    BY <1>4 DEF Take, stopVars
  <2>2. /\ state' \in [Requests -> RequestStates]
        /\ Pending' \subseteq Pending /\ LeasesHeld' \subseteq LeasesHeld
    BY <2>1, MoveOut DEF PoolInv, RequestStates, InPending
  <2> QED
    BY <2>1, <2>2, Keep DEF PoolInv, Goto
<1> QED
  BY <1>1, <1>2, <1>3, <1>4

\* A parsed request becomes pending, with room for it.
LEMMA PoolParse == ASSUME PoolInv, Parse \/ FsParse PROVE PoolInv'
<1>1. PICK r \in In("parsing") :
        \/ Return("parse", "err")
        \/ Goto("parse", "scan") /\ Move(r, "queued") /\ UNCHANGED result
  BY DEF Parse, FsParse
<1>2. UNCHANGED down
  BY DEF Parse, FsParse, stopVars
<1>3. CASE Return("parse", "err")
  BY <1>2, <1>3, ReturnInv
<1>4. CASE Goto("parse", "scan") /\ Move(r, "queued") /\ UNCHANGED result
  <2>1. r \in Requests
    BY <1>1 DEF In
  <2>2. /\ state' \in [Requests -> RequestStates]
        /\ Pending' = Pending \cup {r} /\ r \notin Pending
        /\ LeasesHeld' \subseteq LeasesHeld
    BY <1>1, <1>4, <2>1 DEF PoolInv, Move, RequestStates, Pending, LeasesHeld, In
  <2>3. Cardinality(Pending') = Cardinality(Pending) + 1
    BY <2>2, PendingCount, FS_AddElement
  <2>4. Cardinality(Pending)' <= MaximumInflight
    BY <1>4, <2>3, PendingCount, LimitIsPositive DEF PoolInv, Goto
  <2> QED
    BY <1>2, <1>4, <2>2, <2>4 DEF PoolInv, OkIsQuiet, Goto, MaximumInflight
<1> QED
  BY <1>1, <1>3, <1>4

\* select! polls a future: a worker starts, ends run(), or is completed.
LEMMA PoolPoll ==
  ASSUME PoolInv, NEW r \in Requests, PollStart(r) \/ FsPollStart(r) \/ PollDone(r)
  PROVE  PoolInv'
<1>1. UNCHANGED down
  BY DEF PollStart, FsPollStart, PollDone, stopVars
<1>2. CASE Return("select", "err")
  BY <1>1, <1>2, ReturnInv
<1>3. CASE \E to \in RequestStates :
             /\ Move(r, to) /\ (to \in InPending => state[r] \in InPending)
             /\ pc = "select" /\ pc' \in {"select", "complete"} /\ UNCHANGED result
  <2>1. /\ state' \in [Requests -> RequestStates]
        /\ Pending' \subseteq Pending
    BY <1>3, MoveOut DEF PoolInv
  <2> QED
    BY <1>1, <1>3, <2>1, Keep DEF PoolInv
<1> QED
  BY <1>2, <1>3 DEF PollStart, FsPollStart, PollDone, Goto, RequestStates, InPending

\* A completion is dropped, published or fails.
LEMMA PoolComplete ==
  ASSUME PoolInv, Completion \/ Publish \/ FsPublish \/ Interrupt
  PROVE  PoolInv'
<1>1. UNCHANGED down
  BY DEF Completion, Publish, FsPublish, Interrupt, stopVars
<1>2. CASE Return("publish", "err") \/ Return("notify", "err")
  BY <1>1, <1>2, ReturnInv
<1>3. CASE \E r \in Requests, to \in {"lost", "answered"} :
             /\ Move(r, to) /\ UNCHANGED result
             /\ pc # "returned" /\ pc' \in {"idle", "notify"}
  <2>1. /\ state' \in [Requests -> RequestStates]
        /\ Pending' \subseteq Pending
    BY <1>3, MoveOut DEF PoolInv, RequestStates, InPending
  <2> QED
    BY <1>1, <1>3, <2>1, Keep DEF PoolInv
<1>4. CASE UNCHANGED <<state, result>> /\ pc # "returned" /\ pc' \in {"idle", "publish"}
  BY <1>1, <1>4, KeepState DEF PoolInv
<1> QED
  BY <1>2, <1>3, <1>4 DEF Completion, Publish, FsPublish, Interrupt, Goto, In

\* run() ends after the drain.
LEMMA PoolDrain == ASSUME PoolInv, Drain \/ FsDrain PROVE PoolInv'
BY ReturnInv DEF Drain, FsDrain, stopVars

\* Nothing is pending at first.
LEMMA PoolInit == PooledInit => PoolInv
<1> SUFFICES ASSUME PooledInit PROVE PoolInv
  OBVIOUS
<1>1. Pending = {} /\ state \in [Requests -> RequestStates]
  BY DEF PooledInit, Init, Pending, RequestStates
<1>2. Cardinality(Pending) <= MaximumInflight
  BY <1>1, FS_EmptySet, LimitIsPositive
<1> QED
  BY Zenon, <1>1, <1>2 DEF PooledInit, Init, PoolInv, OkIsQuiet

\* Every step of either device keeps the invariant.
LEMMA PoolNext == PoolInv /\ [PooledNext]_pooledVars => PoolInv'
<1> SUFFICES ASSUME PoolInv, [PooledNext]_pooledVars PROVE PoolInv'
  OBVIOUS
<1>1. CASE Next
  BY <1>1, PoolOutside, PoolLoop, PoolTake, PoolParse, PoolPoll, PoolComplete, PoolDrain
  DEF Next, Run, Poll
<1>2. CASE FsNext
  BY <1>2, PoolOutside, PoolLoop, PoolTake, PoolParse, PoolPoll, PoolComplete, PoolDrain
  DEF FsNext, FsKick, FsStop, FsLoop, FsTake, FsPoll, FsInterrupt
<1>3. CASE UNCHANGED pooledVars
  BY <1>3, KeepState DEF pooledVars, vars, stopVars, PoolInv
<1> QED
  BY <1>1, <1>2, <1>3 DEF PooledNext

\* run() of the block and of the file system device answers Ok only when the
\* device is down and no worker is out, so that no lease is.
THEOREM OkMeansQuiet == PooledSpec => []OkIsQuiet
<1>1. PoolInv => OkIsQuiet
  BY DEF PoolInv
<1> QED
  BY <1>1, PoolInit, PoolNext, PTL DEF PooledSpec

\* No more workers than maximum_inflight are ever out, for any number of
\* queues and any limits.
THEOREM InflightIsBounded == PooledSpec => []WorkersBounded
<1>1. PoolInv => WorkersBounded
  <2> SUFFICES ASSUME PoolInv PROVE WorkersBounded
    OBVIOUS
  <2>1. LeasesHeld \in SUBSET Pending
    BY DEF LeasesHeld, In, Pending
  <2> QED
    BY <2>1, PendingCount, LimitIsPositive DEF PoolInv, WorkersBounded
<1> QED
  BY <1>1, PoolInit, PoolNext, PTL DEF PooledSpec

-----------------------------------------------------------------------------
(* Types.                                                                  *)

QueueType ==
  /\ posted \in [Queues -> Seq(Requests)]
  /\ next_queue \in Queues /\ tries \in 0..QueueCount

FlagType ==
  /\ kicks \in BOOLEAN /\ down \in BOOLEAN /\ revoked \in BOOLEAN
  /\ scan_queues \in BOOLEAN /\ permit \in BOOLEAN

Places == {"idle", "subscribe", "recheck", "await", "scan", "take", "parse", "after",
           "select", "complete", "publish", "notify", "drain", "returned"}

ControlType ==
  /\ stopping \in {"no", "down", "revoked", "stopped"}
  /\ waiter \in {"none", "created", "waiting", "one", "all"}
  /\ pc \in Places
  /\ result \in {"none", "ok", "err"}

\* The steps that neither the driver nor the transport takes.
Inner ==
  \/ Idle \/ Subscribe \/ Recheck \/ Await \/ Scan \/ Take \/ Parse \/ FsParse \/ After
  \/ SelectWake
  \/ (\E r \in Requests : PollStart(r) \/ FsPollStart(r) \/ PollDone(r))
  \/ Completion \/ Publish \/ FsPublish \/ Interrupt \/ Drain \/ FsDrain

Outer ==
  \/ \E r \in Requests : Post(r) \/ Collect(r) \/ WorkerEnds(r) \/ FsWorkerEnds(r)
  \/ Kick \/ StopDown \/ StopRevoke \/ StopNotify

\* The steps of the two devices.
LEMMA PooledSteps == ASSUME [PooledNext]_pooledVars PROVE Inner \/ Outer \/ UNCHANGED vars
BY DEF PooledNext, pooledVars, Next, Run, Poll, FsNext, FsKick, FsStop, FsLoop, FsTake, FsPoll,
       FsInterrupt, Inner, Outer

\* A chain is put behind the others of its queue and taken from the front; the
\* turn goes round the queues.
LEMMA QueueStep == ASSUME QueueType, Inner \/ Outer \/ UNCHANGED vars PROVE QueueType'
<1> USE BlockAssumption DEF QueueType, Queues
<1>1. ASSUME NEW r \in Requests, Post(r) PROVE QueueType'
  BY <1>1 DEF Post, loop
<1>2. CASE Take
  <2>1. NextTurn(next_queue) \in Queues
    BY DEF NextTurn
  <2>2. next_queue' \in Queues /\ tries' \in 0..QueueCount
    BY <1>2, <2>1 DEF Take
  <2>3. posted' \in [Queues -> Seq(Requests)]
    <3>1. CASE UNCHANGED posted
      BY <3>1
    <3>2. CASE /\ posted[next_queue] # <<>>
               /\ posted' = [posted EXCEPT ![next_queue] = Tail(posted[next_queue])]
      <4>1. Tail(posted[next_queue]) \in Seq(Requests)
        BY <3>2
      <4> QED
        BY <3>2, <4>1
    <3> QED
      BY <1>2, <3>1, <3>2 DEF Take
  <2> QED
    BY <2>2, <2>3
<1>3. CASE UNCHANGED <<posted, next_queue>> /\ tries' \in {tries, 0}
  BY <1>3
<1>4. ASSUME Outer, ~\E r \in Requests : Post(r) PROVE UNCHANGED <<posted, next_queue, tries>>
  BY Zenon, <1>4 DEF Outer, Collect, WorkerEnds, FsWorkerEnds, Kick, StopDown, StopRevoke, StopNotify,
              loop
<1>5. ASSUME Inner, ~Take PROVE UNCHANGED <<posted, next_queue>> /\ tries' \in {tries, 0}
  BY <1>5 DEF Inner, Idle, Subscribe, Recheck, Await, Scan, Parse, FsParse, After, SelectWake,
              PollStart, FsPollStart, PollDone, Completion, Publish, FsPublish, Interrupt,
              Drain, FsDrain, loop
<1> QED
  BY <1>1, <1>2, <1>3, <1>4, <1>5 DEF vars, loop

\* The flags are set and read.
LEMMA FlagStep == ASSUME FlagType, Inner \/ Outer \/ UNCHANGED vars PROVE FlagType'
<1> USE DEF FlagType, stopVars, wake, loop
<1>1. CASE Outer
  BY Zenon, <1>1 DEF Outer, Post, Collect, WorkerEnds, FsWorkerEnds, Kick, StopDown, StopRevoke,
              StopNotify, NotifyOne, NotifyAll
<1>2. ASSUME Inner PROVE UNCHANGED <<kicks, down, revoked>>
  BY <1>2 DEF Inner, Idle, Subscribe, Recheck, Await, Scan, Take, Parse, FsParse, After,
              SelectWake, PollStart, FsPollStart, PollDone, Completion, Publish, FsPublish,
              Interrupt, Drain, FsDrain
<1>3. ASSUME Inner PROVE scan_queues' \in BOOLEAN
  BY Zenon, <1>3 DEF Inner, Idle, Subscribe, Recheck, Await, Scan, Take, Parse, FsParse, After,
              SelectWake, PollStart, FsPollStart, PollDone, Completion, Publish, FsPublish,
              Interrupt, Drain, FsDrain
<1>4. ASSUME Inner PROVE permit' = permit \/ permit' = FALSE \/ Discard
  <2>1. CASE Await \/ SelectWake
    BY <2>1 DEF Await, SelectWake, Enlist, Complete
  <2>2. CASE Subscribe \/ Recheck \/ After
    BY <2>2 DEF Subscribe, Recheck, After, Create
  <2>3. CASE \E r \in Requests : PollStart(r) \/ FsPollStart(r) \/ PollDone(r)
    BY <2>3 DEF PollStart, FsPollStart, PollDone, Return
  <2>4. CASE Take \/ Parse \/ FsParse \/ Publish \/ FsPublish \/ Interrupt \/ Drain \/ FsDrain
    BY <2>4 DEF Take, Parse, FsParse, Publish, FsPublish, Interrupt, Drain, FsDrain, Return
  <2>5. CASE Idle \/ Scan \/ Completion
    BY <2>5 DEF Idle, Scan, Completion
  <2> QED
    BY Zenon, <1>4, <2>1, <2>2, <2>3, <2>4, <2>5 DEF Inner
<1>5. ASSUME Inner PROVE permit' \in BOOLEAN
  <2>1. Discard => permit' \in BOOLEAN
    BY DEF Discard
  <2>2. permit \in BOOLEAN /\ FALSE \in BOOLEAN
    OBVIOUS
  <2> HIDE DEF FlagType
  <2> QED
    BY Zenon, <1>4, <1>5, <2>1, <2>2
<1> QED
  BY <1>1, <1>2, <1>3, <1>5 DEF vars

\* run(), stop() and the future are at one of their places.
LEMMA ControlStep == ASSUME ControlType, Inner \/ Outer \/ UNCHANGED vars PROVE ControlType'
<1> USE DEF ControlType, stopVars, wake, Places
<1>1. CASE Outer
  BY Zenon, <1>1 DEF Outer, Post, Collect, WorkerEnds, FsWorkerEnds, Kick, StopDown, StopRevoke,
              StopNotify, NotifyOne, NotifyAll
<1>2. ASSUME Inner PROVE UNCHANGED stopping
  BY <1>2 DEF Inner, Idle, Subscribe, Recheck, Await, Scan, Take, Parse, FsParse, After,
              SelectWake, PollStart, FsPollStart, PollDone, Completion, Publish, FsPublish,
              Interrupt, Drain, FsDrain
<1>3. ASSUME Inner PROVE pc' \in Places /\ result' \in {result, "ok", "err"}
  BY Zenon, <1>3 DEF Inner, Idle, Subscribe, Recheck, Await, Scan, Take, Parse, FsParse, After,
              SelectWake, PollStart, FsPollStart, PollDone, Completion, Publish, FsPublish,
              Interrupt, Drain, FsDrain, Return, Goto
<1>4. ASSUME Inner PROVE waiter' \in {waiter, "none", "created", "waiting"}
  BY Zenon, <1>4 DEF Inner, Idle, Subscribe, Recheck, Await, Scan, Take, Parse, FsParse, After,
              SelectWake, PollStart, FsPollStart, PollDone, Completion, Publish, FsPublish,
              Interrupt, Drain, FsDrain, Return, Create, Discard, Enlist, Complete
<1> QED
  BY Zenon, <1>1, <1>2, <1>3, <1>4 DEF vars

\* The type theorem: for any number of queues the turn stays one of them and no
\* round visits more than there are, every queue holds requests only, and run()
\* is at one of its places, for both devices.
THEOREM TypeCorrect == PooledSpec => []TypeOK
<1> DEFINE Types == PoolInv /\ QueueType /\ FlagType /\ ControlType
<1>1. PooledInit => Types
  <2> SUFFICES ASSUME PooledInit PROVE Types
    OBVIOUS
  <2>1. QueueType
    BY BlockAssumption DEF PooledInit, Init, QueueType, Queues
  <2>2. FlagType
    BY Zenon DEF PooledInit, Init, FlagType, NotifyInit
  <2>3. ControlType
    BY DEF PooledInit, Init, ControlType, Places, NotifyInit
  <2> QED
    BY <2>1, <2>2, <2>3, PoolInit
<1>2. Types /\ [PooledNext]_pooledVars => Types'
  BY PooledSteps, PoolNext, QueueStep, FlagStep, ControlStep
<1>3. Types => TypeOK
  BY DEF TypeOK, PoolInv, QueueType, FlagType, ControlType, Places, NotifyType
<1> QED
  <2> HIDE DEF Types
  <2> QED
    BY <1>1, <1>2, <1>3, PTL DEF PooledSpec
=============================================================================
