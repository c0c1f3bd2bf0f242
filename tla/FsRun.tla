-------------------------------- MODULE FsRun -------------------------------
(***************************************************************************)
(* The file system device (src/src/fs.rs): FsDevice::run, whose loop is    *)
(* that of the block device.  What differs is the work.  The request is    *)
(* copied out of guest memory when the chain is taken and the reply is     *)
(* written by run() itself, so a worker holds no lease, and the generation *)
(* matters to take_work and complete_work alone.  FsInodes has what the    *)
(* workers do.                                                             *)
(***************************************************************************)
EXTENDS BlockRun

FsKick == Kick
FsStop == StopDown \/ StopRevoke \/ StopNotify

\* execute_request has a reply for every request, an error reply if need be.
FsWorkerEnds(r) ==
  /\ state[r] = "running"
  /\ Move(r, IF pc = "returned" THEN "lost" ELSE "done")
  /\ UNCHANGED <<posted, kicks, stopVars, wake, pc, loop, result>>

\* take_work up to the pop.
FsTake == Take

\* parse_chain copies the request: without a whole header, or without room for
\* a reply, it is an error of run().
FsParse ==
  /\ \E r \in In("parsing") :
       \/ /\ revoked \/ r \in Faulty
          /\ Return("parse", "err")
       \/ /\ ~revoked
          /\ Goto("parse", "scan")
          /\ Move(r, "queued")
          /\ UNCHANGED <<wake, result>>
  /\ UNCHANGED <<posted, kicks, stopVars, loop>>

\* execute_work, at its first poll: check_live() and the worker is spawned.
FsPollStart(r) ==
  /\ state[r] = "queued"
  /\ \/ down /\ Return("select", "err")
     \/ /\ ~down
        /\ Goto("select", "select")
        /\ Move(r, "running")
        /\ UNCHANGED <<wake, result>>
  /\ UNCHANGED <<posted, kicks, stopVars, loop>>

\* complete_work: write_reply, which fails when the reply does not fit, and the
\* used ring.
FsPublish ==
  /\ \E r \in In("completing") :
       \/ (revoked \/ r \in Faulty) /\ Return("publish", "err")
       \/ /\ ~revoked
          /\ Goto("publish", "notify")
          /\ Move(r, "answered")
          /\ UNCHANGED <<wake, result>>
  /\ UNCHANGED <<posted, kicks, stopVars, loop>>

\* complete_work: the interrupt.
FsInterrupt == Interrupt

\* wait_for_drain() finds nothing out, and Ok(()).
FsDrain ==
  /\ Return("drain", "ok")
  /\ UNCHANGED <<posted, kicks, stopVars, loop>>

FsPoll(r) == FsPollStart(r) \/ PollDone(r)

FsLoop ==
  \/ Idle \/ Subscribe \/ Recheck \/ Await \/ Scan \/ FsTake \/ FsParse \/ After
  \/ SelectWake \/ (\E r \in Requests : FsPoll(r))
  \/ Completion \/ FsPublish \/ FsInterrupt \/ FsDrain

FsNext ==
  \/ \E r \in Requests : Post(r) \/ Collect(r) \/ FsWorkerEnds(r)
  \/ FsKick \/ FsStop
  \/ FsLoop
=============================================================================
