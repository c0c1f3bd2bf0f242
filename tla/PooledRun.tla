------------------------------ MODULE PooledRun -----------------------------
(***************************************************************************)
(* The devices that hand their requests to blocking workers: a block       *)
(* device or a file system device, whichever device is.  The properties    *)
(* are those of BlockRun.                                                  *)
(***************************************************************************)
EXTENDS FsRun

VARIABLE device

pooledVars == <<vars, device>>
IsBlock == device = "block"

PooledInit == Init /\ device \in {"block", "fs"}

PooledNext ==
  /\ IF IsBlock THEN Next ELSE FsNext
  /\ UNCHANGED device

PooledSpec == PooledInit /\ [][PooledNext]_pooledVars

Step(ofBlock, ofFs) == (IF IsBlock THEN ofBlock ELSE ofFs) /\ UNCHANGED device

(***************************************************************************)
(* Fairness, as in BlockRun: the task of run() is polled when it can run,  *)
(* no ready future is passed over for ever, workers end, who published     *)
(* kicks, and a stop() that began ends.                                    *)
(***************************************************************************)
PooledFairness ==
  /\ WF_pooledVars(Step(Run, FsLoop))
  /\ \A r \in Requests :
       /\ SF_pooledVars(Step(Poll(r), FsPoll(r)))
       /\ WF_pooledVars(Step(WorkerEnds(r), FsWorkerEnds(r)))
  /\ WF_pooledVars(Kick /\ UNCHANGED device)
  /\ WF_pooledVars((StopRevoke \/ StopNotify) /\ UNCHANGED device)

FairPooledSpec == PooledSpec /\ PooledFairness
=============================================================================
