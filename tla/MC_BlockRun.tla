----------------------------- MODULE MC_BlockRun ----------------------------
(* BlockRun with two requests on the first queue and one on the second.    *)
EXTENDS BlockRun, TLC

CONSTANTS r1, r2, r3

MCQueueOf == r1 :> 0 @@ r2 :> 1 @@ r3 :> 0
=============================================================================
