----------------------------- MODULE MC_PooledRun ---------------------------
(* PooledRun with the requests of MC_BlockRun.                             *)
EXTENDS PooledRun, MC_BlockRun
=============================================================================
