------------------------ MODULE MC_MemoryConfigState ------------------------
(* MemoryConfigState with three valid configurations and three invalid     *)
(* ones: an unaligned size, too much plugged, too much requested.          *)
EXTENDS MemoryConfigState

Config(block, plugged, requested) ==
  [block_size |-> block, region_size |-> 4, usable_region_size |-> 2,
   plugged_size |-> plugged, requested_size |-> requested]

MCInitial == Config(2, 0, 0)
MCCandidates ==
  {Config(2, 0, 2), Config(2, 2, 2), Config(2, 2, 0)}
    \cup {Config(2, 1, 0), Config(2, 4, 0), Config(2, 0, 4)}
=============================================================================
