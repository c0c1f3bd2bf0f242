------------------------------ MODULE DmaGuard ------------------------------
(***************************************************************************)
(* What a generation of DMA mappings promises the embedding transport: an  *)
(* access is admitted only while the generation is open, closing it is     *)
(* final, and the mapping goes away only when the generation is closed and *)
(* every admitted access has ended.  DmaMemory implements this with an     *)
(* atomic flag, an atomic counter and a Notify.                            *)
(***************************************************************************)
CONSTANT Threads

VARIABLES
  open,      \* the generation admits new accesses
  holders,   \* the threads with an admitted access
  mapped     \* the guest memory is still mapped in the host

vars == <<open, holders, mapped>>

Init ==
  /\ open = TRUE
  /\ holders = {}
  /\ mapped = TRUE

Admit(t) ==
  /\ open
  /\ t \notin holders
  /\ holders' = holders \cup {t}
  /\ UNCHANGED <<open, mapped>>

Release(t) ==
  /\ t \in holders
  /\ holders' = holders \ {t}
  /\ UNCHANGED <<open, mapped>>

Close ==
  /\ open' = FALSE
  /\ UNCHANGED <<holders, mapped>>

Remove ==
  /\ ~open
  /\ holders = {}
  /\ mapped' = FALSE
  /\ UNCHANGED <<open, holders>>

Next ==
  \/ \E t \in Threads : Admit(t) \/ Release(t)
  \/ Close
  \/ Remove

Spec == Init /\ [][Next]_vars
=============================================================================
