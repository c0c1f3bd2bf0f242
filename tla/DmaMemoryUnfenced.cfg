\* revoke() followed at once by wait_for_drain(), without a barrier.
SPECIFICATION FairSpec
CONSTANTS
  Threads = {t1}
  Drainers = {d1}
  Fence = FALSE
INVARIANT NoLeaseUnmapped
CHECK_DEADLOCK FALSE
