\* Three leases and two concurrent drains, with the barrier of stop().
SPECIFICATION FairSpec
CONSTANTS
  Threads = {t1, t2, t3}
  Drainers = {d1, d2}
  Fence = TRUE
INVARIANTS TypeOK ActiveCountsHolders NoLeaseUnmapped
PROPERTIES DrainReturns ImplementsGuard
CHECK_DEADLOCK FALSE
