\* A network device with two queue pairs, or a vsock device; one
\* chain on each queue and two on the first transmit queue, one frame for the
\* guest.
SPECIFICATION FairSpec
CONSTANTS
  Pairs = 2
  Depth <- MCDepth
  MaxFrames = 1
  Wrap = 2
  MayFault = TRUE
INVARIANTS TypeOK NoSleepOnKick FailureHasCause
PROPERTIES PublishedIsServed FrameIsDelivered StopEndsRun
CHECK_DEADLOCK FALSE
