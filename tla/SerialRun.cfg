\* The console: two transmit chains, one of which may be malformed or be
\* refused, two receive chains, two units of input.
SPECIFICATION FairSpec
CONSTANTS
  Requests = {r1, r2}
  Faulty = {r2}
  Buffers = 2
  MaxInput = 2
INVARIANTS TypeOK FailureHasCause
PROPERTIES PostedIsAnswered InputIsDelivered StopEndsRun
CHECK_DEADLOCK FALSE
