\* No request is malformed and no I/O fails: only stop() disturbs run().
SPECIFICATION Spec
CONSTANTS
  r1 = r1
  r2 = r2
  r3 = r3
  Requests = {r1, r2, r3}
  QueueCount = 2
  QueueOf <- MCQueueOf
  PerQueue = 1
  Cap = 64
  Faulty = {}
INVARIANT StoppedIsQuiet
CHECK_DEADLOCK FALSE
