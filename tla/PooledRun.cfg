\* A block or a file system device with two queues and one request in flight
\* for each; three requests, one of which the device may fail on.
SPECIFICATION FairPooledSpec
CONSTANTS
  r1 = r1
  r2 = r2
  r3 = r3
  Requests = {r1, r2, r3}
  QueueCount = 2
  QueueOf <- MCQueueOf
  PerQueue = 1
  Cap = 64
  Faulty = {r3}
INVARIANTS TypeOK OkIsQuiet WorkersBounded
PROPERTIES PostedIsAnswered StopEndsRun
CHECK_DEADLOCK FALSE
