\* Three threads that update, one transport that subscribes, three updates.
SPECIFICATION Spec
CONSTANTS
  Updaters = {u1, u2, u3}
  Candidates <- MCCandidates
  Initial <- MCInitial
  MaxUpdates = 3
INVARIANTS TypeOK SubscriberIsCurrent
CHECK_DEADLOCK FALSE
