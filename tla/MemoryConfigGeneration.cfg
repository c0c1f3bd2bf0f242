\* Two threads that update at the same time.
SPECIFICATION Spec
CONSTANTS
  Updaters = {u1, u2}
  Candidates <- MCCandidates
  Initial <- MCInitial
  MaxUpdates = 3
PROPERTY GenerationAdvances
CHECK_DEADLOCK FALSE
