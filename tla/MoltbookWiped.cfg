SPECIFICATION Spec
CONSTANTS
  Writes = {w1, w2}
  Votes = {v1}
  MaxAttempts = 2
  Lease = 3
  RetryBase = 1
  RetryMax = 2
  StartDelays = {1, 2}
  Cooldown = 1
  MaxJobs = 2
  Overdue = 0
  MaxMisses = 3
  MaxPending = 2
  Slots = 2
  MaxCrashes = 1
  MaxBoard = 2
  Faults = {"down"}
SYMMETRY Symmetry
INVARIANT
  NothingForgotten
