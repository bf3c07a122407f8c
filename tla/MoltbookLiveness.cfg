SPECIFICATION FairSpec
CONSTANTS
  Writes = {w1}
  Votes = {v1}
  MaxAttempts = 2
  Lease = 2
  RetryBase = 1
  RetryMax = 1
  StartDelays = {1}
  Cooldown = 1
  MaxJobs = 2
  Overdue = 1
  MaxMisses = 2
  MaxPending = 2
  Slots = 2
  MaxCrashes = 1
  MaxBoard = 2
  Faults = {"lost", "unread", "down"}
PROPERTIES
  WorkSettles
