SPECIFICATION ViewSpec
CONSTANTS
  Writes = {w1, w2}
  Votes = {v1}
  MaxAttempts = 2
  Lease = 2
  RetryBase = 1
  RetryMax = 1
  StartDelays = {1}
  Cooldown = 1
  MaxJobs = 2
  Overdue = 0
  MaxMisses = 2
  MaxPending = 1
  Slots = 2
  MaxCrashes = 1
  MaxBoard = 2
  Faults = {"lost", "unseen", "unread", "down", "late", "torn"}
  Offerable = {"post", "reply", "agent1", "agent2"}
  ActionType <- MCActionType
  Asking = {"reply"}
  Wordings = {"x", "x again", "y"}
  Sense <- MCSense
  MaxUpvotes = 1
  MaxFollows = 1
  MaxPost = 2
  MinReply = 1
  MaxReply = 2
  MaxArtifacts = 2
  MaxFingerprints = 2
  MaxBackfill = 1
  MaxPublished = 4
  MaxUnsent = 2
SYMMETRY Symmetry
INVARIANTS
  TypeOK
  WriteAhead
  RecordsAreTrue
  WritingIsSound
