SPECIFICATION RedditSpec
CONSTANTS
  w1 = w1
  w2 = w2
  v1 = v1
  Writes = {w1, w2}
  Votes = {v1}
  Thing <- ThingOf
  MaxAttempts = 2
  Lease = 1
  RetryBase = 1
  RetryMax = 1
  StartDelays = {1}
  Cooldown = 1
  Breaker = 2
  MaxJobs = 2
  Overdue = 0
  MaxPerDay = 1
  KillWindow = 3
  Slots = 1
  MaxCrashes = 1
  MaxBoard = 2
  t1 = t1
  t2 = t2
  r1 = r1
  r2 = r2
  Threads = {t1, t2}
  Remarks = {r1, r2}
  ThreadOf <- OneThread
  Length <- OneShort
  MaxOwn = 1
  MaxDiscovery = 1
  MaxSearches = 1
  OwnLimit = 1
  DiscoveryLimit = 1
  MaxTriage = 1
  Ttl = 1
  MaxSeen = 2
  MaxEntries = 1
  MaxDrafts = 1
  MaxWaiting = 1
  MaxRequests = 3
  MaxTries = 2
INVARIANTS
  TypesOK
  OnceUnlessInterrupted
  ReplyLimits
  ScanIsSound
  ReplyIsSound
PROPERTIES
  RecordedIsFinal
