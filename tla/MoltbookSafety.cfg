SPECIFICATION VenueSpec
CONSTANTS
  Parts = {"runtime", "verification", "posts", "comments", "both"}
  Writes = {w1, w2}
  Votes = {v1}
  MaxAttempts = 2
  Lease = 3
  RetryBase = 1
  RetryMax = 2
  StartDelays = {1, 2}
  Cooldown = 1
  MaxJobs = 2
  Overdue = 0
  MaxMisses = 3
  MaxPending = 2
  Slots = 2
  MaxCrashes = 3
  MaxBoard = 2
  Faults = {}
  p1 = p1
  p2 = p2
  p3 = p3
  c1 = c1
  c2 = c2
  c3 = c3
  Posts <- MCPosts
  Comments <- MCComments
  DayLength = 3
  NewUntil = 1
  PostsPerDay <- OneADay
  CommentsPerDay <- OneADay
  PostSpacing <- TwoApart
  CommentSpacing <- OneOrTwo
  QueueLimit = 2
  MaxTime = 4
  MaxLost = 1
  Challenges <- MCChallenges
  Guesses = {800, 900}
  JobAttempts = 2
  MaxLostOutcomes = 1
SYMMETRY BudgetSymmetry
INVARIANTS
  TypesOK
  WritesOnce
  NothingForgotten
  RulesAreRight
  OutcomeIsTrue
  BudgetsAreKept
PROPERTY
  RecordedIsFinal
