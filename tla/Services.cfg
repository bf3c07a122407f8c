SPECIFICATION Spec
CONSTANTS
  a1 = a1
  a2 = a2
  b1 = b1
  b2 = b2
  Post = {a1, a2}
  Reply = {"r"}
  Variant = {b1, b2}
  NoVariant = NoVariant
  Windows = {1}
  MaxAge = 1
  MaxQueue = 1
  SpamPause = 2
  FailedPause = 1
  MaxFaults = 2
  Ref = {a1, a2}
  Wallet = {"w"}
  None = None
  Handler = {b1, b2}
  TopRefs = 1
  RecentRefs = 1
  MaxRequests = 3
  Requester = {"q1", "q2"}
  Buckets = {"challenge", "claim"}
  LimitOf <- Limits
  RateWindow = 1
  MaxEntries = 3
  MaxCut = 2
  Servers = {a1, a2}
  Requests = {b1, b2}
  MaxStarts = 3
  MaxStops = 2
  MaxBlock = 4
  Message = {1, 2, 3}
  Sender <- MCSender
  Recipient <- MCRecipient
  EpochOf <- MCEpoch
  Chunks <- MCChunks
  Epoch = {1, 2}
  AllEpochs = 0
  Attempts = 2
  BatchSize = 2
  Worker = {b1, b2}
INVARIANTS
  TypesOK
  UsageIsOfGrantee
  WindowLimit
  BridgeIsSound
  ReportIsTrue
PROPERTIES
  RotationIsSound
  ReportAddsUp
SYMMETRY Symmetry

CHECK_DEADLOCK FALSE
