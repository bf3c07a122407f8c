\* Two wallets and installs, three claims of which two are kept, and a node
\* whose errors say nothing about the transfer.
SPECIFICATION Spec
CONSTANTS
  Wallets = {w1, w2}
  Installs = {i1, i2}
  Requesters = {r1}
  ChallengeTtl = 1
  MaxOutstanding = 1
  RejectLimit = 2
  RejectWindow = 0
  MaxStoredChallenges = 2
  MaxStoredClaims = 2
  Amount = 2
  Gas = 1
  InitialBalance = 3
  ErrorsAreFinal = FALSE
  MaxChallenges = 2
  MaxClaims = 3
  MaxClock = 1
  MaxBalance = 6
SYMMETRY Symmetry
INVARIANTS
  TypeOK
  OneLiveClaim
  OneTransferPerClaim
  ClaimedIsPaid
  OneTimeGrantUnlessForgotten
  FundingIsPending
  OneOpenChallenge
  LimitsHold
