\* A table that keeps one claim record, where the code keeps 2000.
SPECIFICATION Spec
CONSTANTS
  Wallets = {w1, w2}
  Installs = {i1, i2}
  Requesters = {r1}
  ChallengeTtl = 1
  MaxOutstanding = 1
  RejectLimit = 2
  RejectWindow = 1
  MaxStoredChallenges = 2
  MaxStoredClaims = 1
  Amount = 1
  Gas = 1
  InitialBalance = 3
  ErrorsAreFinal = TRUE
  MaxChallenges = 2
  MaxClaims = 3
  MaxClock = 1
  MaxBalance = 4
SYMMETRY Symmetry
INVARIANTS
  OneTimeGrant
