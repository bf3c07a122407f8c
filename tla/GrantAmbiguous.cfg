\* A node that may report an error for a transfer it still delivers.
SPECIFICATION Spec
CONSTANTS
  Wallets = {w1, w2}
  Installs = {i1, i2}
  Requesters = {r1}
  ChallengeTtl = 1
  MaxOutstanding = 1
  RejectLimit = 2
  RejectWindow = 1
  MaxStoredChallenges = 2
  MaxStoredClaims = 3
  Amount = 1
  Gas = 1
  InitialBalance = 3
  ErrorsAreFinal = FALSE
  MaxChallenges = 2
  MaxClaims = 3
  MaxClock = 1
  MaxBalance = 4
SYMMETRY Symmetry
INVARIANTS
  OneTimeGrant
