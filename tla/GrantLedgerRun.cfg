\* The service under the two conditions its promise needs: the node's errors
\* are final, and the table keeps every claim.
SPECIFICATION FairSpec
CONSTANTS
  Wallets = {w1, w2}
  Installs = {i1, i2}
  Requesters = {r1}
  ChallengeTtl = 1
  MaxOutstanding = 1
  RejectLimit = 1
  RejectWindow = 0
  MaxStoredChallenges = 2
  MaxStoredClaims = 3
  Amount = 1
  Gas = 1
  InitialBalance = 3
  ErrorsAreFinal = TRUE
  MaxChallenges = 2
  MaxClaims = 3
  MaxClock = 1
  MaxBalance = 4
PROPERTIES
  ImplementsLedger
  QueueDrains
