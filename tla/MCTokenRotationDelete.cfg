SPECIFICATION Spec
CONSTANTS
  NumAccounts = 2
  Worker = {w1}
  MaxIssues = 1
  MaxTroubles = 0
  MaxQueue = 1
  Mishaps = {"delete"}
INVARIANTS NoTokenLost
