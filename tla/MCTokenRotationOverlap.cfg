SPECIFICATION Spec
CONSTANTS
  NumAccounts = 2
  Worker = {w1, w2}
  MaxIssues = 2
  MaxTroubles = 0
  MaxQueue = 1
  Mishaps = {"overlap"}
INVARIANTS NoTokenLost
