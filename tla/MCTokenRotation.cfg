SPECIFICATION Spec
CONSTANTS
  NumAccounts = 2
  Worker = {w1, w2}
  MaxIssues = 2
  MaxTroubles = 1
  MaxQueue = 1
  Mishaps = {}
SYMMETRY Ids
INVARIANTS TypeOK NoTokenLost HolderIsCurrent 
