SPECIFICATION Spec
CONSTANTS
  Calls = {q1, q2}
  MaxRestarts = 2
  Workers = 3
  MaxTokens = 2
  MaxSaves = 1
  TwoMerge = FALSE
  Window = 2
  MaxTime = 4
  MaxServed = 2
  MaxRows = 2
  MaxOutages = 1
  NumLinks = 2
  Logins = {i1}
  SeedTtl = 1
  MaxDays = 3
  MaxChanges = 1
  Providers = {p}
  Subscribed = {o}
  MaxTicks = 1
  Sessions = {s}
  Claude = {a1, a2}
  ThirdParty = {z}
  MaxSessions = 2
  MaxRefusals = 2
  Subscriptions = {c}
  ApiKeys = {k}
  Horizon = 3
  MaxEvents = 2
INVARIANTS
  TypeOK
  NoOrphanedLatch
  NeverOvercounted
  HolderCanSave
  ReleasedIsSaved
  
  
  CountedIsWatched
  SingleWriter
  
  
  
  NoSpin
  HoldIsNotLate
PROPERTIES
  RestartSettles
  
CHECK_DEADLOCK FALSE
