SPECIFICATION Spec
CONSTANTS
  c1 = c1
  c2 = c2
  p1 = p1
  m1 = m1
  Worlds <- MCWorlds
  Request = {r1, r2}
  Claude = {c1, c2}
  Provider = {p1}
  Mirror = {m1}
  MaxActive = 2
  Bench = 1
  MaxFailed = 2
  MaxQueued = 2
  MaxBytes = 2
  Streams = {r1}
  AllProfile = {r1}
  Siblings <- Pairs
  MaxAttempts = 2
  Window = 2
  HeadSkip = 1
  Repairs = {"effort"}
CHECK_DEADLOCK FALSE
INVARIANTS TypeOK LeasesCounted ProbeIsCarried NoPhantomBytes QueueIsLive
PROPERTIES NoQueueJumping NoReplayAfterBytes NothingSentForTheGone EveryRequestEnds
