SPECIFICATION Spec
CONSTANTS
  Worker = {w1, w2}
  NoWorker = NoWorker
  MaxTroubles = 0
  Mishaps = {"released dies"}
INVARIANT PrimaryIsMonitored
