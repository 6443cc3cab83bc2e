SPECIFICATION Spec
CONSTANTS
  Worker = {w1, w2, w3}
  NoWorker = NoWorker
  MaxTroubles = 1
  Mishaps = {"asker dies"}
INVARIANT SingleWriter
