SPECIFICATION Spec
CONSTANTS
  Worker = {w1, w2, w3}
  NoWorker = NoWorker
  MaxTroubles = 0
  Mishaps = {"quit races"}
INVARIANT ReleasedMeansQuiet
