SPECIFICATION Spec
CONSTANTS
  Worker = {w1, w2, w3}
  NoWorker = NoWorker
  MaxTroubles = 2
  Mishaps = {}
SYMMETRY Ids
INVARIANTS TypeOK SingleWriter SingleAcceptor ReleasedMeansQuiet MasterListensOnlyInGaps Supervised
PROPERTIES ImplementsBaton
