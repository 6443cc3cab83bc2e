SPECIFICATION FairSpec
CONSTANTS
  Worker = {w1, w2}
  NoWorker = NoWorker
  MaxTroubles = 1
  Mishaps = {"asker dies", "released dies", "quit races"}
INVARIANTS  NoStrayHeadless
PROPERTIES ServiceResumes LatchClears
