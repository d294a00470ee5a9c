SPECIFICATION Spec
CONSTANTS
  W = 4
  MaxLag = 1
  MaxLate = 1
  WaitHalves = 4
  OverrunLimit = 1
  Commands = {"on", "grab", "sigproc", "clear"}
  TimelyIsr = TRUE
  TimelyService = TRUE
  Lossy = FALSE
INVARIANTS
  PairProcessed
  GapSound
