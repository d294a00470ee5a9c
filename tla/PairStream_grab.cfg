SPECIFICATION FairSpec
CONSTANTS
  W = 5
  MaxLag = 1
  MaxLate = 1
  WaitHalves = 4
  OverrunLimit = 2
  Commands = {"on", "off", "grab"}
  TimelyIsr = TRUE
  TimelyService = TRUE
  Lossy = FALSE
INVARIANTS
  PairStill
  IInv
PROPERTIES
  NoFalseTimeout
  GrabIsSnapshot
  EveryHalfServed
  GrabEnds
