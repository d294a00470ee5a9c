SPECIFICATION Spec
CONSTANTS
  W = 5
  MaxLag = 2
  MaxLate = 1
  WaitHalves = 4
  OverrunLimit = 1
  Commands = {"on", "grab"}
  TimelyIsr = FALSE
  TimelyService = FALSE
  Lossy = FALSE
INVARIANTS
  LateOrWhole
  SeqExact
