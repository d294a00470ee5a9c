SPECIFICATION MCSpec
CONSTANTS
  MaxSlips = 1
  MaxTyped = 2
  BufFirst = 10
  Tables <- MCTables
  Halves = {1, 2}
  Lengths = {2}
  Rates = {1, 2}
  Spans <- MCSpans
  Users = {"core", "chain", "bench"}
CHECK_DEADLOCK FALSE
INVARIANTS
  WindowCovers
  DrivenDacStill
  GeneratorWhole
  StreamAsSetUp
  BootAfterChain
  MeasuredAsClaimed
  ChosenRatePassed
