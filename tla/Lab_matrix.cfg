SPECIFICATION MCSpec
CONSTANTS
  MaxSlips = 0
  MaxTyped = 2
  BufFirst = 10
  Tables <- MCTables
  Halves = {1, 2}
  Lengths = {2}
  Rates = {1, 2}
  Spans <- MCSpans
  Users = {"bench"}
CHECK_DEADLOCK FALSE
INVARIANTS
  BackAtBoot
