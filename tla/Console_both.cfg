SPECIFICATION MCSpec
CONSTANTS
  RingSize = 3
  FifoSize = 2
  N = 5
  Quiet = TRUE
  Failure = "fail"
  RxFifoSize = 2
  HeldMax = 3
  MaxBytes = 7
INVARIANTS
  NoLostWakeup
  MeasuredInQuiet
  ParsedInOrder
  ServiceUndisturbed
PROPERTIES
  CommandKeepsAll
  InOrder
  NoByteStuck
