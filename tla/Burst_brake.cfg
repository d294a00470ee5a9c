SPECIFICATION BurstSpec
CONSTANTS
  MaxSlips = 0
  Pins = {3, 6}
  Samcs = {3}
  Bursts = {2}
  Reference <- MCReference
  OvLimit = 2
  BlockCap = 5
  Half = 1
INVARIANTS
  BufferStands
