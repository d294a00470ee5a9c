SPECIFICATION ReportSpec
CONSTANTS
  HalfLen = 2
  OverrunLimit = 2
  W = 16
  MaxHalves = 6
  ReportCommands = {"on", "off", "grab"}
INVARIANTS
  HalvesToldOnce
