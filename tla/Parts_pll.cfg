SPECIFICATION MCSpec
CONSTANTS
  Parts = {"clock"}
  Device = "MPS506"
  DmaChannels = 4
  SccpCount = 3
  DacOutputs = 2
  UrefCount = 1
  MaxRoutes = 3
  ChannelBytes = 4
  SampleBytes = 1
  RamBudget = 13
  Paths <- MCPaths
  Plays <- MCPlays
  Rates <- MCRates
  Postdivs <- MCPostdivs
  Ratios = {100, 150, 250, 1000}
  StreamRates = {1, 1000, 40000}
  BoardPll <- MCBoardPll
  Vectors = {1, 9}
  ChainStages = {1, 2}
  WaitLimit = 1
  MaxTraps = 2
  LINE_MAX_LEN = 3
  HISTORY_BYTES = 5
  HISTORY_DEPTH = 2
  Letters = {"a", "SP"}
  Finals = {"A", "B", "C", "D", "F", "H", "~", "P", "CR", "LF"}
  Commands <- MCCommands
  MaxParam = 11
  MaxSubmits = 3
  Filters = {"lp", "hp"}
  Levels = {0, 30, 100}
  Thresholds = {20, 60}
  MaxBlocks = 5
  MaxTyped = 3
  HalfLen = 2
  OverrunLimit = 2
  W = 16
  MaxHalves = 3
  ReportCommands = {"on", "off", "grab", "stream", "clear"}
CHECK_DEADLOCK FALSE
INVARIANTS
  StreamRateTrue
