SPECIFICATION FairSpec
CONSTANTS
  GenerationCount = 1
  Processes = {p1, p2}
  Free = Free
  Clients = {c1}
  UnfinishedOutcomes = {"failed", "paused", "cancelled_incomplete"}
  OperatorUnlocks = TRUE
  MaxFaults = 1
  MaxCrashes = 1
  MaxCommands = 2
  MaxEpochs = 3
PROPERTY SettlesDown
CHECK_DEADLOCK FALSE
