SPECIFICATION Spec
CONSTANTS
  GenerationCount = 2
  Processes = {p1, p2}
  Free = Free
  Clients = {c1, c2}
  UnfinishedOutcomes = {"paused"}
  OperatorUnlocks = TRUE
  MaxFaults = 0
  MaxCrashes = 1
  MaxCommands = 1
  MaxEpochs = 2
SYMMETRY Symmetry
INVARIANTS TypeOK CompletedGenerationsBacked GenerationsInOrder CmoExclusive
           SingleScheduler AggregationAfterAllGenerations
CHECK_DEADLOCK FALSE
