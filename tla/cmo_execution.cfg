SPECIFICATION FairSpec
CONSTANTS
  Callers = {c}
  Base = Base
  Shared = Shared
  None = None
  Consoles <- TwoConsoles
  MaxRuns = 2
  MaxFaults = 2
  MaxCrashes = 1
INVARIANTS
    TypeOK
    ResultsSound
    ConfigReturned
PROPERTY ExecutionReturns
CHECK_DEADLOCK FALSE
