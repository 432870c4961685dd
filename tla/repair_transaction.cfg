SPECIFICATION FairSpec
CONSTANTS
  Files = {f1, f2}
  None = None
  MaxEdits = 2
  MaxFailures = 2
  MaxFaults = 1
  MaxRestores = 1
  MaxCrashes = 2
  MaxCommands = 2
  MaxTotal = 4
INVARIANTS
  TypeOK
  SourceSafe
  UserWorkKept
PROPERTY RepairEnds
CHECK_DEADLOCK FALSE
