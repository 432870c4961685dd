SPECIFICATION Spec
CONSTANTS
  o1 = o1  o2 = o2  r1 = r1  r2 = r2
  Slots <- MCSlots
  Attempts <- MCAttempts
  Runs <- MCRuns
  Limits = {TRUE, FALSE}
  MaxRuns = 1
  Cap = 1
  MaxApprovals = 2
  MaxCommands = 2
  MaxCrashes = 1
SYMMETRY Symmetry
INVARIANTS TypeOK AttemptsAccounted ResumeReports
PROPERTY ApprovalsEnd
CHECK_DEADLOCK FALSE
