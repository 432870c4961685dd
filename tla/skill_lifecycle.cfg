SPECIFICATION Spec
CONSTANTS
  e1 = e1  e2 = e2  e3 = e3  e4 = e4  e5 = e5  e6 = e6
  w1 = w1  w2 = w2
  None = None
  Runs <- MCRuns
  Experiences <- MCExperiences
  Record <- MCRecord
  Input <- MCInput
  Excludable = {e1, e4}
  MaxUnused = 0
  MaxVersion = 2
  MaxStarts = 3
  MaxCommands = 2
INVARIANTS
    TypeOK
    ReviewSound
CHECK_DEADLOCK FALSE
