SPECIFICATION FairSpec
CONSTANTS
  CandidateCount = 1
  Scores <- TwoScores
  MinimumDelta = 1
  MaxRepairs = 1
  Experiences = {x1}
  None = None
  Host = Host
  NoHost = NoHost
  MaxEpochs = 2
  MaxDisturbances = 2
INVARIANTS
  TypeOK
  GenerationSound
PROPERTIES
  StepsSound
  WorkerConcludes
CHECK_DEADLOCK FALSE
