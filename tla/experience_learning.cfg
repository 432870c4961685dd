CONSTANTS
    Candidates = {1, 2}
    NoReport = NoReport
    NoScore = NoScore
    None = None
    Rules <- MCRules
    Alike <- MCAlike
    Truths <- MCTruths
    Replies <- MCReplies
    EarlierRecords <- MCEarlierRecords
    MaxTasks = 2
    MaxCrashes = 1
    MaxSnapshots = 2
SPECIFICATION Spec
INVARIANTS
    TypeOK
    KnowledgeSound
PROPERTY RecordsKept
CHECK_DEADLOCK FALSE
