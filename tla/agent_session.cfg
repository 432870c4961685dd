SPECIFICATION Spec
CONSTANTS
    s1 = s1
    s2 = s2
    read = read
    list = list
    run = run
    Sessions = {s1, s2}
    Tools = {read, run}
    NeedsApproval = {run}
    RecoveryTools = {list}
    Recent = 2
    Threshold = 8
    Ratios = {2, 8}
    Budget <- MCBudget
INVARIANTS
    TypeOK
    SessionSound
PROPERTY TranscriptsGrow
CHECK_DEADLOCK FALSE
