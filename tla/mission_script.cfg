SPECIFICATION FairSpec
CONSTANTS
    Units <- MCUnits
    Side <- MCSide
    Platform <- MCPlatform
    Home <- MCHome
    Stock <- MCStock
    Scored <- MCScored
    Rank <- MCRank
    Missions <- MCMissions
    Template <- MCTemplate
    Slots <- MCSlots
    Strategies <- MCStrategies
    MaxShip = 2
    MaxLaunch = 3
    MaxAttack = 2
    MaxRefusals = 2
    MaxLosses = 2
INVARIANTS
    TypeOK
    StrikesAsPlanned
PROPERTY AircraftComeHome
CHECK_DEADLOCK FALSE
