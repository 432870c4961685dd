CONSTANTS
    Attacks <- MCAttacks
    Sorties <- MCSorties
    Platform <- MCPlatform
    PlatformType <- MCPlatformType
    Weapon <- MCWeapon
    Inventory <- MCInventory
    Side <- MCSide
    Baseline <- MCBaseline
    AllowedPaths <- MCAllowedPaths
    Replies <- MCReplies
    Plans <- MCPlans
    MaxRevision = 2
    MaxFaults = 2
    Repaired = {1}
    CallBudget = 24
SPECIFICATION Spec
INVARIANTS
    TypeOK
    FrozenSetSound
PROPERTY RevisionsImmutable
CHECK_DEADLOCK FALSE
