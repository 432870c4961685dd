SPECIFICATION Spec
CONSTANTS
    c1 = c1
    c2 = c2
    r1 = r1
    r2 = r2
    Callers = {c1, c2}
    Runs = {r1, r2}
    Plans <- MCPlans
    Platforms <- MCPlatforms
    LoadoutOwners <- MCLoadoutOwners
    WeaponName <- MCWeaponName
INVARIANTS
    TypeOK
    AnswersSound
PROPERTY VerdictStable
