CONSTANTS
    a1 = a1
    a2 = a2
    s1 = s1
    s2 = s2
    Agents = {a1, a2}
    Scenarios = {s1, s2}
    Scopes <- HealthScopes
    MaxHistory = 2
    MaxDeploys = 2
    MaxBacklog = 0
SPECIFICATION FairSpec
INVARIANTS TypeOK HealthyIsHonest
PROPERTIES RecoveryRate PassEnds
CHECK_DEADLOCK FALSE
