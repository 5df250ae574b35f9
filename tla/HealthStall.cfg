CONSTANTS
    a1 = a1
    a2 = a2
    s1 = s1
    s2 = s2
    Agents = {a1}
    Scenarios = {s1}
    Scopes <- StallScopes
    MaxHistory = 2
    MaxDeploys = 1
    MaxBacklog = 0
SPECIFICATION FairAgentsSpec
PROPERTIES StallIsNoticed
CHECK_DEADLOCK FALSE
