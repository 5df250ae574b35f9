SPECIFICATION Spec
CONSTANTS
    Agents = {"a1"}
    Scenarios = {"s1"}
    Scopes <- SafetyScopes
    MaxConns = 3
    MaxRequests = 1
    MaxRows = 1
    MaxLink = 1
CHECK_DEADLOCK FALSE
INVARIANTS
    TypeOK
    OneReplay
    ReplayOnce
    OfflineIsVisible
