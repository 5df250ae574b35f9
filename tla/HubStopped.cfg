SPECIFICATION Spec
CONSTANTS
    Agents = {"a1"}
    Scenarios = {"s1"}
    Scopes <- StopScopes
    MaxConns = 2
    MaxRequests = 1
    MaxRows = 1
    MaxLink = 1
CHECK_DEADLOCK FALSE
INVARIANTS
    StoppedNotReplayed
