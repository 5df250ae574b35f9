SPECIFICATION FairSpec
CONSTANTS
    Agents = {"a1"}
    Scenarios = {"s1"}
    Scopes <- LiveScopes
    MaxConns = 2
    MaxRequests = 1
    MaxRows = 1
    MaxLink = 1
CHECK_DEADLOCK FALSE
PROPERTIES
    
    QueuedDeployHappens
