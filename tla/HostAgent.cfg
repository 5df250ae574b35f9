CONSTANTS
    l1 = l1
    l2 = l2
    c1 = c1
    d1 = d1
    d2 = d2
    r1 = r1
    Labs = {l1, l2}
    Cells = {c1}
    Devices = {d1, d2}
    LabOf <- TheLabOf
    Registry <- TheRegistry
    Scopes <- HostScopes
    MaxCellRequests = 2
SPECIFICATION FairSpec
INVARIANTS TypeOK NoOrphans SensorIsTrusted
PROPERTIES AgentRuns LabRuns TeardownHappens
CHECK_DEADLOCK FALSE
