CONSTANTS
    l1 = l1
    l2 = l2
    c1 = c1
    d1 = d1
    d2 = d2
    r1 = r1
    Labs = {l1}
    Cells = {}
    Devices = {}
    LabOf <- TheLabOf
    Registry <- TheRegistry
    Scopes <- CrashScopes
    MaxCellRequests = 0
SPECIFICATION FairSpec
PROPERTIES LostRequestIsHarmless
CHECK_DEADLOCK FALSE
