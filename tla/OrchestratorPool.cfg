SPECIFICATION FairSpec
CONSTANTS
    Scenarios = {"s1"}
    MaxContexts = 2
    MaxQueue = 2
INVARIANTS
    TypeOK
    NoOrphanGenerator
    FinishedNotListed
    QuietReport
PROPERTIES
    StopIsHonoured
    DeadIsUnlisted
