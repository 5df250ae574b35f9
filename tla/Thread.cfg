CONSTANTS
    Scopes <- ThreadScopes
    MaxAge = 4
    MaxCommands = 2
SPECIFICATION FairSpec
INVARIANTS TypeOK ActiveIsTicked ReportFollows KillChainRenders
PROPERTIES ClockForward StopEnds AttackEnds
