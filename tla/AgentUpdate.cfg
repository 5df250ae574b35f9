SPECIFICATION FairSpec
CONSTANTS
    FaultModels = {{"drop", "agent_restart", "backend_restart", "checksum", "compose"},
                   {"drop", "supervisor_restart", "inspect", "load", "compose", "rollback"},
                   {"state_dir", "spawn", "compose"}}
    MaxUpdates = 1
    MaxDrops = 2
    MaxLink = 1
CHECK_DEADLOCK FALSE
INVARIANTS TypeOK NeverStranded
PROPERTIES TrackedCompleteIsTrue UpdateEnds SupervisorReturns ImplementsSafeSwap
