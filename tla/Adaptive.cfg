CONSTANTS
    f1 = f1
    f2 = f2
    p1 = p1
    Flows = {f1, f2}
    Protocols = {p1}
    ProtocolOf <- OneProtocol
    Rates = {2, 3}
    Scopes <- AdaptiveScopes
    Ttl = 1
    MaxTime = 4
    MaxSends = 3
SPECIFICATION Spec
INVARIANTS TypeOK ProgressInRange
PROPERTIES EffectIsLive PhaseClock SkipLands
CHECK_DEADLOCK FALSE
