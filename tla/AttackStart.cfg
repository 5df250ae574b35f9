CONSTANTS
    Scopes <- StartScopes
    MaxAge = 4
    MaxCommands = 2
SPECIFICATION FairSpec
PROPERTY StartIsHeard
