\* One account: three sign-ins for an array of two.
SPECIFICATION Spec
CONSTANTS
    i1 = i1
    i2 = i2
    i3 = i3
    r1 = r1
    r2 = r2
    None = None
    SessionIds = {i1, i2, i3}
    MaxSessions = 2
    Requests = {r1, r2}
    MaxEpoch = 2
    MaxTokens = 2
    MaxRotations = 1
SYMMETRY Interchangeable
INVARIANTS
    TypeOK
    AtMostMaxSessions
    TokensRotatedOnce
    TokensConfirmedOnce
    NoSessionOutlivesCredentials
PROPERTIES
    EndedStaysEnded
    ExpiredStaysExpired
CHECK_DEADLOCK FALSE
