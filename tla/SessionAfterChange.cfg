\* A sign-in that checks the password before it is changed.
SPECIFICATION Spec
CONSTANTS
    i1 = i1
    i2 = i2
    r1 = r1
    r2 = r2
    None = None
    SessionIds = {i1, i2}
    MaxSessions = 2
    Requests = {r1, r2}
    MaxEpoch = 2
    MaxTokens = 1
    MaxRotations = 2
INVARIANTS
    SessionsProveCredentials
CHECK_DEADLOCK FALSE
