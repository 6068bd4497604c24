\* One account: three codes of two guesses each, two mails in a window.
SPECIFICATION Spec
CONSTANTS
    r1 = r1
    r2 = r2
    None = None
    Requests = {r1, r2}
    Ttl = 2
    MaxAttempts = 2
    Cooldown = 1
    Window = 3
    MaxSends = 2
    MaxCodes = 3
    MaxTime = 4
SYMMETRY Interchangeable
INVARIANTS
    GuessesBounded
    FreshCodeStays
    SendsLimited
CHECK_DEADLOCK FALSE
