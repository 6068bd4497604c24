\* One application, its creator, a second student and the landlord.
SPECIFICATION Spec
CONSTANTS
    s1 = s1
    s2 = s2
    w1 = w1
    l1 = l1
    a1 = a1
    c1 = c1
    r1 = r1
    r2 = r2
    Unborn = Unborn
    Gone = Gone
    None = None
    Students = {s1, s2}
    Owners = {s1}
    Landlords = {w1}
    Listings = {l1}
    LandlordOf <- OneLandlord
    AppIds = {a1}
    ConvIds = {c1}
    Requests = {r1, r2}
    MaxInvites = 2
    MayDie = TRUE
SYMMETRY Interchangeable
INVARIANTS
    TypeOK
    OwnerStays
    AccessIsEarned
    MembershipAgrees
    SentReachesLandlord
PROPERTIES
    StageNeverFallsBack
    ImplementsLifecycle
CHECK_DEADLOCK FALSE
