\* The landlord decides on an application that was not sent.
SPECIFICATION Spec
CONSTANTS
    s1 = s1
    s2 = s2
    w1 = w1
    l1 = l1
    a1 = a1
    c1 = c1
    r1 = r1
    r2 = r2
    Unborn = Unborn
    Gone = Gone
    None = None
    Students = {s1, s2}
    Owners = {s1}
    Landlords = {w1}
    Listings = {l1}
    LandlordOf <- OneLandlord
    AppIds = {a1}
    ConvIds = {c1}
    Requests = {r1, r2}
    MaxInvites = 0
    MayDie = FALSE
PROPERTIES
    NotSentUntilSent
CHECK_DEADLOCK FALSE
