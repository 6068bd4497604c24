\* Concurrent and retried creates, deletes and re-creates of one student.
SPECIFICATION Spec
CONSTANTS
    s1 = s1
    w1 = w1
    l1 = l1
    a1 = a1
    a2 = a2
    a3 = a3
    c1 = c1
    c2 = c2
    c3 = c3
    r1 = r1
    r2 = r2
    r3 = r3
    Unborn = Unborn
    Gone = Gone
    None = None
    Students = {s1}
    Owners = {s1}
    Landlords = {w1}
    Listings = {l1}
    LandlordOf <- OneLandlord
    AppIds = {a1, a2, a3}
    ConvIds = {c1, c2, c3}
    Requests = {r1, r2, r3}
    MaxInvites = 0
    MayDie = TRUE
SYMMETRY Interchangeable
INVARIANTS
    OneApplicationPerKey
    ConversationsIntact
    NoStrayConversation
CHECK_DEADLOCK FALSE
