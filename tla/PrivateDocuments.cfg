\* Two students, one listing, one required type of document, and two keys.
SPECIFICATION Spec
CONSTANTS
    s1 = s1
    s2 = s2
    l1 = l1
    t1 = t1
    k0 = k0
    k1 = k1
    r1 = r1
    r2 = r2
    None = None
    Students = {s1, s2}
    Listings = {l1}
    Types = {t1}
    Required = {t1}
    ObjectKeys = {k0, k1}
    ownerIdFromKey <- OneNewKey
    Requests = {r1, r2}
SYMMETRY Interchangeable
INVARIANTS
    OneOfEachType
    RequiredStay
PROPERTIES
    GrantEarned
CHECK_DEADLOCK FALSE
