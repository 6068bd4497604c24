\* Two sockets of a user, two messages.
SPECIFICATION Spec
CONSTANTS
    u1 = u1
    s1 = s1
    s2 = s2
    m1 = m1
    m2 = m2
    k1 = k1
    Users = {u1}
    Sockets = {s1, s2}
    UserOf <- OneUser
    Messages = {m1, m2}
    Marks = {}
    Everything = Everything
    None = None
SYMMETRY Interchangeable
INVARIANTS
    NoMessageMissed
    LastIsRecent
PROPERTIES
    OnlyEntitledHear
CHECK_DEADLOCK FALSE
