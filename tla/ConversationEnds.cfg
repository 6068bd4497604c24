\* One socket of a user, one message and one receipt.
SPECIFICATION Spec
CONSTANTS
    u1 = u1
    s1 = s1
    s2 = s2
    m1 = m1
    m2 = m2
    k1 = k1
    Users = {u1}
    Sockets = {s1}
    UserOf <- OneUser
    Messages = {m1}
    Marks = {k1}
    Everything = Everything
    None = None
INVARIANTS
    TypeOK
PROPERTIES
    OnlyMembersWrite
    InvalidDropped
    SendEnds
CHECK_DEADLOCK FALSE
