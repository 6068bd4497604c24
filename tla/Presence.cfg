\* Three sockets of one user, clients that may be late, a process that may die.
SPECIFICATION Spec
CONSTANTS
    s1 = s1
    s2 = s2
    s3 = s3
    Absent = Absent
    Sockets = {s1, s2, s3}
    Punctual = FALSE
    MayDie = TRUE
INVARIANTS
    TypeOK
    NeverOvercounts
PROPERTIES
    KeyGoes
    LastEventIsOffline
CHECK_DEADLOCK FALSE
