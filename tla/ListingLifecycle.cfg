\* One listing, two requests at a time, one student, one socket.
SPECIFICATION Spec
CONSTANTS
    r1 = r1
    r2 = r2
    s1 = s1
    None = None
    Requests = {r1, r2}
    Students = {s1}
INVARIANTS
    TypeOK
    PublishedIsLocated
    ShownIsFinished
    ViewAgrees
PROPERTIES
    StaleDropped
    TimersGo
CHECK_DEADLOCK FALSE
