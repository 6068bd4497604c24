\* Prompt clients and no crash: a socket opens between DECR and DEL of another.
SPECIFICATION Spec
CONSTANTS
    s1 = s1
    s2 = s2
    s3 = s3
    Absent = Absent
    Sockets = {s1, s2, s3}
    Punctual = TRUE
    MayDie = FALSE
PROPERTIES
    OfflineIsOffline
CHECK_DEADLOCK FALSE
