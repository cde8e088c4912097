SPECIFICATION Spec
CONSTANTS
    Sessions = {s1, s2, s3}
    Broadcast = 7
    StaticFirst = 2
    StaticLast = 2
    Duplicates = TRUE
    None = None
PROPERTY
    DuplicateFreeRejected
CHECK_DEADLOCK FALSE
