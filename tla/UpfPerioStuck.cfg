SPECIFICATION FairSpec
CONSTANTS
    Seids = {s1}
    UrrIds = {u}
    Periods = {p1, p2}
    EvtCap = 1
    SrCap = 1
    MaxCalls = 2
    MaxPending = 1
    Never = Never
    Gone = Gone
PROPERTY ShutdownCompletes
CHECK_DEADLOCK FALSE
