SPECIFICATION FairSpec
CONSTANTS
    Seids = {s1}
    UrrIds = {u, v}
    Periods = {p1, p2}
    EvtCap = 6
    SrCap = 1
    MaxCalls = 3
    MaxPending = 1
    Never = Never
    Gone = Gone
INVARIANTS MeasurementAgrees TickersMatch CrashOnlyAfterReturn
PROPERTY RemovalTakesEffect
PROPERTY ShutdownCompletes
