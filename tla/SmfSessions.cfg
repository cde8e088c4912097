SPECIFICATION FairSpec
CONSTANTS
    Refs = {r1, r2}
    Threads = {c, d}
    Timers = {t}
    MaxCalls = 3
    MaxRetry = 1
    None = None
INVARIANTS FreedOnce ReleaseEnds NoUpfLeak
PROPERTIES AnswerFirst CallsReturn
CHECK_DEADLOCK FALSE
