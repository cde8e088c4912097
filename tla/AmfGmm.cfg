SPECIFICATION FairSpec
CONSTANTS
    TimerIds = {t1, t2}
    MaxRetry = 1
    MaxReleases = 2
    AfterRace = FALSE
    None = None
INVARIANTS TimersReachable RemovedForGood AnswersFindTheirData
PROPERTIES RegisteredSecured ProcedureEnds
CHECK_DEADLOCK FALSE
