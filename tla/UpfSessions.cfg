SPECIFICATION Spec
CONSTANTS
    NodeIDs = {smf1, smf2}
    RSeids = {1, 2, 3}
    Nodes = {n1, n2}
    MaxSess = 3
    MaxReqs = 1
    Nil = Nil
    None = None
INVARIANTS
    TypeOK
    FreeListExact
    OwnershipAgrees
    SessionsRegistered
PROPERTIES
    SetupClearsSessions
    RejectionHitsOwnSession
CHECK_DEADLOCK FALSE
