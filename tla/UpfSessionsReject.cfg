SPECIFICATION Spec
CONSTANTS
    NodeIDs = {smf1, smf2}
    RSeids = {1, 2}
    Nodes = {n1, n2}
    MaxSess = 2
    MaxReqs = 1
    Nil = Nil
    None = None
PROPERTIES
    RejectedSessionDeleted
CHECK_DEADLOCK FALSE
