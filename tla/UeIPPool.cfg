SPECIFICATION Spec
CONSTANTS
    Sessions = {s1, s2, s3}
    Broadcast = 7
    StaticFirst = 2
    StaticLast = 2
    Duplicates = FALSE
    None = None
INVARIANTS
    PoolsExact
PROPERTIES
    LazyReuse
    DuplicateFreeRejected
    AbstractSpec
SYMMETRY Symmetry
CHECK_DEADLOCK FALSE
