SPECIFICATION Spec
CONSTANTS
    Reqs = {r1, r2}
    RetransTimeout = 2
    MaxRetrans = 1
    PeerTimeout = 2
    PeerRetrans = 1
    Delay = 1
    MaxTime = 7
INVARIANTS
    HandledAtMostOnce
CHECK_DEADLOCK FALSE
