\* Two calls of StartHeartbeat, three connections, two failures drop one.
SPECIFICATION FairSpec
CONSTANTS
    Starts = {s1, s2}
    MaxFailures = 2
    MaxConns = 3
INVARIANTS LiveIsReachable LeftoverIsHarmless
PROPERTIES StallIsNoticed HeartbeatsGoOn CancelledEnds
CHECK_DEADLOCK FALSE
