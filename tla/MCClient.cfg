CONSTANTS
    Modules = {m1}
    Late = {d1}
    Runs = {r1}
    Logins = {l1}
    Reconnects = {k1}
    Closer = c1
SPECIFICATION FairSpec
INVARIANTS
    StartedIsStopped
    AuthedAfterStart
    NobodyMissesAuth
    RefreshLoopLives
PROPERTIES
    CloseReturns
CHECK_DEADLOCK FALSE
