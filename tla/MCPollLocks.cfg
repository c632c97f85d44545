SPECIFICATION Spec
CONSTANTS
    Offers = {o1}
    Sent = {o1}
    Loops = {l1, l2}
    MaxTime = 2
    MaxPoll = 1
    Slack = 1
    Window = 48
    GCAge = 1
    CancelTime = 0
    CancelCount = 1
    MinAge = 0
    MaxRestarts = 0
INVARIANT NoLockCycle
SYMMETRY Symmetry
CHECK_DEADLOCK FALSE
