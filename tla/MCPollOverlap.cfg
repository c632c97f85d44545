SPECIFICATION FairSpec
CONSTANTS
    Offers = {o1}
    Sent = {}
    Loops = {l1, l2}
    MaxTime = 3
    MaxPoll = 1
    Slack = 1
    Window = 48
    GCAge = 1
    CancelTime = 0
    CancelCount = 0
    MinAge = 0
    MaxRestarts = 0
INVARIANTS AnnouncedOnce PollingHasLoop
PROPERTY ActiveIsAnnounced
CHECK_DEADLOCK FALSE
