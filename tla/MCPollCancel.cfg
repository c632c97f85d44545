\* A tick is longer than a poll, the overlap and the age for forgetting; the steps
\* of the Canceller may take any time.
SPECIFICATION Spec
CONSTANTS
    Offers = {o1, o2}
    Sent = {o1, o2}
    Loops = {l1}
    MaxTime = 2
    MaxPoll = 0
    Slack = 0
    Window = 48
    GCAge = 0
    CancelTime = 1
    CancelCount = 2
    MinAge = 0
    MaxRestarts = 0
INVARIANT EachAnnouncedOnce
PROPERTY OldestCancelledFirst
SYMMETRY Symmetry
CHECK_DEADLOCK FALSE
