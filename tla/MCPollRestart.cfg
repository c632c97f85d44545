\* A tick is longer than a poll, the overlap and the age for forgetting.
SPECIFICATION Spec
CONSTANTS
    Offers = {o1, o2}
    Sent = {}
    Loops = {l1}
    MaxTime = 2
    MaxPoll = 0
    Slack = 0
    Window = 48
    GCAge = 0
    CancelTime = 0
    CancelCount = 0
    MinAge = 0
    MaxRestarts = 1
INVARIANTS ChangesStayReachable PublishedIsCurrent
PROPERTY ImplementsOfferStory
SYMMETRY Symmetry
CHECK_DEADLOCK FALSE
