\* Two callers and the refresh loop, one expiry: one caller reconnects, makes a
\* request or visits the community, the other makes a request or visits it too.
SPECIFICATION FairSpec
CONSTANTS
    Reconnects = {c1}
    Requests = {c1, c2}
    Visits = {c1, c2}
    Ticker = t1
    MaxExpiries = 1
INVARIANTS FlightsHaveLeader RetryIsRenewed
PROPERTIES SessionRecovers CallsReturn
CHECK_DEADLOCK FALSE
