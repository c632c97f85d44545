\* Two users, a second loop that would show a leak, room for one trigger.
SPECIFICATION FairSpec
CONSTANTS
    Users = {u1, u2}
    Loops = {l1, l2}
    Triggers = 1
INVARIANTS LoopBelongs RunningHasLoop
PROPERTIES CallsReturn ConfirmationsAnswered
\* A callback that calls Stop waits for itself.
CHECK_DEADLOCK FALSE
