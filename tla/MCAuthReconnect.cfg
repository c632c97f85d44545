SPECIFICATION FairSpec
CONSTANTS
    a1 = a1
    Attempts = {a1}
    NoAttempt = NoAttempt
    Transports = {"tcp", "ws"}
    MaxDials = 2
PROPERTIES LogonAfterHandshake CallReturns
CHECK_DEADLOCK FALSE
