SPECIFICATION Spec
CONSTANTS
    a1 = a1
    a2 = a2
    Attempts = {a1, a2}
    NoAttempt = NoAttempt
    Transports = {"tcp", "ws"}
    MaxDials = 1
SYMMETRY Symmetry
INVARIANTS InProgressHasOwner LoggedOnHasHeartbeat RetainedDetailsWiped
CHECK_DEADLOCK FALSE
