\* Three goroutines and three assets: every overlap of calls, also the cycle of three.
SPECIFICATION FairSpec
CONSTANTS
    Callers = {c1, c2, c3}
    Assets = {1, 2, 3}
INVARIANTS LocksOwned NoCircularWait
PROPERTIES ImplementsAssetUse LockItemsReturns
