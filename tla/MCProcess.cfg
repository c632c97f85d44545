\* Two runs and a caller of Enqueue, two offers that share both items, room for one.
SPECIFICATION FairSpec
CONSTANTS
    o1 = o1
    o2 = o2
    NoOffer = NoOffer
    Runs = {r1, r2}
    Callers = {c1}
    Capacity = 1
    Offers = {o1, o2}
    Items <- TwoItems
    Asset <- TwoAsset
    Give <- TwoGive
    Receive <- TwoReceive
INVARIANTS LocksOwned OfferInOnePlace NoOrphan
PROPERTIES ImplementsAssetUse OffersLeave
\* All goroutines end when the context is cancelled.
CHECK_DEADLOCK FALSE
