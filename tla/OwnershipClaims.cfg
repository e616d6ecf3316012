SPECIFICATION Spec
CONSTANTS
    d1 = d1
    d2 = d2
    Driver = {d1, d2}
    Admin = {}
    Mortal = {}
    Purpose = {"implement"}
    Kinds = {"external"}
    Checkout = {}
    NoCheckout = NoCheckout
    Modes = {TRUE}
    MaxClaims = 3
    MaxFence = 4
    MaxAttempts = 1
    MaxHandoffs = 1
SYMMETRY MCDrivers
INVARIANTS OneExclusiveHolder HolderHasNewestFence OffersAreFenced
CHECK_DEADLOCK FALSE
