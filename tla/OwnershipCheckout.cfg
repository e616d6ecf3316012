SPECIFICATION Spec
CONSTANTS
    d1 = d1
    d2 = d2
    Driver = {d1, d2}
    Admin = {}
    Mortal = {}
    Purpose = {"implement"}
    Kinds = {"external"}
    Checkout = {w1, w2}
    NoCheckout = NoCheckout
    Modes = {TRUE}
    MaxClaims = 3
    MaxFence = 3
    MaxAttempts = 3
    MaxHandoffs = 0
INVARIANTS NoSharedCheckout
CHECK_DEADLOCK FALSE
