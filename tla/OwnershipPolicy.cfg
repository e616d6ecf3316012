SPECIFICATION FairSpec
CONSTANTS
    d1 = d1
    d2 = d2
    Driver = {d1, d2}
    Admin = {d2}
    Mortal = {d2}
    Purpose = {"implement", "review"}
    Kinds = {"skillflow", "external"}
    Checkout = {}
    NoCheckout = NoCheckout
    Modes = {TRUE, FALSE}
    MaxClaims = 2
    MaxFence = 3
    MaxAttempts = 1
    MaxHandoffs = 0
INVARIANTS TypeOK BoundClaimsEndWithAttempt
PROPERTIES EndedClaimsStayEnded GoneDriverFreesNode
CHECK_DEADLOCK FALSE
