SPECIFICATION Spec
CONSTANTS
    Run = {r1, r2}
    Coding = {w1}
    Generic = {}
    Caller = {k1}
    Deployer = {d1}
    Operator = operator
    None = None
    MaxEvents = 4
    MaxCrashes = 1
INVARIANTS OneWriter QuietCutover JournalValidates
PROPERTY EndedLeaseIsReleased
CHECK_DEADLOCK FALSE
