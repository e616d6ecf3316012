SPECIFICATION PolledSpec
CONSTANTS
    Writers = {"here", "elsewhere"}
    Limit = 1
    Recovery = TRUE
    WhenIdle = TRUE
    LeaseEvents = TRUE
    Scopes = {{}, {"running"}, {"lapsed"}, {"running", "paused"}}
    MaxEvents = 2
    MaxLost = 2
INVARIANTS
    CursorCoversDelivered
    NoLostWakeup
PROPERTIES
    IdleVerdictIsCurrent
    EveryHitIsDelivered
