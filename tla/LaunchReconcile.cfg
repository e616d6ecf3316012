SPECIFICATION Spec
CONSTANTS
    Caller = {c1}
    SchedulerOwned = TRUE
    Gated = TRUE
    MaxRuns = 2
    MaxCrashes = 0
INVARIANT
    UnknownLaunchIsReconcilable
