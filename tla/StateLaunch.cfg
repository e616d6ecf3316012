SPECIFICATION FairSpec
CONSTANTS
    Caller = {c1, c2}
    SchedulerOwned = TRUE
    Gated = TRUE
    MaxRuns = 2
    MaxCrashes = 1
INVARIANTS
    RefusedIntentHasNoEffects
    OneDispatcher
    RunsArePrepared
PROPERTY
    PublishedLaunchIsBound
