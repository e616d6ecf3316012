SPECIFICATION Spec
CONSTANTS
    N = 2
    Tool = {2}
    MaxRetries = 1
    MaxSteps = 3
    MaxCrashes = 1
    MaxCancels = 2
    None = None
INVARIANTS OneEffect StopIsTruthful FailureHasCause
PROPERTY RunEnds
CHECK_DEADLOCK FALSE
