SPECIFICATION Spec
CONSTANTS
    Owned = {o1}
    Unowned = {u1}
    Context = {x1}
    Request = {q1}
    MaxDecisions = 1
    MaxLaunches = 3
    MaxFaults = 2
INVARIANT OwnedLaunchIsAccounted
PROPERTIES LaunchesAreExclusive CancelledIsFinal FailedContextsNotAdmitted UnownedTicketSettles
CHECK_DEADLOCK FALSE
