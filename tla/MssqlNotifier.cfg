SPECIFICATION FairSpec
CONSTANTS
    Notifiers = {n1, n2}
    MaxChanges = 1
    MaxCalls = 6
    MaxFaults = 2
INVARIANT Accounted
INVARIANT StoppedMeansSilent
INVARIANT TriggerHasTarget
PROPERTY RemovalComplete
PROPERTY StopReturns
PROPERTY EventuallyReceived
CHECK_DEADLOCK FALSE
