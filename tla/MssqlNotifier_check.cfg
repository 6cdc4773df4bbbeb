SPECIFICATION Spec
CONSTANTS
    Notifiers = {n1}
    MaxChanges = 1
    MaxCalls = 2
    MaxFaults = 0
PROPERTY InstalledOnce
CHECK_DEADLOCK FALSE
