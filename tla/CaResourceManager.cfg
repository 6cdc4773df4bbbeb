SPECIFICATION Spec
CONSTANTS
    Managers = {m1, m2}
    MaxRows = 2
    MaxCrashes = 1
    MaxCount = 3
 
INVARIANT NothingPassedOver
INVARIANT HandledAgainOnlyAfterCrash
PROPERTY EventuallyHandled
