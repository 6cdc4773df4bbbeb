SPECIFICATION Spec
CONSTANTS
    Savers = {s1, s2}
    MaxSaves = 2
    MaxFaults = 2
INVARIANT NumbersUnique
INVARIANT DenseWhenQuiet
INVARIANT StreamsBounded
INVARIANT TwoMeansStored
PROPERTY SnapshotNotOutdated
CHECK_DEADLOCK FALSE
