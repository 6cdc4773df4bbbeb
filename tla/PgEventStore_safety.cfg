SPECIFICATION Spec
CONSTANTS
    Sessions = {s1, s2}
    Streams = {1, 2}
    Conns = {c1, c2}
    NoConn = NoConn
    MaxAppends = 2
    MaxFails = 2
    MaxFaults = 1
    MaxSeq = 6
SYMMETRY Symmetry
INVARIANT VersionsContiguous
INVARIANT SeqFollowsVersion
INVARIANT NothingLost
INVARIANT BoundedCopies
PROPERTY ImplementsEventLog
CHECK_DEADLOCK FALSE
