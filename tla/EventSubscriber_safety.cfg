SPECIFICATION FairSpec
CONSTANTS
    Instances = {i1, i2}
    Entities = {a, b}
    Conns = {c1}
    NoConn = NoConn
    Limit = 3
    MaxSeq = 3
    MaxFaults = 1
INVARIANT NothingPassed
PROPERTY EventuallySeen
