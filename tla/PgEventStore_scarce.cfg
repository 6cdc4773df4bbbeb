SPECIFICATION Spec
CONSTANTS
    Sessions = {s1, s2}
    Streams = {1, 2}
    Conns = {c1}
    NoConn = NoConn
    MaxAppends = 2
    MaxFails = 2
    MaxFaults = 1
    MaxSeq = 6
SYMMETRY Symmetry
INVARIANT ConnectionsServeCalls
PROPERTY ReturnCodeTruthful
CHECK_DEADLOCK FALSE
