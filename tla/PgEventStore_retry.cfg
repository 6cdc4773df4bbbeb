SPECIFICATION RetrySpec
CONSTANTS
    Sessions = {s1, s2}
    Streams = {1, 2}
    Conns = {c1, c2}
    NoConn = NoConn
    MaxAppends = 1
    MaxFails = 10
    MaxFaults = 2
    MaxSeq = 20
PROPERTY EventuallyStored
PROPERTY SaveReturns
CHECK_DEADLOCK FALSE
