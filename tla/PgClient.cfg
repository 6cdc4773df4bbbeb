SPECIFICATION ClientSpec
CONSTANTS
    Clients = {t1, t2, t3}
    Conns = {c1, c2}
    NoConn = NoConn
    Docs = {d}
    Streams = {1}
    MaxIds = 2
    Buffers = 1
    MaxCalls = 3
    MaxFaults = 1
INVARIANT TypeOK
INVARIANT ConnectionsServeCalls
INVARIANT SucceededMeansDone
INVARIANT NoErrorMeansDone
 
PROPERTY EventuallySaved
CHECK_DEADLOCK FALSE
