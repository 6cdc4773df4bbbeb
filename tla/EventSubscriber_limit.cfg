SPECIFICATION Spec
CONSTANTS
    Instances = {i1}
    Entities = {a}
    Conns = {c1, c2}
    NoConn = NoConn
    Limit = 1
    MaxSeq = 2
    MaxFaults = 0
PROPERTY StartsFromOffset
