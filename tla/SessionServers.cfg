SPECIFICATION Spec
CONSTANTS
    Users = {u1, u2}
    Sessions = {s1, s2}
    Others = {s2}
    Lifetime = 0
    Second = 2
    MaxTime = 2
    MaxFrames = 2
    MaxPublished = 1
INVARIANT TypeOK
INVARIANT MessagesWhole
INVARIANT OnlyToSession
PROPERTY AllOfSession
PROPERTY StrangersLeave
CHECK_DEADLOCK FALSE
