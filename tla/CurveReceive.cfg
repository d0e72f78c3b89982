SPECIFICATION Spec
CONSTANTS
    Sends = {}
    MaxConns = 2
    MaxCalls = 0
    MaxFrames = 2
INVARIANTS
    AcceptedInOrder
    FreshFramePasses
PROPERTY KeepsTheChannel
CHECK_DEADLOCK FALSE
