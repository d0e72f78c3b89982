SPECIFICATION Spec
CONSTANTS
    Sends = {"json", "blob", "subscribe"}
    MaxConns = 3
    MaxCalls = 3
    MaxFrames = 0
INVARIANTS
    TypeOK
    NoncesGrow
    CleanBetweenCalls
PROPERTY RejectedIsCurrent
CHECK_DEADLOCK FALSE
