SPECIFICATION Spec
CONSTANTS
    Sends = {"json"}
    MaxConns = 1
    MaxCalls = 2
    MaxFrames = 0
PROPERTY SentMeansWhole
CHECK_DEADLOCK FALSE
