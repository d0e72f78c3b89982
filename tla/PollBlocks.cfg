SPECIFICATION FairSpec
CONSTANTS
    Messages <- JsonAndBlobs
    Slow = FALSE
    MaxWire = 2
    Nothing = Nothing
    Noise = Noise
PROPERTY PollReturns
CHECK_DEADLOCK FALSE
