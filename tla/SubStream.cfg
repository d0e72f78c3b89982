SPECIFICATION FairSpec
CONSTANTS
    Messages <- AllMessages
    Slow = TRUE
    MaxWire = 2
    Nothing = Nothing
    Noise = Noise
INVARIANT TypeOK
PROPERTY KeepsTheQueue DeliversTheQueue
