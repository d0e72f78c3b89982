SPECIFICATION Spec
CONSTANTS
    t1 = t1
    t2 = t2
    NoAddr = ""
    Addrs = {"10.0.0.1"}
    Ops <- PublishOps
    Topics = {}
    Cut <- CutNothing
    MaxSubTopics = 0
    Timeout = 1
    ReconnectInterval = 3
    WifiBackoffMax = 5
    CurveBackoffMax = 1
    LinkCheck = 1
    PubRefresh = 2
    SubSilence = 0
    Modulus = 8
INVARIANTS
    TypeOK
    BlackHoleBounded
    NoWriteToClosedLink
    PortsKnown
    
PROPERTY JoinsAreSpaced
