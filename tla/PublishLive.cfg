SPECIFICATION FairSpec
CONSTANTS
    t1 = t1
    t2 = t2
    NoAddr = ""
    Addrs = {"10.0.0.1"}
    Ops <- BlobOps
    Topics = {}
    Cut <- CutNothing
    MaxSubTopics = 0
    Timeout = 1
    ReconnectInterval = 1
    WifiBackoffMax = 2
    CurveBackoffMax = 2
    LinkCheck = 1
    PubRefresh = 2
    SubSilence = 0
    Modulus = 16
PROPERTIES
    CallsReturn
    PubRecovers
