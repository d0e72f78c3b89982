SPECIFICATION Spec
CONSTANTS
    t1 = t1
    t2 = t2
    NoAddr = ""
    Addrs = {"10.0.0.1"}
    Ops <- BothOps
    Topics = {t1, t2}
    Cut <- CutNothing
    MaxSubTopics = 1
    Timeout = 0
    ReconnectInterval = 1
    WifiBackoffMax = 1
    CurveBackoffMax = 1
    LinkCheck = 0
    PubRefresh = 0
    SubSilence = 1
    Modulus = 16
SYMMETRY TopicSymmetry
INVARIANT SubscriptionsReplayed
PROPERTY JoinsAreSpaced
