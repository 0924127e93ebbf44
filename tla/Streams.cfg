SPECIFICATION FairSpec
CONSTANTS
    None = None
    b1 = b1
    b2 = b2
    t1 = t1
    t2 = t2
    p1 = p1
    p2 = p2
    s1 = s1
    s2 = s2
    h1 = h1
    cfg1 = cfg1
    Resync = Resync
    NoConfig = NoConfig
    Slots <- MCSlots
    Releasers <- MCReleasers
    MaxRefs = 2
    MaxImages = 4
    PromptReturn = TRUE
    Publishers <- MCPublishers
    Subscribers <- MCSubscribers
    Capacity <- MCCapacity
    MaxPublish = 3
    MaxPulse = 5
    SideCap = 2
    PairCap = 2
    MaxResets = 1
    NumCams = 2
    QueueCap = 1
    ImuCap = 1
    Budget = 4
    MaxFrames = 2
    MaxSamples = 1
    Callers <- MCCallers
    Configs <- MCConfigs
    Ids <- MCIds
    MaxCalls = 1
    MaxFaults = 1
    MaxEvents = 1
INVARIANTS
    TypeOK
    BuffersSound
    
    QueuesSound
    BagReadable
PROPERTIES
    PopsInOrder
    OkMeansAcked
    Converges
    EverybodyReturns
CHECK_DEADLOCK FALSE
