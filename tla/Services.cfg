SPECIFICATION FairSpec
CONSTANTS
    None = None
    h1 = h1
    h2 = h2
    s1 = s1
    p1 = p1
    p2 = p2
    PutThreads <- MCPutThreads
    Configs <- MCConfigs
    VioThreads <- MCVioThreads
    VioValues <- MCVioValues
    Cams <- MCCams
    Clients <- MCClients
    Streams <- MCStreams
    LogClients <- MCLogClients
    Peers <- MCPeers
    InboxCap = 2
    MaxPuts = 2
    MaxEvents = 1
    MaxGap = 1
    Window = 2
    VioTime = 3
    MaxSeconds = 1
    VioCalls = 2
    MaxJobs = 2
    MaxCalls = 5
    Span = 2
    Enough = 2
    MaxSessions = 2
    MaxSamples = 3
    LogCalls = 4
    KeyInterval = 2
    MaxEncoding = 1
INVARIANTS
    TypeOK
    
    OneJobOneRecording
    ResultsReachCameras
PROPERTIES
    EpochPerFilter
    EverybodyReturns
CHECK_DEADLOCK FALSE
