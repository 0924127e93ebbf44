SPECIFICATION MCSpec
CONSTANTS
    None = None
    CameraTime = CameraTime
    NoRole = NoRole
    c1 = c1
    c2 = c2
    h1 = h1
    h2 = h2
    s1 = s1
    s2 = s2
    job = job
    n1 = n1
    n2 = n2
    n3 = n3
    g1 = g1
    g2 = g2
    vl = vl
    StampCameras <- MCStampCameras
    Disturbances <- MCDisturbances
    Slots <- MCSlots
    Config <- MCConfig
    Payloads <- MCPayloads
    PutThreads <- MCPutThreads
    Senders <- MCSenders
    Fds <- MCFds
    LayoutIds <- MCLayoutIds
    Cams <- MCCams
    Threads <- MCThreads
    Ids <- MCIds
    CameraClients <- MCCameraClients
    Jobs <- MCJobs
    Patches <- MCPatches
    Serials <- MCSerials
    Names <- MCNames
    Pins <- MCPins
    Roles <- MCRoles
    Groups <- MCGroups
    Clients <- MCClients
    FrameCap = 2
    RingCap = 3
    MaxPulses = 6
    MaxStarts = 3
    Width = 2
    Wrap = 16
    Lead = 1
    RingSize = 3
    MaxLatency = 2
    TimerTime = 18
    TimerCalls = 3
    MaxPayload = 2
    MaxFrames = 3
    MaxDamage = 1
    MinStateDt = 1
    Lag = 3
    TrimMargin = 1
    InitTags = 2
    InitSpan = 2
    VioCap = 3
    CollisionWindow = 2
    CalmPasses = 2
    CollisionLimit = 1
    MaxTime = 5
    MaxEpochs = 2
    MaxPuts = 3
    MaxPackets = 1
    MaxSends = 2
    Seeded = TRUE
    LayoutCalls = 3
    MaxGain = 2
    CameraCalls = 3
    MaxPlugs = 2
    NoPin = 0
    StoreCalls = 3
INVARIANTS
    TypeOK
    StampIsOwnPulse
    PulsesOnGrid
    IntactFramesDelivered
    KeysInGraph
    EachDeltaOnce
    LinkMatchesRow
    SharedFresh
    
    TableRules
    PinSwapsImport
    
PROPERTIES
    PoseTimeAdvances
CHECK_DEADLOCK FALSE
