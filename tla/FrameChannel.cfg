SPECIFICATION FairSpec
CONSTANTS
    Slots = {s1, s2, s3}
    Consumers = {c1}
    Producer = Producer
    Channel = Channel
    NoFrame = NoFrame
    MaxPublish = 3
INVARIANTS
    TypeOK
    RefcountExact
    PoolExact
    HeldFrameStable
    NeverStale
    PoolSuffices
    NoLostWakeup
PROPERTIES
    ImplementsRegister
    NewFrameSeen
    DetachReturns
