SPECIFICATION Spec
CONSTANTS
    Ids = {1, 2}
    None = None
    client = client
    client2 = client2
    job = job
    Clients = {client, client2}
    Jobs = {job}
    Patches <- MCPatches
    MaxGain = 2
    MaxCalls = 3
    MaxPlugs = 1
INVARIANT
    ChannelOutlivesConsumers
CHECK_DEADLOCK FALSE
