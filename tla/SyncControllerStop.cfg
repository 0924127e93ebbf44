SPECIFICATION Spec
CONSTANTS
    Callers = {h1}
    Configs = {a}
    Resync = Resync
    NoConfig = NoConfig
    None = None
    Ids = {1, 2, 3, 4, 5, 6, 7, 8}
    MaxCalls = 2
    MaxFaults = 0
    MaxEvents = 2
INVARIANT
    StopLeavesUnarmed
