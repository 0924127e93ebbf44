SPECIFICATION Spec
CONSTANTS
    Callers = {h1}
    Configs = {a, b}
    Resync = Resync
    NoConfig = NoConfig
    None = None
    Ids = {1, 2, 3, 4, 5, 6, 7, 8}
    MaxCalls = 2
    MaxFaults = 2
    MaxEvents = 3
SYMMETRY Symmetry
INVARIANTS
    SettledInSync
    TestPulsesOnce
VIEW View
