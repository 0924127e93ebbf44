SPECIFICATION Spec
CONSTANTS
    Threads = {h1}
    Values = {1, 2}
    MaxGap = 1
    Window = 2
    MaxTime = 1
    MaxSeconds = 1
    MaxCalls = 2
    None = None
INVARIANT
    ConfigApplied
CHECK_DEADLOCK FALSE
