SPECIFICATION Spec
CONSTANTS
    Cams = {1, 2}
    Clients = {h1}
    Streams = {s1}
    MaxJobs = 1
    MaxCalls = 4
    None = None
INVARIANT
    DoneTellsOutcome
CHECK_DEADLOCK FALSE
