SPECIFICATION Spec
CONSTANTS
    Slots = {s1, s2}
    Threads = {t1}
    MaxRefs = 1
    MaxImages = 3
    None = None
    PromptReturn = FALSE
INVARIANT
    FrameKeepsImage
