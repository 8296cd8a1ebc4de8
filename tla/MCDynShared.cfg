SPECIFICATION OneSpec
CONSTANTS
    Winder = {w1, w2}
    Handler = {h}
    Port = {}
    Tag = {}
    Cont = {k}
    Delim = {}
    None = None
    MaxFrames = 4
    MaxNest = 0
    MaxPrompts = 0
    Shared = TRUE
    ThunkAborts = FALSE
    PromptWinder = {}
    PromptTag = {}
CONSTRAINT HandlersInExtents
PROPERTIES JumpArrives
