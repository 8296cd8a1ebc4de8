SPECIFICATION AllSpec
CONSTANTS
    Winder = {w1, w2}
    Handler = {h}
    Port = {p}
    Tag = {}
    Cont = {k}
    Delim = {d}
    None = None
    MaxFrames = 3
    MaxNest = 1
    MaxPrompts = 0
    Shared = FALSE
    ThunkAborts = FALSE
    PromptWinder = {w}
    PromptTag = {a, b}
SYMMETRY Symmetry
INVARIANTS ContinuationFits BarriersMatch
PROPERTIES OneExtentAtATime JumpKeepsCommon JumpArrives CaptureStopsAtPrompt
