SPECIFICATION AllSpec
CONSTANTS
    A = A
    B = B
    D = D
    Lib = {A, B, D}
    None = None
    Bridges = {D}
    Disks <- SomeDisks
    Changes <- WellNamedChanges
    MaxEdits = 1
    MaxDepth = 4
    Obj = {1, 2}
    Slot = {"a"}
    Null = Null
    Thread = {t1}
    MaxHandles = 2
    MaxLocks = 1
    MinAllocs = 1
    Concurrent = TRUE
SYMMETRY SwapAB
INVARIANTS Acyclic ReentersByMisnamed OriginsLoaded CountingIsSafe NamesDenote Hygienic MatchIsWhole
PROPERTIES CycleIsReal
\* A library that is loaded again and again ends with the stack of its thread.
CHECK_DEADLOCK FALSE
