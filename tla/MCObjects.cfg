SPECIFICATION AllSpec
CONSTANTS
    Obj = {o1, o2, o3}
    Slot = {s}
    Null = Null
    MaxHandles = 2
    t1 = t1
    t2 = t2
    h1 = h1
    h2 = h2
    k1 = k1
    k2 = k2
    k3 = k3
    Threads = {t1, t2}
    Tables = {h1, h2}
    Keys = {k1, k2, k3}
    Values = {x}
    Class <- MCClass
    Hash <- MCHash
    Uses <- MCUses
    Program <- MCProgram
    Default = Default
    Done = Done
    Refused = Refused
    Raised = Raised
    NoAnswer = NoAnswer
    Requesters = {r1, r2}
    Places = 1
    MaxRequests = 2
    None = None
INVARIANTS
    RcExact
    NoDangling
PROPERTIES
    ImplementsMap
    OperationsEnd
    CompilationsReturn
\* A thread whose program is done has no more steps.
CHECK_DEADLOCK FALSE
