SPECIFICATION AllSpec
CONSTANTS
    Obj = {1, 2}
    Slot = {"a", "b"}
    Null = Null
    Thread = {t1}
    MayPoint <- AnyCycles
    MaxHandles = 1
    MaxLocks = 1
    MinAllocs = 3
    Concurrent = FALSE
    Node = {1, 2, 3, 4}
    Graphs <- MCGraphs
    K0 = 1
    KB = 3
    A = A
    OtherThread = t2
INVARIANTS NoneStranded ReleasesAreSafe
PROPERTIES CollectReturns GarbageIsFreed ImplementsRefHeap EqualReturnsRight
\* equal? returns.
CHECK_DEADLOCK FALSE
