SPECIFICATION Spec
CONSTANTS
    Obj = {1}
    Slot = {"a"}
    Null = Null
    Thread = {t1, t2}
    MayPoint <- AnyToAny
    MaxHandles = 2
    MaxLocks = 1
    MinAllocs = 2
    Concurrent = TRUE
INVARIANT FreedIsGarbage
