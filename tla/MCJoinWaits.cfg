SPECIFICATION Spec
CONSTANTS
    Main = main
    Spawned = {t1, t2}
    Result = {a, b}
    NoValues = NoValues
    NoThread = NoThread
PROPERTY JoinWaits
\* Every thread has returned and nothing is left to join.
CHECK_DEADLOCK FALSE
