SPECIFICATION AllSpec
CONSTANTS
    Main = main
    Spawned = {t1, t2, t3}
    Result = {a, b}
    NoValues = NoValues
    NoThread = NoThread
    CharBytes = 2
    BufferSize = 3
    Eof = "eof"
    Openings <- WellBehaved
    Puts <- SomePuts
    Positions = {0, 5}
    MaxLength = 6
    BoxValues = {x, y}
    Addresses = {0, 1, 2, 3, 4}
    None = None
    NotDefining = NotDefining
    Definers = {t1, t2}
    BoxThreads = {t1, t2}
    RustTypes <- MCRustTypes
    Shapes <- MCShapes
    Uids = {u}
    NoUid = NoUid
    NoType = NoType
    MaxTypes = 4
    MaxRecords = 1
    Width = 4
    Operands <- MCOperands
    MaxPart = 40
    MaxPower = 3
INVARIANTS
    CellHoldsResult
    LookaheadFits
    FieldsKept
    OneTypePerUid
    ResultsExact
    ComparisonsAgree
PROPERTIES
    ImplementsFile
    AnswersAreAtomic
\* Every thread may have returned, threads may join each other in a circle, and a
\* closed port has no more steps.
CHECK_DEADLOCK FALSE
