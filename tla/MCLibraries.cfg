SPECIFICATION AllSpec
CONSTANTS
    LA = LA
    LB = LB
    LC = LC
    X = X
    Y = Y
    F = F
    G = G
    M = M
    Glob = Glob
    out = out
    list = list
    isnot = isnot
    car = car
    kn0 = kn0
    kn1 = kn1
    one = one
    two = two
    tmpl = tmpl
    True = True
    False = False
    Undefined = Undefined
    AnyPattern = AnyPattern
    Root = Root
    MaxDirectArgs = 2
    Lib = {LA, LB, LC}
    None = None
    Graphs <- Chain
    Names <- FewNames
    Faulty = {LB}
    Thread = {t1, t2}
    BodyImports <- CImportsA
    CallsItself = {LB}
    Gaps <- MayLack
INVARIANTS
    RunsOnce
    ImportsRanFirst
    WaitsFollowImports
    SameMeaning
    WellScoped
    CountsExact
PROPERTIES
    LookupsReturn
\* A library that calls itself too early stops its thread, and those that need it.
CHECK_DEADLOCK FALSE
