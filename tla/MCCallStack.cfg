CONSTANTS
    main = main
    f = f
    g = g
    mainF = mainF
    fG = fG
    gG = gG
    Funcs <- MCFuncs
    Order <- MCOrder
    Main = main
    Sites <- MCSites
    Owner <- MCOwner
    Callee <- MCCallee
    ArgSize <- MCArgSize
    VarSizes <- MCVarSizes
    Opcodes = {1}
    Word = 2
    Sizes = {1, 2}
    StackLimit = 10
    MaxRuns = 2
    NoSite = NoSite
    Garbage = Garbage
SPECIFICATION Spec
INVARIANTS TypeOK CallInv
PROPERTIES ArgumentsCleared KeepsPromise
CHECK_DEADLOCK FALSE
