CONSTANTS
    main = main
    f = f
    mainF = mainF
    Funcs <- MCFuncs
    Order <- MCOrder
    Main = main
    Sites <- MCSites
    Owner <- MCOwner
    Callee <- MCCallee
    ArgSize <- MCArgSize
    VarSizes <- MCVars
    Opcodes = {1}
    Word = 2
    Sizes = {1, 2}
    StackLimit = 8
    MaxRuns = 1
    NoSite = NoSite
    Garbage = Garbage
SPECIFICATION Spec
PROPERTY ArgumentsCleared
CHECK_DEADLOCK FALSE
