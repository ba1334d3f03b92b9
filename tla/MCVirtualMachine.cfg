CONSTANTS
    Byte = 64
    Word = 4
    InstSize = 2
    RegistersSize = 48
    OperandSizes <- MCSizes
    SizeCodes = 4
    UnsignedCodes = 22
    SignedCodes = 40
    CodeStride = 9
    FrameSize = 160
    IntSize = 4
    Natives = {5}
    Results = {0, 3}
    MaxRuns = 1
    Programs <- LinePrograms
SPECIFICATION FairSpec
INVARIANTS TypeOK InSync CodeIntact
PROPERTIES Terminates Compares
CHECK_DEADLOCK FALSE
