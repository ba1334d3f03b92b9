CONSTANTS
    Byte = 64
    Word = 4
    InstSize = 2
    RegistersSize = 48
    OperandSizes <- MCSizes
    SizeCodes = 4
    UnsignedCodes = 22
    SignedCodes = 40
    CodeStride = 9
    FrameSize = 160
    IntSize = 4
    Natives = {5}
    Results = {0, 3}
    MaxRuns = 2
    Programs <- CallPrograms
SPECIFICATION Spec
PROPERTIES KeepsPromise StaysTame
CHECK_DEADLOCK FALSE
