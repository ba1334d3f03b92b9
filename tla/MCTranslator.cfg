CONSTANTS
    Byte = 64
    Word = 4
    InstSize = 2
    RegistersSize = 48
    OperandSizes <- MCSizes
    SizeCodes = 4
    UnsignedCodes = 22
    SignedCodes = 40
    CodeStride = 9
    Programs <- MCPrograms
SPECIFICATION Spec
INVARIANTS TypeOK EntersMain CallsResolved HeadersInFront Decodes
CHECK_DEADLOCK FALSE
