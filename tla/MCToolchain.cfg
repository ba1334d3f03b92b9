SPECIFICATION ToolchainFairSpec
CONSTANTS
    Insts <- MCInsts
    Builtin <- MCBuiltin
    Registers <- MCRegisters
    Sources <- MCToolchainSources
    Byte = 64
    Word = 4
    InstSize = 2
    RegistersSize = 48
    OperandSizes <- MCSizes
    SizeCodes = 4
    UnsignedCodes = 22
    SignedCodes = 40
    CodeStride = 9
    Hash <- MCHash
    FrameSize = 280
    IntSize = 4
    Natives = {70}
    Results = {3}
    MaxRuns = 1
CHECK_DEADLOCK TRUE
INVARIANTS ToolchainTypeOK Synchronised Accepted Faithful Compiled
PROPERTIES ResolvedOnce RunsAsWritten Ends
