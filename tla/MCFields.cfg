SPECIFICATION Spec
CONSTANTS
    Insts <- MCInsts
    Builtin <- MCBuiltin
    Registers <- MCRegisters
    Sources <- MCFields
CHECK_DEADLOCK FALSE
INVARIANT AllAccepted
