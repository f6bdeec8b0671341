SPECIFICATION Spec
CONSTANTS
    Reg <- MCReg
    ReturnSet <- MCReturnSet
    ParameterSet <- MCParameterSet
    KilledByCall <- MCKilledByCall
    Block <- MCBlock
    Routines <- MCRoutines
INVARIANT ClearedIsDead
CHECK_DEADLOCK FALSE
