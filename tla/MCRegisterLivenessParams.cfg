SPECIFICATION Spec
CONSTANTS
    Reg <- MCReg
    ReturnSet <- MCReturnSet
    ParameterSet <- MCParameterSet
    KilledByCall <- MCKilledByCall
    Block <- MCBlock
    Routines <- MCRoutines
INVARIANT ParamsComplete
CHECK_DEADLOCK FALSE
