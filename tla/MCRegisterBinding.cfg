SPECIFICATION BindSpec
CONSTANTS
    Reg <- MCBindReg
    ReturnSet <- MCReturnSet
    ParameterSet <- MCParameterSet
    KilledByCall <- MCKilledByCall
    AbiRegs <- MCAbiRegs
    Block <- MCBlock
    Routines <- MCBindRoutines
INVARIANTS
    TypeOK
    SectionsAgree
    LivenessFaithful
    OperandsNamed
    ValuesNamed
PROPERTIES
    NeverTakenBack
    Terminates
CHECK_DEADLOCK FALSE
