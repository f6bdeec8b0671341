SPECIFICATION TranslatorSpec
CONSTANTS
    Reg <- MCReg
    ReturnSet <- MCReturnSet
    ParameterSet <- MCParameterSet
    KilledByCall <- MCKilledByCall
    AbiRegs <- MCAbiRegs
    Block <- MCBlock
    Texts <- MCTexts
    SaveGpr <- MCSaveGpr
    RestGpr <- MCRestGpr
    Routines <- MCRoutines
    FirstTest <- MCFirstTest
INVARIANTS
    RefsExact
    FrameSeparated
    StopsExplained
    IrReadsAreWritten
    ParamsApart
CHECK_DEADLOCK FALSE
