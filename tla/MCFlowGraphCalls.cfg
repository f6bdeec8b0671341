SPECIFICATION Spec
CONSTANTS
    Transfers <- MCTransfers
    MaxVertices = 5
    MaxEdges = 3
INVARIANTS
    EdgesConsistent
PROPERTIES
    InsertAfterKeepsPaths
CHECK_DEADLOCK FALSE
