SPECIFICATION Spec
CONSTANTS
    N = 6
    Entry = 2
    Programs <- MCPrograms
INVARIANTS
    FallthroughAdjacent
