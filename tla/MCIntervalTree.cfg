SPECIFICATION Spec
CONSTANT K = 7
INVARIANTS
    TreeWellFormed
    QueryExact
PROPERTIES
    IsIntervalSet
    InsertionEnds
