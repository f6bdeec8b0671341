CONSTANT Words <- MCWords
SPECIFICATION Spec
INVARIANT LineNamesOperands
INVARIANT SuffixShowsFlags
INVARIANT RotatesReadBack
INVARIANT CapacityKept
INVARIANT PositionsAgreed
INVARIANT UpdatesAddTheBase
INVARIANT CountersAgree
