SPECIFICATION DomSpec
CONSTANTS
    Vertex <- MCVertex
    Graphs <- MCGraphs
    Beyond <- MCBeyond
INVARIANTS
    VisitsDepthFirst
    DominatorsExact
PROPERTY Ends
CHECK_DEADLOCK FALSE
