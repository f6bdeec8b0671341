--------------------------- MODULE GraphTraversal ---------------------------
(***************************************************************************)
(* The depth-first traversals of src/utl/FlowGraph.hh: preorder, with the  *)
(* value preorder_pathacc passes down every edge, and postorder. Both keep *)
(* a stack that may hold a vertex several times; only the first time it is *)
(* popped counts. One step is one iteration of the loop.                   *)
(*                                                                         *)
(* The code has each of them forward and backward; `out` holds the edges of*)
(* the direction taken, _out or _in.                                       *)
(***************************************************************************)
EXTENDS Lists, SequencesExt

CONSTANTS Vertex,
          Graphs      \* what is traversed: from where, and the targets of each vertex

ASSUME TraversalAssumption ==
    /\ IsFiniteSet(Vertex)
    /\ \A g \in Graphs : /\ g = [start |-> g.start, out |-> g.out]
                         /\ g.start \in Vertex /\ g.out \in [Vertex -> Seq(Vertex)]

VARIABLES start,
          out,
          post,            \* postorder, not preorder
          process_stack,   \* vertices to visit, with the vertex that put them there
          visited,
          parent,          \* what preorder_pathacc gives the visitor: the vertex
                           \* before, if the visitor returns its own
          path,            \* postorder: the vertices begun and not yet handed over
          order,           \* the calls of the visitor so far
          over

travVars == <<start, out, post, process_stack, visited, parent, path, order, over>>

\* from names the vertex an entry comes from, depth its distance in the tree.
Entry == [v : Vertex, from : Vertex, depth : Nat]

\* The types, and that path.resize(depth) never lengthens the path of postorder,
\* which would put null pointers on it.
TravTypeOK ==
    /\ start \in Vertex /\ out \in [Vertex -> Seq(Vertex)] /\ post \in BOOLEAN
    /\ process_stack \in Seq(Entry)
    /\ visited \subseteq Vertex
    /\ parent \in [visited -> Vertex]
    /\ path \in Seq(Vertex) /\ order \in Seq(Vertex)
    /\ over \in BOOLEAN
    /\ post => \A i \in DOMAIN process_stack : process_stack[i].depth <= Len(path)

Init(g, kind) ==
    /\ start = g.start /\ out = g.out /\ post = kind
    /\ process_stack = <<[v |-> start, from |-> start, depth |-> 0]>>
    /\ visited = {} /\ parent = [v \in {} |-> start]
    /\ path = <<>> /\ order = <<>> /\ over = FALSE

\* The slip that marks a vertex when it is pushed, to keep the stack short: the
\* entries of e's targets that are not on the stack.
PushedOnce(e) ==
    LET fresh == Pick(out[e.v], {k \in 1 .. Len(out[e.v]) :
                    /\ out[e.v][k] \notin visited \cup {e.v}
                    /\ \A i \in 1 .. Len(process_stack) : process_stack[i].v # out[e.v][k]})
    IN  [i \in 1 .. Len(fresh) |-> [v |-> fresh[i], from |-> e.v, depth |-> e.depth + 1]]

\* What visiting e pushes.
Pushed(e) ==
    LET fresh == Pick(out[e.v],
                      {k \in 1 .. Len(out[e.v]) : out[e.v][k] \notin visited \cup {e.v}})
    IN  [i \in 1 .. Len(fresh) |-> [v |-> fresh[i], from |-> e.v, depth |-> e.depth + 1]]

\* postorder: the vertices begun below the new one's parent are complete. They
\* are handed over from the deepest up.
HandedOver(e) == Reverse(SubSeq(path, e.depth + 1, Len(path)))

\* The slip that pops an entry only when it visits the vertex.
SkipInPlace ==
    /\ process_stack # <<>> /\ Last(process_stack).v \in visited
    /\ UNCHANGED travVars

Skip ==
    /\ process_stack # <<>> /\ Last(process_stack).v \in visited
    /\ process_stack' = Front(process_stack)
    /\ UNCHANGED <<start, out, post, visited, parent, path, order, over>>

Visit ==
    /\ process_stack # <<>>
    /\ LET e == Last(process_stack)
       IN  /\ e.v \notin visited
           /\ visited' = visited \cup {e.v}
           /\ parent' = [v \in visited \cup {e.v} |-> IF v = e.v THEN e.from ELSE parent[v]]
           /\ process_stack' = Front(process_stack) \o Pushed(e)
           /\ IF post THEN /\ order' = order \o HandedOver(e)
                           /\ path' = Append(SubSeq(path, 1, e.depth), e.v)
              ELSE order' = Append(order, e.v) /\ path' = path
    /\ UNCHANGED <<start, out, post, over>>

\* The loop ends; postorder hands over what is left.
Finish ==
    /\ process_stack = <<>> /\ ~over
    /\ over' = TRUE
    /\ order' = order \o Reverse(path) /\ path' = <<>>
    /\ UNCHANGED <<start, out, post, process_stack, visited, parent>>

TravNext == Skip \/ Visit \/ Finish

-----------------------------------------------------------------------------
(* Properties *)

OutOf(v) == ToSet(out[v])

\* What can be reached is in every set that holds the start and that no edge leaves.
Reached ==
    {v \in Vertex : \A S \in SUBSET Vertex :
        start \in S /\ (\A u \in S : OutOf(u) \subseteq S) => v \in S}

\* Tree ancestors: a vertex, its parent and so on to the start.
Ancestors[v \in visited] ==
    IF v = start THEN {v} ELSE {v} \cup Ancestors[parent[v]]

Place(v) == CHOOSE i \in 1 .. Len(order) : order[i] = v

\* A vertex with several paths to it is handed to the visitor once, and by the
\* end every vertex that can be reached has been.
VisitsOnce ==
    /\ IsInjective(order)
    /\ over => ToSet(order) = Reached

\* The order is depth-first although the stack is shared. In preorder a vertex
\* comes after its parent, and an edge to a later vertex leads to a descendant:
\* this is what the dominator computation rests on. In postorder an edge to a
\* later vertex leads to an ancestor, so that only loops are visited out of order:
\* this is what backward sweeps and the structurizer rest on.
DepthFirst ==
    over => \A u \in visited : \A w \in OutOf(u) \ {u} :
        /\ parent[u] = u \/ u \in OutOf(parent[u])
        /\ Place(u) < Place(w) =>
                IF post THEN w \in Ancestors[u] ELSE u \in Ancestors[w]

\* A traversal visits what can be reached once, depth first.
VisitsDepthFirst == VisitsOnce /\ DepthFirst
=============================================================================
