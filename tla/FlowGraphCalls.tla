--------------------------- MODULE FlowGraphCalls ---------------------------
(***************************************************************************)
(* Every sequence of calls a client of FlowGraph may make to its mutators, *)
(* on one graph. The clients (run_graph_analysis, the structurizer, the    *)
(* tests) link from any vertex but the terminal one, to any vertex but the *)
(* root, and only insert after, detach or substitute real vertices that    *)
(* are still attached.                                                     *)
(***************************************************************************)
EXTENDS FlowGraph

CONSTANTS Transfers,    \* the block transfers the clients use
          MaxVertices,  \* bound on g.size
          MaxEdges      \* bound on the number of edges a client adds

ASSUME TransfersAssumption == Transfers \subseteq BlockTransfer /\ Transfers # {}
ASSUME BoundsAssumption == MaxVertices \in Nat /\ MaxEdges \in Nat

VARIABLE gr

Sources == RealVertices(gr) \cup {Root}
Destinations == RealVertices(gr) \cup {Terminal}

EdgeCount(g) ==
    Cardinality(UNION {{<<u, k>> : k \in 1 .. Len(g.out[u])} : u \in Vertices(g)})

Init == gr = NewGraph

DoEmplaceVertex ==
    /\ gr.size < MaxVertices
    /\ gr' = EmplaceVertex(gr)

DoEmplaceLink(u, v, tr) ==
    /\ EdgeCount(gr) < MaxEdges
    /\ gr' = EmplaceLink(gr, u, v, tr)

DoInsertAfter(before, tr) ==
    /\ gr.size < MaxVertices
    /\ gr' = InsertAfter(gr, before, tr)

DoDetach(v) == gr' = Detach(gr, v)

DoSubstitutePair(a, b) ==
    /\ gr.size < MaxVertices
    /\ gr' = SubstitutePair(gr, a, b)

Next ==
    \/ DoEmplaceVertex
    \/ \E u \in Sources, v \in Destinations, tr \in Transfers :
            DoEmplaceLink(u, v, tr)
    \/ \E before \in RealVertices(gr), tr \in Transfers :
            DoInsertAfter(before, tr)
    \/ \E v \in RealVertices(gr) : DoDetach(v)
    \/ \E a, b \in RealVertices(gr) : a # b /\ DoSubstitutePair(a, b)

Spec == Init /\ [][Next]_gr

-----------------------------------------------------------------------------
(* Properties *)

\* The graph stays well-typed: no list names a vertex that does not exist.
TypeOK == IsGraph(gr)

\* The two copies of every edge agree: u lists an edge to v exactly as often
\* as v lists it from u. detach (FlowGraph.cc:45-52) erases end() and
\* insert_after (FlowGraph.hh:396) asserts when they do not.
Mirror == Mirrored(gr)

\* A detached vertex has no edges and nobody keeps an edge to it: the
\* traversals skip no detached vertex, they rely on not reaching one.
DetachedIsolated ==
    \A v \in Vertices(gr) : gr.detached[v] =>
        /\ gr.out[v] = <<>> /\ gr.in[v] = <<>>
        /\ \A u \in Vertices(gr) :
                v \notin Targets(gr.out[u]) \cup Targets(gr.in[u])

\* Splitting a vertex with insert_after neither cuts nor adds a path between
\* the vertices that were there: whatever could run before can run after.
InsertAfterKeepsPaths ==
    [][\A before \in RealVertices(gr), tr \in Transfers :
        DoInsertAfter(before, tr) =>
            {p \in Paths(gr') : p[1] # gr.size /\ p[2] # gr.size} = Paths(gr)]_gr

\* After every call of a mutator the two copies of each edge agree, no list
\* names a vertex that is not there and nothing leads to a detached one.
EdgesConsistent == TypeOK /\ Mirror /\ DetachedIsolated
=============================================================================
