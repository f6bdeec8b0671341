----------------------------- MODULE Dominators -----------------------------
(***************************************************************************)
(* FlowGraphBase::lengauer_tarjan of src/utl/FlowGraph.cc, the computation *)
(* behind compute_dom_tree and compute_pdom_tree, and the query `dominates`*)
(* on its result. It runs on the preorder of GraphTraversal; one step is   *)
(* one iteration of a loop over the DFS numbers.                           *)
(*                                                                         *)
(* The graph is taken in the direction of the computation: for             *)
(* compute_pdom_tree, `out` holds the _in lists and the start is the       *)
(* terminal vertex.                                                        *)
(***************************************************************************)
EXTENDS GraphTraversal, FiniteSetsExt

CONSTANT Beyond      \* what the memory past the end of a vector may hold

nblks == Cardinality(Vertex)

ASSUME DominatorsAssumption == nblks > 1 /\ Vertex = 0 .. nblks - 1 /\ Beyond # {}

VARIABLES stage,    \* "dfs", "semi", "complete", "done"
          w_dfs,    \* the DFS number the loop is at
          w_gr,     \* the vertex the loop is at, read when w_dfs was set
          sdom,     \* DFS number, then DFS number of the semidominator; -1 if not reached
          idom,
          bucket,   \* the vertices whose semidominator is this one
          forest    \* the root of a vertex in the DisjointSet

domVars == <<stage, w_dfs, w_gr, sdom, idom, bucket, forest>>
allVars == <<travVars, domVars>>

In(v) == {u \in Vertex : v \in ToSet(out[u])}

\* dfs2vert. It is as long as the graph and zero past the vertices reached, so
\* that the loops take vertex 0 once for each vertex that is not.
Vert(n) == IF n < Len(order) THEN order[n + 1] ELSE 0

Parent(v) == IF v \in visited THEN parent[v] ELSE 0

DfsNumber(v) == IF v \in visited THEN Place(v) - 1 ELSE -1

\* The tree path from v up to its root in the forest r, which is left out.
PathTo(v, r) == {u \in Ancestors[v] : u # r /\ r \in Ancestors[u]}

\* min_vert: the vertex of the path with the least semidominator, the nearest to
\* v if there are several.
MinVert(v, f, sd) ==
    IF f[v] = v THEN v
    ELSE CHOOSE u \in PathTo(v, f[v]) : \A x \in PathTo(v, f[v]) :
            sd[u] < sd[x] \/ (sd[u] = sd[x] /\ Place(u) >= Place(x))

\* DisjointSet::link. The path compression of `root` moves no vertex to another tree.
Link(from, to) == [v \in Vertex |-> IF forest[v] = forest[from] THEN forest[to] ELSE forest[v]]

\* What the semidominator of w is taken from.
Candidates(w) == {sdom[w]} \cup {sdom[MinVert(v, forest, sdom)] : v \in In(w)}

\* Every vertex the loops look at is one the traversal has numbered. Otherwise
\* sdom is set to -1 and indexes dfs2vert: an endless loop under
\* compute_pdom_tree, dead code that leads to live code under compute_dom_tree.
Computable(g) ==
    LET into(S) == S \cup {u \in Vertex : ToSet(g.out[u]) \cap S # {}}
        next(S) == S \cup UNION {ToSet(g.out[v]) : v \in S}
        R[n \in 0 .. nblks] == IF n = 0 THEN {g.start} ELSE next(R[n - 1])
    IN  0 \in R[nblks] /\ into(R[nblks]) = R[nblks]

DomInit ==
    /\ \E g \in {g \in Graphs : Computable(g)}, kind \in BOOLEAN : Init(g, kind)
    /\ stage = "dfs" /\ w_dfs = 0 /\ w_gr = 0
    /\ sdom = [v \in Vertex |-> -1]
    /\ idom = [v \in Vertex |-> 0]
    /\ bucket = [v \in Vertex |-> {}]
    /\ forest = [v \in Vertex |-> v]

\* Step 1: the DFS tree. A postorder is a traversal by itself.
Number ==
    /\ stage = "dfs" /\ over /\ ~post
    /\ sdom' = [v \in Vertex |-> DfsNumber(v)]
    /\ stage' = "semi" /\ w_dfs' = nblks - 1 /\ w_gr' = Vert(nblks - 1)
    /\ UNCHANGED <<travVars, idom, bucket, forest>>

\* Steps 2 and 3, from the last vertex to the second: the semidominator of w, then
\* the immediate dominators of the vertices waiting for w's parent. The deferred
\* ones get a vertex whose immediate dominator is theirs.
Semi ==
    /\ stage = "semi" /\ w_dfs > 0
    /\ LET w == w_gr
           p == Parent(w)
           sd == [sdom EXCEPT ![w] = Min(Candidates(w))]
           f == Link(w, p)
           b == [bucket EXCEPT ![Vert(sd[w])] = @ \cup {w}]
       IN  /\ sdom' = sd /\ forest' = f
           /\ bucket' = [b EXCEPT ![p] = {}]
           /\ idom' = [v \in Vertex |->
                         IF v \notin b[p] THEN idom[v]
                         ELSE LET u == MinVert(v, f, sd)
                              IN  IF sd[u] < sd[v] THEN u ELSE p]
    /\ w_dfs' = w_dfs - 1 /\ w_gr' = Vert(w_dfs - 1)
    /\ UNCHANGED <<travVars, stage>>

StartComplete ==
    /\ stage = "semi" /\ w_dfs = 0
    /\ stage' = "complete" /\ w_dfs' = 1 /\ w_gr' = Vert(1)
    /\ UNCHANGED <<travVars, sdom, idom, bucket, forest>>

\* The slip that leaves the deferred ones.
FedForwardNever(w) == idom[w]

FedForward(w) == IF idom[w] # Vert(sdom[w]) THEN idom[idom[w]] ELSE idom[w]

\* Step 4. The increment reads dfs2vert[++w_dfs] before the loop tests w_dfs: on
\* the last turn of every call that is dfs2vert[nblks], one past the end.
Complete ==
    /\ stage = "complete" /\ w_dfs < nblks
    /\ idom' = [idom EXCEPT ![w_gr] = FedForward(w_gr)]
    /\ w_dfs' = w_dfs + 1
    /\ w_gr' \in IF w_dfs + 1 < nblks THEN {Vert(w_dfs + 1)} ELSE Beyond
    /\ UNCHANGED <<travVars, stage, sdom, bucket, forest>>

Return ==
    /\ stage = "complete" /\ w_dfs = nblks
    /\ idom' = [idom EXCEPT ![start] = start]
    /\ stage' = "done"
    /\ UNCHANGED <<travVars, w_dfs, w_gr, sdom, bucket, forest>>

DomNext ==
    \/ TravNext /\ UNCHANGED domVars
    \/ Number \/ Semi \/ StartComplete \/ Complete \/ Return

\* One call after the other: what has begun goes on until it returns.
DomSpec == DomInit /\ [][DomNext]_allVars /\ WF_allVars(DomNext)

\* `dominates`, on the result: walk up from m until n or the root.
Dominates(n, m) ==
    LET it[v \in Vertex] == IF idom[v] = v \/ v = n THEN v ELSE it[idom[v]]
    IN  it[m] = n

-----------------------------------------------------------------------------
(* Properties *)

\* The types, those of the traversal among them. A vertex that is reached always
\* has a DFS number of the tree, and a loop that goes on has its vertex from inside
\* dfs2vert: the one read past the end, with which step 4 stops on every call
\* (Complete), is of a value nothing uses.
DomTypeOK ==
    /\ TravTypeOK
    /\ stage \in {"dfs", "semi", "complete", "done"} /\ w_dfs \in 0 .. nblks
    /\ stage \in {"semi", "complete"} /\ w_dfs < nblks => w_gr = Vert(w_dfs)
    /\ sdom \in [Vertex -> -1 .. nblks - 1]
    /\ idom \in [Vertex -> Vertex] /\ forest \in [Vertex -> Vertex]
    /\ bucket \in [Vertex -> SUBSET Vertex]
    /\ stage # "dfs" => \A v \in visited : sdom[v] \in 0 .. Len(order) - 1

\* The vertices with a path to v all of whose vertices after the first, v apart,
\* have a larger DFS number than v.
SemiSources(v) ==
    LET later == {u \in visited : Place(u) > Place(v)}
        into(S) == S \cup {u \in later : OutOf(u) \cap S # {}}
        L[n \in 0 .. nblks] == IF n = 0 THEN {v} ELSE into(L[n - 1])
    IN  {u \in visited : OutOf(u) \cap L[nblks] # {}}

\* Once the loop has passed a vertex, sdom holds its semidominator as the theory
\* defines it, although the forest the minimum is taken from never holds more
\* than the vertices passed before.
SemidominatorsExact ==
    stage \in {"semi", "complete", "done"} =>
        \A v \in visited \ {start} :
            stage # "semi" \/ Place(v) - 1 > w_dfs =>
                sdom[v] = Min({Place(u) - 1 : u \in SemiSources(v)})

\* The vertices with a path from the start that avoids d.
Without(d) ==
    LET f[n \in 0 .. nblks] ==
            IF n = 0 THEN {start} \ {d}
            ELSE f[n - 1] \cup ((UNION {OutOf(v) : v \in f[n - 1]}) \ {d})
    IN  f[nblks]

\* d is on every path from the start to v.
OnEveryPath(d, v) == d = start \/ d = v \/ v \notin Without(d)

\* The tree returned is the tree of immediate dominators: idom[v] is on every path
\* to v, and all else that is on every path to v comes before it.
ImmediateDominators ==
    stage = "done" =>
        /\ idom[start] = start
        /\ \A v \in visited \ {start} :
            /\ idom[v] # v /\ OnEveryPath(idom[v], v)
            /\ \A d \in visited \ {v} : OnEveryPath(d, v) => OnEveryPath(d, idom[v])

\* The walk on the tree tells for every two vertices reached whether one is on
\* every path to the other: what loop_membership takes a back edge from.
DominatesExact ==
    stage = "done" =>
        \A n, m \in visited : Dominates(n, m) = OnEveryPath(n, m)

\* From the semidominators to the answers of `dominates`, the computation gives
\* what the paths of the graph say. It indexes sdom, idom, parent, bucket and the
\* graph with numbers of vertices only; the read of dfs2vert[nblks] at its end,
\* which leaves the vector, has no part in the result.
DominatorsExact ==
    DomTypeOK /\ SemidominatorsExact /\ ImmediateDominators /\ DominatesExact

\* Every traversal ends, loops or not, and a preorder taken for lengauer_tarjan is
\* followed by the end of its three loops and the return of the tree.
Ends == <>(over /\ (post \/ stage = "done"))
=============================================================================
