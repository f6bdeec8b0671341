--------------------------- MODULE FlowGraphProofs ---------------------------
(***************************************************************************)
(* The mutators that the graph builder calls keep a graph well-typed and   *)
(* add exactly the vertices they say they add. The proofs about the passes *)
(* rest on these lemmas and never look inside a graph again.               *)
(***************************************************************************)
EXTENDS FlowGraph, SequenceTheorems, FiniteSetTheorems, FunctionTheorems, TLAPS

\* An edge that names one of n vertices names one of n+1.
LEMMA EdgeDataGrows ==
    ASSUME NEW n \in Nat
    PROVE  EdgeData(n) \subseteq EdgeData(n + 1)
BY DEF EdgeData

\* So does a list of edges.
LEMMA EdgeSeqGrows ==
    ASSUME NEW n \in Nat, NEW s \in Seq(EdgeData(n))
    PROVE  s \in Seq(EdgeData(n + 1))
BY EdgeDataGrows, SeqMonotonic

\* Edge builds an edge.
LEMMA EdgeType ==
    ASSUME NEW n \in Nat, NEW v \in 0 .. n - 1, NEW tr \in BlockTransfer
    PROVE  Edge(v, tr) \in EdgeData(n)
BY DEF Edge, EdgeData

\* The empty graph is a graph.
LEMMA NewGraphType == IsGraph(NewGraph) /\ NewGraph.size = FirstReal
<1> DEFINE E == EdgeData(NewGraph.size)
<1>1. NewGraph.size = FirstReal /\ FirstReal \in Nat /\ FirstReal >= FirstReal
    BY DEF NewGraph, FirstReal
<1>2. <<>> \in Seq(E)  OBVIOUS
<1>3. Vertices(NewGraph) = {Root, Terminal}
    BY <1>1 DEF Vertices, FirstReal, Root, Terminal
<1> HIDE DEF E
<1>4. NewGraph.out \in [{Root, Terminal} -> Seq(E)]  BY <1>2 DEF NewGraph
<1>5. NewGraph.in \in [{Root, Terminal} -> Seq(E)]  BY <1>2 DEF NewGraph
<1>6. NewGraph.detached \in [{Root, Terminal} -> BOOLEAN]  BY DEF NewGraph
<1>7. NewGraph = [size |-> NewGraph.size, out |-> NewGraph.out,
                  in |-> NewGraph.in, detached |-> NewGraph.detached]
    BY DEF NewGraph
<1> USE DEF E
<1> HIDE DEF NewGraph
<1> QED  BY <1>1, <1>3, <1>4, <1>5, <1>6, <1>7 DEF IsGraph

\* A new vertex has a flag like the others.
LEMMA GrowFlags ==
    ASSUME NEW n \in Nat, NEW f \in [0 .. n - 1 -> BOOLEAN], NEW b \in BOOLEAN
    PROVE  Grow(f, n, b) \in [0 .. n -> BOOLEAN]
<1>1. \A v \in 0 .. n : v # n => v \in 0 .. n - 1  OBVIOUS
<1>2. \A v \in 0 .. n : (IF v = n THEN b ELSE f[v]) \in BOOLEAN
    BY <1>1, Zenon
<1> QED  BY <1>2, Zenon DEF Grow

\* emplace_vertex adds one vertex, of index size().
LEMMA EmplaceVertexType ==
    ASSUME NEW g, IsGraph(g)
    PROVE  /\ IsGraph(EmplaceVertex(g))
           /\ EmplaceVertex(g).size = g.size + 1
<1> DEFINE n == g.size
           E == EdgeData(n + 1)
           h == EmplaceVertex(g)
<1>1. n \in Nat /\ n >= FirstReal  BY DEF IsGraph
<1>2. /\ g.out \in [0 .. n - 1 -> Seq(E)]
      /\ g.in \in [0 .. n - 1 -> Seq(E)]
    <2>1. Seq(EdgeData(n)) \subseteq Seq(E)  BY <1>1, EdgeSeqGrows
    <2>2. /\ g.out \in [0 .. n - 1 -> Seq(EdgeData(n))]
          /\ g.in \in [0 .. n - 1 -> Seq(EdgeData(n))]
        BY DEF IsGraph, Vertices
    <2> HIDE DEF E, n
    <2> QED  BY <2>1, <2>2
<1>3. <<>> \in Seq(E)  OBVIOUS
<1>4. g.detached \in [0 .. n - 1 -> BOOLEAN]  BY DEF IsGraph, Vertices
<1>5. /\ h.size = n + 1
      /\ h.out = Grow(g.out, n, <<>>)
      /\ h.in = Grow(g.in, n, <<>>)
      /\ h.detached = Grow(g.detached, n, FALSE)
      /\ h = [size |-> h.size, out |-> h.out, in |-> h.in,
              detached |-> h.detached]
    BY DEF EmplaceVertex
<1> HIDE DEF E, n, h
<1>6. h.out \in [0 .. n -> Seq(E)]
    BY <1>1, <1>2, <1>3, <1>5 DEF Grow
<1>7. h.in \in [0 .. n -> Seq(E)]
    BY <1>1, <1>2, <1>3, <1>5 DEF Grow
<1>8. h.detached \in [0 .. n -> BOOLEAN]
    BY <1>1, <1>4, GrowFlags, <1>5
<1>9. Vertices(h) = 0 .. n /\ h.size \in Nat /\ h.size >= FirstReal
    BY <1>1, <1>5 DEF Vertices, FirstReal
<1> QED  BY <1>5, <1>6, <1>7, <1>8, <1>9 DEF IsGraph, E, n, h

\* emplace_link adds no vertex.
LEMMA EmplaceLinkType ==
    ASSUME NEW g, IsGraph(g),
           NEW u \in Vertices(g), NEW v \in Vertices(g), NEW tr \in BlockTransfer
    PROVE  /\ IsGraph(EmplaceLink(g, u, v, tr))
           /\ EmplaceLink(g, u, v, tr).size = g.size
<1> DEFINE n == g.size
           E == EdgeData(n)
           h == EmplaceLink(g, u, v, tr)
           eo == Edge(v, tr)
           ei == Edge(u, tr)
<1>1. n \in Nat /\ n >= FirstReal  BY DEF IsGraph
<1>2. /\ g = [size |-> g.size, out |-> g.out, in |-> g.in,
              detached |-> g.detached]
      /\ g.out \in [Vertices(g) -> Seq(E)]
      /\ g.in \in [Vertices(g) -> Seq(E)]
      /\ g.detached \in [Vertices(g) -> BOOLEAN]
    BY DEF IsGraph
<1>3. eo \in E /\ ei \in E  BY <1>1, EdgeType DEF Vertices
<1>4. h = [size |-> g.size,
           out |-> [g.out EXCEPT ![u] = Append(g.out[u], eo)],
           in |-> [g.in EXCEPT ![v] = Append(g.in[v], ei)],
           detached |-> g.detached]
    BY DEF EmplaceLink
<1> HIDE DEF E, n, h, eo, ei
<1>5. Append(g.out[u], eo) \in Seq(E) /\ Append(g.in[v], ei) \in Seq(E)
    BY <1>2, <1>3, AppendProperties
<1>6. [g.out EXCEPT ![u] = Append(g.out[u], eo)] \in [Vertices(g) -> Seq(E)]
    BY <1>2, <1>5
<1>7. [g.in EXCEPT ![v] = Append(g.in[v], ei)] \in [Vertices(g) -> Seq(E)]
    BY <1>2, <1>5
<1>8. h.size = g.size /\ Vertices(h) = Vertices(g)  BY <1>4 DEF Vertices
<1>9. /\ h.out \in [Vertices(h) -> Seq(E)]
      /\ h.in \in [Vertices(h) -> Seq(E)]
    BY <1>4, <1>6, <1>7, <1>8
<1>10. h.detached \in [Vertices(h) -> BOOLEAN]
    <2>1. h.detached = g.detached  BY <1>4
    <2> QED  BY <2>1, <1>2, <1>8, Zenon
<1>11. h = [size |-> h.size, out |-> h.out, in |-> h.in,
            detached |-> h.detached]
    BY <1>4
<1> USE DEF E, n
<1> QED
    <2>1. IsGraph(h)  BY <1>1, <1>8, <1>9, <1>10, <1>11 DEF IsGraph
    <2> QED  BY <2>1, <1>8 DEF h

\* Redirecting the _in entries of a vertex to the new one keeps them edges.
LEMMA RetargetType ==
    ASSUME NEW n \in Nat, NEW s \in Seq(EdgeData(n)), NEW moved, NEW v,
           NEW before
    PROVE  Retarget(s, moved, v, before, n) \in Seq(EdgeData(n + 1))
<1> DEFINE E == EdgeData(n + 1)
           renamed(k) == /\ s[k].target = before
                         /\ CountUpTo(s, s[k], k) <= Count(moved, Edge(v, s[k].tr))
           entry(k) == IF renamed(k) THEN Edge(n, s[k].tr) ELSE s[k]
<1>1. Len(s) \in Nat  OBVIOUS
<1>2. ASSUME NEW k \in 1 .. Len(s)
      PROVE  entry(k) \in E
    <2>1. s[k] \in EdgeData(n)  BY ElementOfSeq
    <2>2. s[k] \in E  BY <2>1, EdgeDataGrows
    <2>3. s[k].tr \in BlockTransfer  BY <2>1 DEF EdgeData
    <2>4. Edge(n, s[k].tr) \in E  BY <2>3 DEF Edge, EdgeData
    <2> HIDE DEF E, renamed
    <2> QED  BY <2>2, <2>4
<1> HIDE DEF E, renamed
<1>3. [k \in 1 .. Len(s) |-> entry(k)] \in [1 .. Len(s) -> E]
    <2> HIDE DEF entry
    <2> QED  BY <1>2
<1>4. [k \in 1 .. Len(s) |-> entry(k)] \in Seq(E)
    <2> HIDE DEF entry
    <2> QED  BY <1>1, <1>3
<1> QED  BY <1>4 DEF Retarget, E, renamed, entry

\* insert_after before it links the two vertices: the new one, g.size, has
\* taken over the out-edges of `before`.
Moved(g, before) ==
    [size |-> g.size + 1,
     out |-> Grow([g.out EXCEPT ![before] = <<>>], g.size, g.out[before]),
     in |-> Grow([v \in Vertices(g) |->
                     Retarget(g.in[v], g.out[before], v, before, g.size)],
                 g.size, <<>>),
     detached |-> Grow(g.detached, g.size, FALSE)]

\* It is a graph with one more vertex.
LEMMA MovedType ==
    ASSUME NEW g, IsGraph(g), NEW before \in Vertices(g)
    PROVE  IsGraph(Moved(g, before)) /\ Moved(g, before).size = g.size + 1
<1> DEFINE n == g.size
           E == EdgeData(n + 1)
           moved == g.out[before]
           rest == [g.out EXCEPT ![before] = <<>>]
           fixed == [v \in Vertices(g) |->
                        Retarget(g.in[v], moved, v, before, n)]
           h == [size |-> n + 1,
                 out |-> Grow(rest, n, moved),
                 in |-> Grow(fixed, n, <<>>),
                 detached |-> Grow(g.detached, n, FALSE)]
<1>1. n \in Nat /\ n >= FirstReal /\ Vertices(g) = 0 .. n - 1
    BY DEF IsGraph, Vertices
<1>2. /\ g.out \in [Vertices(g) -> Seq(EdgeData(n))]
      /\ g.in \in [Vertices(g) -> Seq(EdgeData(n))]
      /\ g.detached \in [Vertices(g) -> BOOLEAN]
    BY DEF IsGraph
<1>3. Seq(EdgeData(n)) \subseteq Seq(E)  BY <1>1, EdgeSeqGrows
<1>4. <<>> \in Seq(E)  OBVIOUS
<1>5. moved \in Seq(E)
    <2> HIDE DEF E, n
    <2> QED  BY <1>2, <1>3
<1>6. rest \in [Vertices(g) -> Seq(E)]
    <2> HIDE DEF E, n, moved
    <2> QED  BY <1>2, <1>3, <1>4
<1>7. fixed \in [Vertices(g) -> Seq(E)]
    <2>1. \A v \in Vertices(g) :
              Retarget(g.in[v], moved, v, before, n) \in Seq(E)
        <3> TAKE v \in Vertices(g)
        <3>1. g.in[v] \in Seq(EdgeData(n))
            <4> HIDE DEF n
            <4> QED  BY <1>2
        <3> HIDE DEF n, moved
        <3> QED  BY <1>1, <3>1, RetargetType
    <2> HIDE DEF E, n, moved
    <2> QED  BY <2>1
<1> HIDE DEF E, n, moved, rest, fixed
<1>8. Grow(rest, n, moved) \in [0 .. n -> Seq(E)]
    BY <1>1, <1>5, <1>6 DEF Grow
<1>9. Grow(fixed, n, <<>>) \in [0 .. n -> Seq(E)]
    BY <1>1, <1>4, <1>7 DEF Grow
<1>10. Grow(g.detached, n, FALSE) \in [0 .. n -> BOOLEAN]
    BY <1>1, <1>2, GrowFlags
<1>11. h.size = n + 1 /\ Vertices(h) = 0 .. n /\ h.size \in Nat
       /\ h.size >= FirstReal
    BY <1>1 DEF Vertices, FirstReal
<1>12. h = [size |-> h.size, out |-> h.out, in |-> h.in,
            detached |-> h.detached]
    OBVIOUS
<1>13. /\ h.out \in [Vertices(h) -> Seq(E)]
       /\ h.in \in [Vertices(h) -> Seq(E)]
       /\ h.detached = Grow(g.detached, n, FALSE)
    BY <1>8, <1>9, <1>11
<1>14. h.detached \in [Vertices(h) -> BOOLEAN]
    BY <1>10, <1>11, <1>13, Zenon
<1>15. h = Moved(g, before)  BY DEF Moved, h, n, moved, rest, fixed
<1> HIDE DEF h
<1>16. IsGraph(h)
    <2>1. E = EdgeData(h.size)  BY <1>11 DEF E
    <2> QED  BY <2>1, <1>11, <1>12, <1>13, <1>14 DEF IsGraph
<1>17. IsGraph(Moved(g, before))  BY <1>15, <1>16, Zenon
<1>18. Moved(g, before).size = n + 1  BY <1>11, <1>15, Zenon
<1> QED  BY <1>17, <1>18 DEF n

\* insert_after is that and a link.
LEMMA InsertAfterIs ==
    ASSUME NEW g, NEW before, NEW tr
    PROVE  InsertAfter(g, before, tr) =
                EmplaceLink(Moved(g, before), before, g.size, tr)
BY DEF InsertAfter, Moved

\* insert_after adds one vertex, of index size().
LEMMA InsertAfterType ==
    ASSUME NEW g, IsGraph(g),
           NEW before \in Vertices(g), NEW tr \in BlockTransfer
    PROVE  /\ IsGraph(InsertAfter(g, before, tr))
           /\ InsertAfter(g, before, tr).size = g.size + 1
<1> DEFINE h == Moved(g, before)
<1>1. IsGraph(h) /\ h.size = g.size + 1  BY MovedType
<1>2. before \in Vertices(h) /\ g.size \in Vertices(h)
    BY <1>1 DEF IsGraph, Vertices
<1> HIDE DEF h
<1>3. /\ IsGraph(EmplaceLink(h, before, g.size, tr))
      /\ EmplaceLink(h, before, g.size, tr).size = h.size
    BY <1>1, <1>2, EmplaceLinkType
<1>4. InsertAfter(g, before, tr) = EmplaceLink(h, before, g.size, tr)
    BY InsertAfterIs DEF h
<1> QED  BY <1>1, <1>3, <1>4

-----------------------------------------------------------------------------
(* The two copies of an edge *)

\* The positions counted are finitely many.
LEMMA CountUpToFinite ==
    ASSUME NEW s, NEW e, NEW n \in Nat
    PROVE  /\ IsFiniteSet({j \in 1 .. n : s[j] = e})
           /\ CountUpTo(s, e, n) \in Nat
           /\ \A k \in 1 .. n : CountUpTo(s, e, k) <= CountUpTo(s, e, n)
<1> DEFINE at(k) == {j \in 1 .. k : s[j] = e}
<1>1. IsFiniteSet(1 .. n)  BY FS_Interval
<1>2. IsFiniteSet(at(n))
    <2>1. at(n) \in SUBSET (1 .. n)  OBVIOUS
    <2> HIDE DEF at
    <2> QED  BY <1>1, <2>1, FS_Subset
<1>3. ASSUME NEW k \in 1 .. n
      PROVE  Cardinality(at(k)) <= Cardinality(at(n))
    <2>1. at(k) \in SUBSET at(n)  OBVIOUS
    <2> HIDE DEF at
    <2> QED  BY <1>2, <2>1, FS_Subset
<1>4. Cardinality(at(n)) \in Nat  BY <1>2, FS_CardinalityType
<1> QED  BY <1>2, <1>3, <1>4 DEF CountUpTo

\* A list has a number of entries equal to e.
LEMMA CountType ==
    ASSUME NEW s, NEW e, Len(s) \in Nat
    PROVE  /\ Count(s, e) \in Nat
           /\ \A k \in 1 .. Len(s) : CountUpTo(s, e, k) <= Count(s, e)
BY CountUpToFinite DEF Count

\* A list without e has none.
LEMMA CountNone ==
    ASSUME NEW s, NEW e, \A k \in 1 .. Len(s) : s[k] # e
    PROVE  Count(s, e) = 0
<1>1. {j \in 1 .. Len(s) : s[j] = e} = {}  OBVIOUS
<1> QED  BY <1>1, FS_EmptySet DEF Count, CountUpTo

\* Lists that agree on where e, or f, is hold them equally often.
LEMMA CountSame ==
    ASSUME NEW s, NEW e, NEW t, NEW f, Len(t) = Len(s),
           \A k \in 1 .. Len(s) : s[k] = e <=> t[k] = f
    PROVE  Count(s, e) = Count(t, f)
<1>1. {j \in 1 .. Len(s) : s[j] = e} = {j \in 1 .. Len(t) : t[j] = f}  OBVIOUS
<1> QED  BY <1>1 DEF Count, CountUpTo

\* Appending x adds one x and nothing else.
LEMMA CountAppend ==
    ASSUME NEW S, NEW s \in Seq(S), NEW x \in S, NEW e
    PROVE  Count(Append(s, x), e) = Count(s, e) + (IF x = e THEN 1 ELSE 0)
<1> DEFINE n == Len(s)
           t == Append(s, x)
           old == {j \in 1 .. n : s[j] = e}
           new == {j \in 1 .. n + 1 : t[j] = e}
<1>1. /\ n \in Nat /\ Len(t) = n + 1 /\ t[n + 1] = x
      /\ \A k \in 1 .. n : t[k] = s[k]
    BY AppendProperties
<1>2. IsFiniteSet(old) /\ Count(s, e) = Cardinality(old)
    BY <1>1, CountUpToFinite DEF Count, CountUpTo
<1>3. Count(t, e) = Cardinality(new)  BY <1>1 DEF Count, CountUpTo
<1>4. Cardinality(old) \in Nat  BY <1>2, FS_CardinalityType
<1>5. CASE x = e
    <2>1. new = old \cup {n + 1} /\ n + 1 \notin old  BY <1>1, <1>5
    <2> HIDE DEF old, new, n, t
    <2>2. Cardinality(new) = Cardinality(old) + 1
        BY <1>2, <2>1, FS_AddElement
    <2> QED  BY <1>2, <1>3, <1>5, <2>2 DEF t
<1>6. CASE x # e
    <2>1. new = old  BY <1>1, <1>6
    <2> HIDE DEF old, new, n, t
    <2> QED  BY <1>2, <1>3, <1>4, <1>6, <2>1 DEF t
<1> QED  BY <1>5, <1>6

\* An edge is its vertex and its transfer.
LEMMA EdgeParts ==
    ASSUME NEW n \in Nat, NEW e \in EdgeData(n)
    PROVE  /\ e = Edge(e.target, e.tr)
           /\ e.target \in 0 .. n - 1 /\ e.tr \in BlockTransfer
           /\ \A v, tr : e = Edge(v, tr) <=> e.target = v /\ e.tr = tr
BY DEF EdgeData, Edge

\* So two edges are equal when those are.
LEMMA EdgeEqual ==
    ASSUME NEW v, NEW w, NEW tr, NEW ts
    PROVE  Edge(v, tr) = Edge(w, ts) <=> v = w /\ tr = ts
<1>1. Edge(v, tr).target = v /\ Edge(v, tr).tr = tr  BY DEF Edge
<1>2. Edge(w, ts).target = w /\ Edge(w, ts).tr = ts  BY DEF Edge
<1> QED  BY <1>1, <1>2

\* The lists of a vertex are lists of edges.
LEMMA GraphLists ==
    ASSUME NEW g, IsGraph(g), NEW v \in Vertices(g)
    PROVE  /\ g.size \in Nat /\ g.size >= FirstReal
           /\ Vertices(g) = 0 .. g.size - 1
           /\ g.out[v] \in Seq(EdgeData(g.size))
           /\ g.in[v] \in Seq(EdgeData(g.size))
<1> DEFINE E == EdgeData(g.size)
<1>1. /\ g.out \in [Vertices(g) -> Seq(E)]
      /\ g.in \in [Vertices(g) -> Seq(E)]
      /\ g.size \in Nat /\ g.size >= FirstReal
    BY DEF IsGraph
<1>2. Vertices(g) = 0 .. g.size - 1  BY DEF Vertices
<1> HIDE DEF E
<1>3. g.out[v] \in Seq(E) /\ g.in[v] \in Seq(E)  BY <1>1
<1> QED  BY <1>1, <1>2, <1>3 DEF E

\* The empty graph has no edges.
LEMMA NewGraphMirrored == Mirrored(NewGraph)
<1>1. Vertices(NewGraph) = {Root, Terminal}
    BY DEF NewGraph, Vertices, FirstReal, Root, Terminal
<1>2. \A v \in {Root, Terminal} :
            NewGraph.out[v] = <<>> /\ NewGraph.in[v] = <<>>
    BY DEF NewGraph
<1>3. \A e : Count(<<>>, e) = 0  BY CountNone
<1> HIDE DEF NewGraph
<1> QED  BY <1>1, <1>2, <1>3 DEF Mirrored
\* emplace_vertex adds no edge.
LEMMA EmplaceVertexLists ==
    ASSUME NEW g, IsGraph(g)
    PROVE  LET h == EmplaceVertex(g)
           IN  /\ Vertices(h) = Vertices(g) \cup {g.size}
               /\ g.size \notin Vertices(g)
               /\ \A v \in Vertices(g) : h.out[v] = g.out[v] /\ h.in[v] = g.in[v]
               /\ h.out[g.size] = <<>> /\ h.in[g.size] = <<>>
<1> DEFINE n == g.size
           h == EmplaceVertex(g)
<1>1. n \in Nat /\ n >= FirstReal  BY DEF IsGraph
<1>2. /\ h.size = n + 1 /\ h.out = Grow(g.out, n, <<>>)
      /\ h.in = Grow(g.in, n, <<>>)
    BY DEF EmplaceVertex
<1> HIDE DEF h, n
<1>3. Vertices(h) = 0 .. n /\ Vertices(g) = 0 .. n - 1
    BY <1>1, <1>2 DEF Vertices, n
<1>4. /\ h.out = [v \in 0 .. n |-> IF v = n THEN <<>> ELSE g.out[v]]
      /\ h.in = [v \in 0 .. n |-> IF v = n THEN <<>> ELSE g.in[v]]
    BY <1>2 DEF Grow
<1>5. 0 .. n = (0 .. n - 1) \cup {n} /\ n \notin 0 .. n - 1  BY <1>1
<1>6. /\ \A v \in Vertices(g) : h.out[v] = g.out[v] /\ h.in[v] = g.in[v]
      /\ h.out[n] = <<>> /\ h.in[n] = <<>>
    BY <1>3, <1>4, <1>5
<1> QED  BY <1>3, <1>5, <1>6 DEF h, n

\* A vertex that does not exist is in no list.
LEMMA NoEdgeToNew ==
    ASSUME NEW n \in Nat, NEW s \in Seq(EdgeData(n)), NEW tr
    PROVE  Count(s, Edge(n, tr)) = 0
<1>1. ASSUME NEW k \in 1 .. Len(s)
      PROVE  s[k] # Edge(n, tr)
    <2>1. s[k] \in EdgeData(n)  BY ElementOfSeq
    <2>2. s[k].target \in 0 .. n - 1  BY <2>1, EdgeParts
    <2>3. Edge(n, tr).target = n  BY DEF Edge
    <2> QED  BY <2>2, <2>3
<1> QED  BY <1>1, CountNone

\* So a new vertex leaves the copies of the edges in agreement.
LEMMA EmplaceVertexMirrored ==
    ASSUME NEW g, IsGraph(g), Mirrored(g)
    PROVE  Mirrored(EmplaceVertex(g))
<1> DEFINE n == g.size
           h == EmplaceVertex(g)
<1>1. /\ Vertices(h) = Vertices(g) \cup {n} /\ n \notin Vertices(g)
      /\ \A v \in Vertices(g) : h.out[v] = g.out[v] /\ h.in[v] = g.in[v]
      /\ h.out[n] = <<>> /\ h.in[n] = <<>>
    BY EmplaceVertexLists
<1>2. \A e : Count(<<>>, e) = 0  BY CountNone
<1>3. n \in Nat
      /\ \A v \in Vertices(g) : /\ g.out[v] \in Seq(EdgeData(n))
                                /\ g.in[v] \in Seq(EdgeData(n))
    BY GraphLists DEF IsGraph
<1>4. \A v \in Vertices(g) : \A tr : /\ Count(g.out[v], Edge(n, tr)) = 0
                                     /\ Count(g.in[v], Edge(n, tr)) = 0
    <2> HIDE DEF n
    <2> QED  BY <1>3, NoEdgeToNew
<1> HIDE DEF n, h
<1>5. ASSUME NEW u \in Vertices(h), NEW v \in Vertices(h),
             NEW tr \in BlockTransfer
      PROVE  Count(h.out[u], Edge(v, tr)) = Count(h.in[v], Edge(u, tr))
    <2>1. CASE u = n \/ v = n  BY <1>1, <1>2, <1>4, <2>1
    <2>2. CASE u \in Vertices(g) /\ v \in Vertices(g)
        BY <1>1, <2>2 DEF Mirrored
    <2> QED  BY <1>1, <2>1, <2>2
<1> QED  BY <1>5 DEF Mirrored, h

\* emplace_link appends an edge to two lists.
LEMMA EmplaceLinkLists ==
    ASSUME NEW g, IsGraph(g),
           NEW u \in Vertices(g), NEW v \in Vertices(g), NEW tr \in BlockTransfer
    PROVE  LET h == EmplaceLink(g, u, v, tr)
           IN  /\ Vertices(h) = Vertices(g)
               /\ h.out[u] = Append(g.out[u], Edge(v, tr))
               /\ h.in[v] = Append(g.in[v], Edge(u, tr))
               /\ \A w \in Vertices(g) : w # u => h.out[w] = g.out[w]
               /\ \A w \in Vertices(g) : w # v => h.in[w] = g.in[w]
<1> DEFINE h == EmplaceLink(g, u, v, tr)
           E == EdgeData(g.size)
           eo == Edge(v, tr)
           ei == Edge(u, tr)
<1>1. g.out \in [Vertices(g) -> Seq(E)] /\ g.in \in [Vertices(g) -> Seq(E)]
    BY DEF IsGraph
<1>2. /\ h.size = g.size
      /\ h.out = [g.out EXCEPT ![u] = Append(g.out[u], eo)]
      /\ h.in = [g.in EXCEPT ![v] = Append(g.in[v], ei)]
    BY DEF EmplaceLink
<1> HIDE DEF h, E, eo, ei
<1>3. Vertices(h) = Vertices(g)  BY <1>2 DEF Vertices
<1>4. /\ h.out[u] = Append(g.out[u], eo)
      /\ h.in[v] = Append(g.in[v], ei)
      /\ \A w \in Vertices(g) : w # u => h.out[w] = g.out[w]
      /\ \A w \in Vertices(g) : w # v => h.in[w] = g.in[w]
    BY <1>1, <1>2
<1> QED  BY <1>3, <1>4 DEF h, eo, ei

\* The two lists are those of one edge.
LEMMA EmplaceLinkMirrored ==
    ASSUME NEW g, IsGraph(g), Mirrored(g),
           NEW u \in Vertices(g), NEW v \in Vertices(g), NEW tr \in BlockTransfer
    PROVE  Mirrored(EmplaceLink(g, u, v, tr))
<1> DEFINE h == EmplaceLink(g, u, v, tr)
           E == EdgeData(g.size)
<1>1. /\ Vertices(h) = Vertices(g)
      /\ h.out[u] = Append(g.out[u], Edge(v, tr))
      /\ h.in[v] = Append(g.in[v], Edge(u, tr))
      /\ \A w \in Vertices(g) : w # u => h.out[w] = g.out[w]
      /\ \A w \in Vertices(g) : w # v => h.in[w] = g.in[w]
    BY EmplaceLinkLists
<1>2. /\ g.out[u] \in Seq(E) /\ g.in[v] \in Seq(E)
      /\ Edge(v, tr) \in E /\ Edge(u, tr) \in E
    BY GraphLists, EdgeType
<1> HIDE DEF h, E
<1>3. /\ \A e : Count(h.out[u], e) =
                    Count(g.out[u], e) + (IF Edge(v, tr) = e THEN 1 ELSE 0)
      /\ \A e : Count(h.in[v], e) =
                    Count(g.in[v], e) + (IF Edge(u, tr) = e THEN 1 ELSE 0)
    BY <1>1, <1>2, CountAppend
<1>4. ASSUME NEW a \in Vertices(g), NEW b \in Vertices(g), NEW t \in BlockTransfer
      PROVE  Count(h.out[a], Edge(b, t)) = Count(h.in[b], Edge(a, t))
    <2>1. Count(g.out[a], Edge(b, t)) = Count(g.in[b], Edge(a, t))
        BY DEF Mirrored
    <2>2. (Edge(v, tr) = Edge(b, t) <=> v = b /\ tr = t)
          /\ (Edge(u, tr) = Edge(a, t) <=> u = a /\ tr = t)
        BY EdgeEqual
    <2>3. Count(g.out[a], Edge(b, t)) \in Nat
        <3>1. g.out[a] \in Seq(EdgeData(g.size))  BY GraphLists
        <3>2. Len(g.out[a]) \in Nat  BY <3>1, LenProperties
        <3> QED  BY <3>2, CountType
    <2>4. Count(h.out[a], Edge(b, t)) =
            Count(g.out[a], Edge(b, t))
                + (IF a = u /\ v = b /\ tr = t THEN 1 ELSE 0)
        <3>1. CASE a = u  BY <1>3, <2>2, <3>1
        <3>2. CASE a # u  BY <1>1, <2>3, <3>2
        <3> QED  BY <3>1, <3>2
    <2>5. Count(h.in[b], Edge(a, t)) =
            Count(g.in[b], Edge(a, t))
                + (IF a = u /\ v = b /\ tr = t THEN 1 ELSE 0)
        <3>1. CASE b = v  BY <1>3, <2>2, <3>1
        <3>2. CASE b # v  BY <1>1, <2>1, <2>3, <3>2
        <3> QED  BY <3>1, <3>2
    <2> QED  BY <2>1, <2>4, <2>5
<1> QED  BY <1>1, <1>4 DEF Mirrored, h
\* The lists insert_after leaves when the edges agree: every entry that names
\* `before` as a source names the new vertex instead.
LEMMA MovedLists ==
    ASSUME NEW g, IsGraph(g), Mirrored(g), NEW before \in Vertices(g)
    PROVE  LET h == Moved(g, before)
           IN  /\ Vertices(h) = Vertices(g) \cup {g.size}
               /\ g.size \notin Vertices(g)
               /\ h.out[before] = <<>> /\ h.out[g.size] = g.out[before]
               /\ \A v \in Vertices(g) : v # before => h.out[v] = g.out[v]
               /\ h.in[g.size] = <<>>
               /\ \A v \in Vertices(g) :
                    /\ Len(h.in[v]) = Len(g.in[v])
                    /\ \A k \in 1 .. Len(g.in[v]) :
                        h.in[v][k] = IF g.in[v][k].target = before
                                     THEN Edge(g.size, g.in[v][k].tr)
                                     ELSE g.in[v][k]
<1> DEFINE n == g.size
           h == Moved(g, before)
           moved == g.out[before]
           rest == [g.out EXCEPT ![before] = <<>>]
           fixed == [v \in Vertices(g) |->
                        Retarget(g.in[v], moved, v, before, n)]
<1>1. n \in Nat /\ n >= FirstReal  BY DEF IsGraph
<1>2. /\ h.size = n + 1 /\ h.out = Grow(rest, n, moved)
      /\ h.in = Grow(fixed, n, <<>>)
    BY DEF Moved
<1> HIDE DEF h, n, moved
<1>3. Vertices(h) = 0 .. n /\ Vertices(g) = 0 .. n - 1
    BY <1>1, <1>2 DEF Vertices, n
<1>4. 0 .. n = (0 .. n - 1) \cup {n} /\ n \notin 0 .. n - 1  BY <1>1
<1>5. DOMAIN g.out = Vertices(g)  BY DEF IsGraph
<1>6. /\ rest[before] = <<>>
      /\ \A v \in Vertices(g) : v # before => rest[v] = g.out[v]
    BY <1>5
<1> HIDE DEF rest
<1>7. /\ h.out = [v \in 0 .. n |-> IF v = n THEN moved ELSE rest[v]]
      /\ h.in = [v \in 0 .. n |-> IF v = n THEN <<>> ELSE fixed[v]]
    BY <1>2 DEF Grow
<1>8. /\ h.out[before] = <<>> /\ h.out[n] = moved /\ h.in[n] = <<>>
      /\ \A v \in Vertices(g) : v # before => h.out[v] = g.out[v]
    BY <1>3, <1>4, <1>6, <1>7
<1>9. ASSUME NEW v \in Vertices(g)
      PROVE  /\ Len(h.in[v]) = Len(g.in[v])
             /\ \A k \in 1 .. Len(g.in[v]) :
                    h.in[v][k] = IF g.in[v][k].target = before
                                 THEN Edge(n, g.in[v][k].tr)
                                 ELSE g.in[v][k]
    <2> DEFINE s == g.in[v]
               renamed(k) == /\ s[k].target = before
                             /\ CountUpTo(s, s[k], k)
                                    <= Count(moved, Edge(v, s[k].tr))
    <2>1. s \in Seq(EdgeData(n))  BY GraphLists DEF n
    <2>2. Len(s) \in Nat  BY <2>1, LenProperties
    <2>3. h.in[v] = Retarget(s, moved, v, before, n)
        BY <1>3, <1>4, <1>7
    <2>4. h.in[v] = [k \in 1 .. Len(s) |-> IF renamed(k) THEN Edge(n, s[k].tr)
                                           ELSE s[k]]
        BY <2>3 DEF Retarget
    <2>5. ASSUME NEW k \in 1 .. Len(s)
          PROVE  renamed(k) <=> s[k].target = before
        <3>1. s[k] \in EdgeData(n)  BY <2>1, ElementOfSeq
        <3>2. s[k] = Edge(s[k].target, s[k].tr) /\ s[k].tr \in BlockTransfer
            BY <1>1, <3>1, EdgeParts
        <3>3. CountUpTo(s, s[k], k) <= Count(s, s[k])  BY <2>2, CountType
        <3>4. ASSUME s[k].target = before
              PROVE  Count(moved, Edge(v, s[k].tr)) = Count(s, s[k])
            <4>1. s[k] = Edge(before, s[k].tr)  BY <3>2, <3>4
            <4>2. Count(moved, Edge(v, s[k].tr)) =
                        Count(s, Edge(before, s[k].tr))
                BY <3>2 DEF Mirrored, moved
            <4> QED  BY <4>1, <4>2
        <3> HIDE DEF s
        <3> QED  BY <3>3, <3>4
    <2> HIDE DEF s, renamed
    <2>6. DOMAIN h.in[v] = 1 .. Len(s)  BY <2>4
    <2>7. Len(h.in[v]) = Len(s)
        <3>1. h.in[v] \in Seq({IF renamed(k) THEN Edge(n, s[k].tr) ELSE s[k] :
                                 k \in 1 .. Len(s)})
            BY <2>2, <2>4
        <3> QED  BY <2>2, <2>6, <3>1
    <2> QED  BY <2>4, <2>5, <2>7 DEF s
<1> QED  BY <1>3, <1>4, <1>8, <1>9 DEF h, n, moved

\* So the copies agree when the edges have moved ...
LEMMA MovedMirrored ==
    ASSUME NEW g, IsGraph(g), Mirrored(g), NEW before \in Vertices(g)
    PROVE  Mirrored(Moved(g, before))
<1> DEFINE n == g.size
           h == Moved(g, before)
           moved == g.out[before]
<1>1. /\ Vertices(h) = Vertices(g) \cup {n} /\ n \notin Vertices(g)
      /\ h.out[before] = <<>> /\ h.out[n] = moved
      /\ \A v \in Vertices(g) : v # before => h.out[v] = g.out[v]
      /\ h.in[n] = <<>>
    BY MovedLists
<1>2. \A v \in Vertices(g) :
        /\ Len(h.in[v]) = Len(g.in[v])
        /\ \A k \in 1 .. Len(g.in[v]) :
            h.in[v][k] = IF g.in[v][k].target = before
                         THEN Edge(n, g.in[v][k].tr)
                         ELSE g.in[v][k]
    BY MovedLists
<1>3. /\ n \in Nat
      /\ \A v \in Vertices(g) : /\ g.out[v] \in Seq(EdgeData(n))
                                /\ g.in[v] \in Seq(EdgeData(n))
    BY GraphLists DEF IsGraph
<1>4. \A e : Count(<<>>, e) = 0  BY CountNone
<1>5. \A v \in Vertices(g) : \A tr : Count(g.out[v], Edge(n, tr)) = 0
    <2> HIDE DEF n
    <2> QED  BY <1>3, NoEdgeToNew
<1> HIDE DEF n, h
<1>6. ASSUME NEW v \in Vertices(g), NEW k \in 1 .. Len(g.in[v])
      PROVE  /\ g.in[v][k].target \in Vertices(g)
             /\ \A u, t : g.in[v][k] = Edge(u, t) <=>
                    g.in[v][k].target = u /\ g.in[v][k].tr = t
    <2>1. g.in[v][k] \in EdgeData(n)  BY <1>3, ElementOfSeq
    <2>2. Vertices(g) = 0 .. n - 1  BY DEF Vertices, n
    <2> QED  BY <1>3, <2>1, <2>2, EdgeParts
<1>7. ASSUME NEW v \in Vertices(g), NEW u \in Vertices(h), NEW t
      PROVE  Count(h.in[v], Edge(u, t)) =
                IF u = before THEN 0
                ELSE IF u = n THEN Count(g.in[v], Edge(before, t))
                ELSE Count(g.in[v], Edge(u, t))
    <2> DEFINE s == g.in[v]
               r == h.in[v]
    <2>1. /\ Len(r) = Len(s)
          /\ \A k \in 1 .. Len(s) :
                r[k] = IF s[k].target = before THEN Edge(n, s[k].tr) ELSE s[k]
        BY <1>2
    <2>2. \A k \in 1 .. Len(s) :
            /\ s[k].target \in Vertices(g)
            /\ \A w, x : s[k] = Edge(w, x) <=> s[k].target = w /\ s[k].tr = x
        BY <1>6
    <2> HIDE DEF s, r
    <2>3. \A x : Edge(n, x) = Edge(u, t) <=> n = u /\ x = t
        BY EdgeEqual
    <2>4. CASE u = before
        <3>1. \A k \in 1 .. Len(r) : r[k] # Edge(u, t)
            BY <1>1, <2>1, <2>2, <2>3, <2>4
        <3> QED  BY <2>4, <3>1, CountNone DEF r
    <2>5. CASE u = n
        <3>1. \A k \in 1 .. Len(s) : s[k] = Edge(before, t) <=> r[k] = Edge(u, t)
            BY <1>1, <2>1, <2>2, <2>3, <2>5
        <3>2. Count(s, Edge(before, t)) = Count(r, Edge(u, t))
            BY <2>1, <3>1, CountSame
        <3> QED  BY <1>1, <2>5, <3>2 DEF s, r
    <2>6. CASE u # before /\ u # n
        <3>1. \A k \in 1 .. Len(s) : s[k] = Edge(u, t) <=> r[k] = Edge(u, t)
            BY <2>1, <2>2, <2>3, <2>6
        <3>2. Count(s, Edge(u, t)) = Count(r, Edge(u, t))
            BY <2>1, <3>1, CountSame
        <3> QED  BY <2>6, <3>2 DEF s, r
    <2> QED  BY <2>4, <2>5, <2>6
<1>8. ASSUME NEW u \in Vertices(h), NEW v \in Vertices(h),
             NEW tr \in BlockTransfer
      PROVE  Count(h.out[u], Edge(v, tr)) = Count(h.in[v], Edge(u, tr))
    <2>1. CASE v = n
        <3>1. h.out[u] = <<>> \/ \E w \in Vertices(g) : h.out[u] = g.out[w]
            BY <1>1 DEF moved
        <3> QED  BY <1>1, <1>4, <1>5, <2>1, <3>1
    <2>2. CASE v \in Vertices(g)
        <3>1. \A w \in Vertices(g) :
                Count(g.out[w], Edge(v, tr)) = Count(g.in[v], Edge(w, tr))
            BY <2>2 DEF Mirrored
        <3> QED  BY <1>1, <1>4, <1>7, <2>2, <3>1 DEF moved
    <2> QED  BY <1>1, <2>1, <2>2
<1> QED  BY <1>8 DEF Mirrored, h

\* ... and when the two vertices are linked.
LEMMA InsertAfterMirrored ==
    ASSUME NEW g, IsGraph(g), Mirrored(g),
           NEW before \in Vertices(g), NEW tr \in BlockTransfer
    PROVE  Mirrored(InsertAfter(g, before, tr))
<1>1. IsGraph(Moved(g, before)) /\ Mirrored(Moved(g, before))
    BY MovedType, MovedMirrored
<1>2. before \in Vertices(Moved(g, before)) /\ g.size \in Vertices(Moved(g, before))
    BY MovedLists
<1> QED  BY <1>1, <1>2, InsertAfterIs, EmplaceLinkMirrored
-----------------------------------------------------------------------------
(* Successors and paths *)

\* A list names what its entries name.
LEMMA TargetsAppend ==
    ASSUME NEW S, NEW s \in Seq(S), NEW e \in S
    PROVE  Targets(Append(s, e)) = Targets(s) \cup {e.target}
<1>1. /\ Len(s) \in Nat /\ Len(Append(s, e)) = Len(s) + 1
      /\ Append(s, e)[Len(s) + 1] = e
      /\ \A k \in 1 .. Len(s) : Append(s, e)[k] = s[k]
      /\ Append(s, e) \in Seq(S)
    BY AppendProperties
<1>2. DOMAIN s = 1 .. Len(s) /\ DOMAIN Append(s, e) = 1 .. Len(s) + 1
    BY <1>1, LenProperties
<1>3. \A x : x \in ToSet(s) <=> \E k \in 1 .. Len(s) : x = s[k]
    BY <1>2 DEF ToSet
<1>4. \A x : x \in ToSet(Append(s, e)) <=>
                \E k \in 1 .. Len(s) + 1 : x = Append(s, e)[k]
    BY <1>2 DEF ToSet
<1>5. ToSet(Append(s, e)) = ToSet(s) \cup {e}
    <2>1. ASSUME NEW x, x \in ToSet(Append(s, e))
          PROVE  x \in ToSet(s) \cup {e}
        <3>1. PICK k \in 1 .. Len(s) + 1 : x = Append(s, e)[k]  BY <1>4, <2>1
        <3>2. CASE k = Len(s) + 1  BY <1>1, <3>1, <3>2
        <3>3. CASE k # Len(s) + 1
            <4>1. k \in 1 .. Len(s)  BY <1>1, <3>3
            <4> QED  BY <1>1, <1>3, <3>1, <4>1
        <3> QED  BY <3>2, <3>3
    <2>2. e \in ToSet(Append(s, e))
        <3>1. Len(s) + 1 \in 1 .. Len(s) + 1  BY <1>1
        <3> QED  BY <1>1, <1>4, <3>1
    <2>3. ASSUME NEW x \in ToSet(s)
          PROVE  x \in ToSet(Append(s, e))
        <3>1. PICK k \in 1 .. Len(s) : x = s[k]  BY <1>3
        <3>2. k \in 1 .. Len(s) + 1 /\ x = Append(s, e)[k]  BY <1>1, <3>1
        <3> QED  BY <1>4, <3>2
    <2> QED  BY <2>1, <2>2, <2>3
<1> QED  BY <1>5 DEF Targets

\* Edges lead to vertices.
LEMMA SuccessorsType ==
    ASSUME NEW g, IsGraph(g), NEW v \in Vertices(g)
    PROVE  Successors(g, v) \subseteq Vertices(g)
<1>1. /\ g.size \in Nat /\ g.out[v] \in Seq(EdgeData(g.size))
      /\ Vertices(g) = 0 .. g.size - 1
    BY GraphLists
<1>2. DOMAIN g.out[v] = 1 .. Len(g.out[v])  BY <1>1, LenProperties
<1>3. ASSUME NEW k \in 1 .. Len(g.out[v])
      PROVE  g.out[v][k].target \in Vertices(g)
    <2>1. g.out[v][k] \in EdgeData(g.size)  BY <1>1, ElementOfSeq
    <2> QED  BY <1>1, <2>1, EdgeParts
<1> QED  BY <1>2, <1>3 DEF Successors, Targets, ToSet

\* A link adds one successor to its source.
LEMMA EmplaceLinkSuccessors ==
    ASSUME NEW g, IsGraph(g),
           NEW u \in Vertices(g), NEW v \in Vertices(g), NEW tr \in BlockTransfer
    PROVE  LET h == EmplaceLink(g, u, v, tr)
           IN  /\ Vertices(h) = Vertices(g)
               /\ Successors(h, u) = Successors(g, u) \cup {v}
               /\ \A w \in Vertices(g) :
                    w # u => Successors(h, w) = Successors(g, w)
<1> DEFINE h == EmplaceLink(g, u, v, tr)
           E == EdgeData(g.size)
<1>1. /\ Vertices(h) = Vertices(g)
      /\ h.out[u] = Append(g.out[u], Edge(v, tr))
      /\ \A w \in Vertices(g) : w # u => h.out[w] = g.out[w]
    BY EmplaceLinkLists
<1>2. g.out[u] \in Seq(E) /\ Edge(v, tr) \in E /\ Edge(v, tr).target = v
    BY GraphLists, EdgeType DEF Edge
<1> HIDE DEF h, E
<1>3. Targets(h.out[u]) = Targets(g.out[u]) \cup {v}
    BY <1>1, <1>2, TargetsAppend
<1> QED  BY <1>1, <1>3 DEF Successors, h

\* insert_after puts the new vertex between `before` and its successors.
LEMMA InsertAfterSuccessors ==
    ASSUME NEW g, IsGraph(g), Mirrored(g),
           NEW before \in Vertices(g), NEW tr \in BlockTransfer
    PROVE  LET h == InsertAfter(g, before, tr)
           IN  /\ Vertices(h) = Vertices(g) \cup {g.size}
               /\ g.size \notin Vertices(g)
               /\ Successors(h, before) = {g.size}
               /\ Successors(h, g.size) = Successors(g, before)
               /\ \A w \in Vertices(g) :
                    w # before => Successors(h, w) = Successors(g, w)
<1> DEFINE n == g.size
           m == Moved(g, before)
           h == InsertAfter(g, before, tr)
<1>1. /\ Vertices(m) = Vertices(g) \cup {n} /\ n \notin Vertices(g)
      /\ m.out[before] = <<>> /\ m.out[n] = g.out[before]
      /\ \A v \in Vertices(g) : v # before => m.out[v] = g.out[v]
    BY MovedLists
<1>2. IsGraph(m)  BY MovedType
<1>3. h = EmplaceLink(m, before, n, tr)  BY InsertAfterIs
<1> HIDE DEF m, n, h
<1>4. /\ Vertices(h) = Vertices(m)
      /\ Successors(h, before) = Successors(m, before) \cup {n}
      /\ \A w \in Vertices(m) :
            w # before => Successors(h, w) = Successors(m, w)
    BY <1>1, <1>2, <1>3, EmplaceLinkSuccessors
<1>5. Successors(m, before) = {}
    BY <1>1 DEF Successors, Targets, ToSet
<1>6. /\ Successors(m, n) = Successors(g, before)
      /\ \A v \in Vertices(g) : v # before => Successors(m, v) = Successors(g, v)
    BY <1>1 DEF Successors
<1> QED  BY <1>1, <1>4, <1>5, <1>6 DEF h, n

\* Everything in B is at the end of a path from r.
Rooted(g, r, B) ==
    \A S \in ClosedSets(g) : Successors(g, r) \subseteq S => B \subseteq S

\* More vertices and edges cut no path.
LEMMA RootedGrows ==
    ASSUME NEW g, NEW h, NEW B, IsGraph(g), Vertices(g) \subseteq Vertices(h),
           NEW r \in Vertices(g), Rooted(g, r, B),
           \A w \in Vertices(g) : Successors(g, w) \subseteq Successors(h, w)
    PROVE  Rooted(h, r, B)
<1> SUFFICES ASSUME NEW S \in ClosedSets(h), Successors(h, r) \subseteq S
             PROVE  B \subseteq S
    BY DEF Rooted
<1> DEFINE T == S \cap Vertices(g)
<1>1. \A w \in Vertices(g) : Successors(g, w) \subseteq Vertices(g)
    BY SuccessorsType
<1>2. T \in ClosedSets(g)  BY <1>1 DEF ClosedSets
<1>3. Successors(g, r) \subseteq T  BY <1>1
<1> QED  BY <1>2, <1>3 DEF Rooted

\* A link, and a link to a new vertex.
LEMMA RootedLink ==
    ASSUME NEW g, IsGraph(g), NEW B, NEW r \in Vertices(g), Rooted(g, r, B),
           NEW u \in Vertices(g), NEW v \in Vertices(g), NEW tr \in BlockTransfer
    PROVE  /\ Rooted(EmplaceLink(g, u, v, tr), r, B)
           /\ u \in B => Rooted(EmplaceLink(g, u, v, tr), r, B \cup {v})
<1> DEFINE h == EmplaceLink(g, u, v, tr)
<1>1. /\ Vertices(h) = Vertices(g)
      /\ Successors(h, u) = Successors(g, u) \cup {v}
      /\ \A w \in Vertices(g) : w # u => Successors(h, w) = Successors(g, w)
    BY EmplaceLinkSuccessors
<1> HIDE DEF h
<1>2. \A w \in Vertices(g) : Successors(g, w) \subseteq Successors(h, w)
    BY <1>1
<1>3. Rooted(h, r, B)  BY <1>1, <1>2, RootedGrows
<1>4. ASSUME u \in B
      PROVE  Rooted(h, r, B \cup {v})
    BY <1>1, <1>3, <1>4 DEF Rooted, ClosedSets
<1> QED  BY <1>3, <1>4 DEF h

\* A split: the tail is reached through the top.
LEMMA RootedInsert ==
    ASSUME NEW g, IsGraph(g), Mirrored(g), NEW B, NEW r \in Vertices(g),
           Rooted(g, r, B), NEW before \in Vertices(g), before \in B,
           before # r, NEW tr \in BlockTransfer
    PROVE  Rooted(InsertAfter(g, before, tr), r, B \cup {g.size})
<1> DEFINE n == g.size
           h == InsertAfter(g, before, tr)
<1>1. /\ Vertices(h) = Vertices(g) \cup {n} /\ n \notin Vertices(g)
      /\ Successors(h, before) = {n}
      /\ Successors(h, n) = Successors(g, before)
      /\ \A w \in Vertices(g) :
            w # before => Successors(h, w) = Successors(g, w)
    BY InsertAfterSuccessors
<1>2. \A w \in Vertices(g) : Successors(g, w) \subseteq Vertices(g)
    BY SuccessorsType
<1> HIDE DEF h, n
<1> SUFFICES ASSUME NEW S \in ClosedSets(h), Successors(h, r) \subseteq S
             PROVE  B \cup {n} \subseteq S
    BY DEF Rooted, h, n
<1> DEFINE T == S \cap Vertices(g)
<1>3. \A w \in S : Successors(h, w) \subseteq S  BY DEF ClosedSets
<1>4. ASSUME NEW w \in T
      PROVE  Successors(g, w) \subseteq T
    <2>1. CASE w = before  BY <1>1, <1>2, <1>3, <2>1
    <2>2. CASE w # before  BY <1>1, <1>2, <1>3, <2>2
    <2> QED  BY <2>1, <2>2
<1>5. T \in ClosedSets(g)  BY <1>4 DEF ClosedSets
<1>6. Successors(g, r) \subseteq T  BY <1>1, <1>2
<1>7. B \subseteq T  BY <1>5, <1>6 DEF Rooted
<1> QED  BY <1>1, <1>3, <1>7

-----------------------------------------------------------------------------
(* Entries at chosen positions *)

\* The numbers of K have the ranks 1 .. Cardinality(K), in their order.
LEMMA NthOfSet ==
    ASSUME NEW n \in Nat, NEW K \in SUBSET (1 .. n)
    PROVE  /\ IsFiniteSet(K) /\ Cardinality(K) \in Nat
           /\ \A k \in 1 .. Cardinality(K) : Nth(K, k) \in K
           /\ \A i \in K : \E k \in 1 .. Cardinality(K) : Nth(K, k) = i
           /\ \A k, l \in 1 .. Cardinality(K) : Nth(K, k) = Nth(K, l) => k = l
<1> DEFINE upto(i) == {j \in K : j <= i}
           rank(i) == Cardinality(upto(i))
           m == Cardinality(K)
           R == [i \in K |-> rank(i)]
<1>1. IsFiniteSet(K)
    <2>1. IsFiniteSet(1 .. n)  BY FS_Interval
    <2> QED  BY <2>1, FS_Subset
<1>2. m \in Nat  BY <1>1, FS_CardinalityType
<1>3. ASSUME NEW i \in K
      PROVE  IsFiniteSet(upto(i)) /\ rank(i) \in 1 .. m
    <2>1. upto(i) \in SUBSET K /\ i \in upto(i)  OBVIOUS
    <2> HIDE DEF upto
    <2>2. IsFiniteSet(upto(i)) /\ Cardinality(upto(i)) <= m
        BY <1>1, <2>1, FS_Subset
    <2>3. Cardinality(upto(i)) \in Nat  BY <2>2, FS_CardinalityType
    <2>4. Cardinality(upto(i)) # 0  BY <2>1, <2>2, FS_EmptySet
    <2> HIDE DEF m
    <2> QED  BY <1>2, <2>2, <2>3, <2>4
<1>4. ASSUME NEW i \in K, NEW j \in K, i < j
      PROVE  rank(i) # rank(j)
    <2>1. \A k \in K : k \in Int  OBVIOUS
    <2>2. upto(i) \subseteq upto(j)
        <3>1. ASSUME NEW k \in K, k <= i
              PROVE  k <= j
            BY <1>4, <2>1, <3>1
        <3> QED  BY <3>1
    <2>3. j \in upto(j) /\ j \notin upto(i)  BY <1>4, <2>1
    <2> HIDE DEF upto
    <2>4. upto(i) \in SUBSET upto(j) /\ upto(i) # upto(j)  BY <2>2, <2>3
    <2> QED  BY <1>3, <2>4, FS_Subset
<1>5. ASSUME NEW i \in K, NEW j \in K, rank(i) = rank(j)
      PROVE  i = j
    <2>1. i < j \/ j < i \/ i = j  OBVIOUS
    <2> HIDE DEF rank
    <2> QED  BY <1>4, <1>5, <2>1
<1> HIDE DEF rank, m
<1>6. R \in Injection(K, 1 .. m)
    <2>1. R \in [K -> 1 .. m]  BY <1>3
    <2> QED  BY <1>5, <2>1 DEF Injection, IsInjective
<1>7. IsFiniteSet(1 .. m) /\ Cardinality(1 .. m) = m
    BY <1>2, FS_Interval
<1>8. R \in Surjection(K, 1 .. m)
    <2> HIDE DEF R
    <2> QED  BY <1>6, <1>7, FS_Injection DEF m
<1>9. \A k \in 1 .. m : \E i \in K : rank(i) = k
    BY <1>8 DEF Surjection
<1>10. \A k : Nth(K, k) = CHOOSE i \in K : rank(i) = k
    BY DEF Nth, rank
<1>11. \A k \in 1 .. m : Nth(K, k) \in K /\ rank(Nth(K, k)) = k
    BY <1>9, <1>10
<1>12. ASSUME NEW i \in K
       PROVE  Nth(K, rank(i)) = i
    BY <1>3, <1>5, <1>11
<1>13. \A i \in K : \E k \in 1 .. m : Nth(K, k) = i
    BY <1>3, <1>12
<1>14. \A k, l \in 1 .. m : Nth(K, k) = Nth(K, l) => k = l
    BY <1>11
<1> QED  BY <1>1, <1>2, <1>11, <1>13, <1>14 DEF m

\* A list of chosen entries is a list.
LEMMA PickType ==
    ASSUME NEW S, NEW s \in Seq(S), NEW K \in SUBSET (1 .. Len(s))
    PROVE  /\ Pick(s, K) \in Seq(S)
           /\ Len(Pick(s, K)) = Cardinality(K) /\ Cardinality(K) \in Nat
           /\ \A k \in 1 .. Cardinality(K) :
                Nth(K, k) \in K /\ Pick(s, K)[k] = s[Nth(K, k)]
<1> DEFINE m == Cardinality(K)
           p == [k \in 1 .. m |-> s[Nth(K, k)]]
<1>1. Len(s) \in Nat  BY LenProperties
<1>2. m \in Nat /\ \A k \in 1 .. m : Nth(K, k) \in K
    BY <1>1, NthOfSet
<1> HIDE DEF m
<1>3. \A k \in 1 .. m : s[Nth(K, k)] \in S  BY <1>2, ElementOfSeq
<1>4. p \in [1 .. m -> S]  BY <1>3
<1>5. p \in Seq(S)
    <2> HIDE DEF p
    <2> QED  BY <1>2, <1>4
<1>6. Len(p) = m
    <2>1. DOMAIN p = 1 .. m  OBVIOUS
    <2> HIDE DEF p
    <2> QED  BY <1>2, <1>5, <2>1
<1>7. Pick(s, K) = p  BY DEF Pick, m
<1> QED  BY <1>2, <1>5, <1>6, <1>7 DEF m

\* Its entries are the chosen ones.
LEMMA PickEntries ==
    ASSUME NEW S, NEW s \in Seq(S), NEW K \in SUBSET (1 .. Len(s))
    PROVE  ToSet(Pick(s, K)) = {s[k] : k \in K}
<1> DEFINE p == Pick(s, K)
           m == Cardinality(K)
<1>1. /\ p \in Seq(S) /\ Len(p) = m /\ m \in Nat
      /\ \A k \in 1 .. m : Nth(K, k) \in K /\ p[k] = s[Nth(K, k)]
    BY PickType
<1>2. DOMAIN p = 1 .. m  BY <1>1, LenProperties
<1>3. Len(s) \in Nat  BY LenProperties
<1>4. \A i \in K : \E k \in 1 .. m : Nth(K, k) = i  BY <1>3, NthOfSet
<1> HIDE DEF p, m
<1>5. ToSet(p) = {p[k] : k \in 1 .. m}  BY <1>2 DEF ToSet
<1>6. \A k \in 1 .. m : \E i \in K : p[k] = s[i]  BY <1>1
<1>7. \A i \in K : \E k \in 1 .. m : p[k] = s[i]  BY <1>1, <1>4
<1>8. {p[k] : k \in 1 .. m} = {s[i] : i \in K}
    <2>1. {p[k] : k \in 1 .. m} \subseteq {s[i] : i \in K}  BY <1>6
    <2>2. {s[i] : i \in K} \subseteq {p[k] : k \in 1 .. m}  BY <1>7
    <2> QED  BY <2>1, <2>2
<1> QED  BY <1>5, <1>8 DEF p
=============================================================================
