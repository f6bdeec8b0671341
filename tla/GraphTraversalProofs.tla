------------------------ MODULE GraphTraversalProofs ------------------------
(***************************************************************************)
(* preorder and postorder visit what can be reached, once and depth first, *)
(* for any number of vertices and edges. What the shared stack has to do   *)
(* with it: the vertices its entries come from are ancestors of each other *)
(* (Chained), and every edge to a vertex not visited yet is on it          *)
(* (Pending).                                                              *)
(***************************************************************************)
EXTENDS Dominators, FlowGraphProofs

-----------------------------------------------------------------------------
(* Ancestors, as the sets closed under the parent tell them *)

\* The vertices on the way up from v, of those in V.
Above(V, p, v) ==
    {a \in V : \A S \in SUBSET V : v \in S /\ (\A x \in S : p[x] \in S) => a \in S}

\* No set of vertices leads up in a circle, past the root s.
Grounded(V, p, s) ==
    \A S \in SUBSET V : S # {} => \E v \in S : v = s \/ p[v] \notin S

\* A vertex is above itself and below its parent, and what is above that is
\* above it.
LEMMA AboveFacts ==
    ASSUME NEW V, NEW p \in [V -> V]
    PROVE  /\ \A v \in V : v \in Above(V, p, v) /\ p[v] \in Above(V, p, v)
           /\ \A a, b, c : a \in Above(V, p, b) /\ b \in Above(V, p, c)
                                => a \in Above(V, p, c)
BY DEF Above

\* A new vertex below one of the tree changes nothing above the others.
LEMMA AboveGrows ==
    ASSUME NEW V, NEW p \in [V -> V], NEW x, x \notin V,
           NEW W, W = V \cup {x}, NEW q \in [W -> W],
           \A v \in V : q[v] = p[v],
           NEW v \in V
    PROVE  Above(V, p, v) \subseteq Above(W, q, v)
<1> SUFFICES ASSUME NEW a \in Above(V, p, v), NEW S \in SUBSET W,
                    v \in S, \A y \in S : q[y] \in S
             PROVE  a \in S
    BY DEF Above
<1> DEFINE T == S \cap V
<1>1. T \in SUBSET V /\ v \in T  OBVIOUS
<1>2. \A y \in T : p[y] \in T  OBVIOUS
<1>3. a \in T  BY <1>1, <1>2 DEF Above
<1> QED  BY <1>3

\* Nor does it close a circle.
LEMMA GroundedGrows ==
    ASSUME NEW V, NEW p \in [V -> V], NEW x, x \notin V,
           NEW W, W = V \cup {x}, NEW q \in [W -> W],
           \A v \in V : q[v] = p[v],
           NEW s, q[x] \in V \/ x = s,
           Grounded(V, p, s)
    PROVE  Grounded(W, q, s)
<1> SUFFICES ASSUME NEW S \in SUBSET W, S # {}
             PROVE  \E v \in S : v = s \/ q[v] \notin S
    BY DEF Grounded
<1> DEFINE T == S \cap V
<1>1. CASE T = {}
    <2>1. S = {x}  BY <1>1
    <2> QED  BY <2>1
<1>2. CASE T # {}
    <2>1. PICK v \in T : v = s \/ p[v] \notin T  BY <1>2 DEF Grounded
    <2>2. v \in S /\ q[v] = p[v] /\ p[v] \in V  BY <2>1
    <2> QED  BY <2>1, <2>2
<1> QED  BY <1>1, <1>2

\* On a grounded tree Ancestors is Above.
LEMMA AncestorsAreAbove ==
    ASSUME parent \in [visited -> visited],
           visited # {} => start \in visited /\ parent[start] = start,
           Grounded(visited, parent, start)
    PROVE  \A v \in visited : Ancestors[v] = Above(visited, parent, v)
<1> DEFINE F == [v \in visited |-> Above(visited, parent, v)]
           Up(f) == [v \in visited |->
                        IF v = start THEN {v} ELSE {v} \cup f[parent[v]]]
<1>1. F = Up(F)
    <2> SUFFICES ASSUME NEW v \in visited
                 PROVE  Above(visited, parent, v) =
                            IF v = start THEN {v} ELSE {v} \cup F[parent[v]]
        BY Zenon
    <2>1. CASE v = start
        <3>1. {start} \in SUBSET visited /\ \A x \in {start} : parent[x] \in {start}
            OBVIOUS
        <3>2. Above(visited, parent, v) \subseteq {v}  BY <2>1, <3>1 DEF Above
        <3>3. v \in Above(visited, parent, v)  BY AboveFacts
        <3> QED  BY <2>1, <3>2, <3>3
    <2>2. CASE v # start
        <3> DEFINE u == parent[v]
                   T == {v} \cup Above(visited, parent, u)
        <3>1. u \in visited  OBVIOUS
        <3>2. T \subseteq Above(visited, parent, v)  BY <3>1, AboveFacts
        <3>3. \A x \in Above(visited, parent, u) :
                    parent[x] \in Above(visited, parent, u)
            BY DEF Above
        <3>4. u \in Above(visited, parent, u)  BY <3>1, AboveFacts
        <3>5. T \in SUBSET visited  BY DEF Above
        <3>6. \A x \in T : parent[x] \in T  BY <3>3, <3>4
        <3> HIDE DEF T
        <3>7. v \in T  BY DEF T
        <3>8. Above(visited, parent, v) \subseteq T  BY <3>5, <3>6, <3>7 DEF Above
        <3> QED  BY <2>2, <3>1, <3>2, <3>8 DEF T
    <2> QED  BY <2>1, <2>2
<1>2. Ancestors = CHOOSE f : f = Up(f)  BY DEF Ancestors
<1> HIDE DEF F
<1>3. Ancestors = Up(Ancestors)
    <2> HIDE DEF Up
    <2> QED  BY <1>1, <1>2
<1> SUFFICES ASSUME NEW w \in visited, Ancestors[w] # F[w]
             PROVE  FALSE
    BY DEF F
<1> DEFINE D == {v \in visited : Ancestors[v] # F[v]}
<1>4. PICK v \in D : v = start \/ parent[v] \notin D  BY DEF Grounded
<1>5. v \in visited /\ parent[v] \in visited /\ Ancestors[v] # F[v]  BY <1>4
<1>6. CASE v = start  BY <1>1, <1>3, <1>5, <1>6
<1>7. CASE v # start
    <2>1. Ancestors[parent[v]] = F[parent[v]]  BY <1>4, <1>5, <1>7
    <2> QED  BY <1>1, <1>3, <1>5, <1>7, <2>1
<1> QED  BY <1>6, <1>7

-----------------------------------------------------------------------------
(* The inductive invariant *)

\* The tree of the vertices visited.
TreeInv ==
    /\ parent \in [visited -> visited]
    /\ visited # {} => start \in visited /\ parent[start] = start
    /\ Grounded(visited, parent, start)
    /\ \A u \in visited : parent[u] = u \/ u \in OutOf(parent[u])
    /\ visited \subseteq Reached

\* An entry of the stack is an edge from a vertex visited ...
Edges ==
    visited # {} => \A i \in 1 .. Len(process_stack) :
        /\ process_stack[i].from \in visited
        /\ process_stack[i].v \in OutOf(process_stack[i].from)

\* ... below the vertices the entries under it come from ...
Chained ==
    visited # {} => \A j \in 1 .. Len(process_stack) : \A i \in 1 .. j :
        process_stack[i].from \in Above(visited, parent, process_stack[j].from)

\* ... and every edge to a vertex not visited has its entry.
Pending ==
    \A u \in visited : \A w \in OutOf(u) \ visited :
        \E i \in 1 .. Len(process_stack) :
            process_stack[i].v = w /\ process_stack[i].from = u

\* Only the first entry comes from nowhere.
StackInv ==
    /\ visited = {} =>
            /\ process_stack = <<[v |-> start, from |-> start, depth |-> 0]>>
            /\ path = <<>> /\ order = <<>>
    /\ over => process_stack = <<>>
    /\ Edges /\ Chained /\ Pending

\* preorder hands every vertex over when it visits it, and an edge to a later one
\* leads down.
PreInv ==
    ~post =>
        /\ path = <<>> /\ IsInjective(order) /\ ToSet(order) = visited
        /\ \A j \in 1 .. Len(order) : \A i \in 1 .. j - 1 :
                order[j] \in OutOf(order[i])
                    => order[i] \in Above(visited, parent, order[j])

\* The path of postorder, and what is left of the visited vertices.
PathInv ==
    /\ IsInjective(order) /\ IsInjective(path)
    /\ visited = ToSet(order) \cup ToSet(path)
    /\ \A i \in 1 .. Len(order), j \in 1 .. Len(path) : order[i] # path[j]
    /\ \A j \in 1 .. Len(path) : \A i \in 1 .. j :
            path[i] \in Above(visited, parent, path[j])
    /\ over => path = <<>>

\* An entry comes from the vertex of the path its depth names.
DepthInv ==
    /\ \A i \in 1 .. Len(process_stack) : visited # {} =>
            /\ process_stack[i].depth \in 1 .. Len(path)
            /\ path[process_stack[i].depth] = process_stack[i].from
    /\ \A j \in 1 .. Len(process_stack) : \A i \in 1 .. j :
            process_stack[i].depth <= process_stack[j].depth

\* An edge from a vertex handed over leads up or to one handed over before.
DoneInv ==
    \A i \in 1 .. Len(order) : \A w \in OutOf(order[i]) \ {order[i]} :
        \/ w \in Above(visited, parent, order[i])
        \/ \E j \in 1 .. i - 1 : order[j] = w

PostInv == post => PathInv /\ DepthInv /\ DoneInv

IInv == TravTypeOK /\ TreeInv /\ StackInv /\ PreInv /\ PostInv

-----------------------------------------------------------------------------
(* What visiting a vertex changes *)

\* The edges of a vertex lead to vertices.
LEMMA OutOfType ==
    ASSUME TravTypeOK, NEW v \in Vertex
    PROVE  OutOf(v) \subseteq Vertex
<1>1. out[v] \in Seq(Vertex)  BY DEF TravTypeOK
<1>2. DOMAIN out[v] = 1 .. Len(out[v])  BY <1>1, LenProperties
<1> QED  BY <1>1, <1>2, ElementOfSeq DEF OutOf, ToSet

\* The entry popped.
LEMMA TopIs ==
    ASSUME TravTypeOK, process_stack # <<>>
    PROVE  /\ Len(process_stack) \in Nat /\ Len(process_stack) >= 1
           /\ Last(process_stack) = process_stack[Len(process_stack)]
           /\ Last(process_stack) \in Entry
           /\ Front(process_stack) \in Seq(Entry)
           /\ Len(Front(process_stack)) = Len(process_stack) - 1
           /\ \A i \in 1 .. Len(process_stack) - 1 :
                Front(process_stack)[i] = process_stack[i]
<1>1. process_stack \in Seq(Entry)  BY DEF TravTypeOK
<1> HIDE DEF Entry
<1>2. Len(process_stack) \in Nat /\ Len(process_stack) >= 1
    BY <1>1, EmptySeq, LenProperties
<1>3. process_stack[Len(process_stack)] \in Entry  BY <1>1, <1>2, ElementOfSeq
<1> DEFINE n == Len(process_stack)
           f == SubSeq(process_stack, 1, n - 1)
<1>4. n - 1 \in Int /\ \A i \in 1 .. n - 1 : process_stack[i] \in Entry
    BY <1>1, <1>2, ElementOfSeq
<1> HIDE DEF n
<1>5. /\ f \in Seq(Entry)
      /\ Len(f) = IF 1 <= n - 1 THEN n - 1 - 1 + 1 ELSE 0
      /\ \A i \in 1 .. n - 1 - 1 + 1 : f[i] = process_stack[1 + i - 1]
    BY <1>4, SubSeqProperties
<1>6. Front(process_stack) = f  BY DEF Front, n
<1> HIDE DEF f
<1>7. n \in Nat /\ n >= 1  BY <1>2 DEF n
<1>8. Len(f) = n - 1 /\ \A i \in 1 .. n - 1 : f[i] = process_stack[i]
    BY <1>5, <1>7
<1> QED  BY <1>3, <1>5, <1>6, <1>7, <1>8 DEF Last, n

\* The entries pushed are the edges of the vertex to those not visited.
LEMMA PushedIs ==
    ASSUME TravTypeOK, NEW e \in Entry
    PROVE  /\ Pushed(e) \in Seq(Entry)
           /\ \A i \in 1 .. Len(Pushed(e)) :
                /\ Pushed(e)[i].from = e.v /\ Pushed(e)[i].depth = e.depth + 1
                /\ Pushed(e)[i].v \in OutOf(e.v) \ (visited \cup {e.v})
           /\ \A t \in OutOf(e.v) \ (visited \cup {e.v}) :
                \E i \in 1 .. Len(Pushed(e)) : Pushed(e)[i].v = t
<1> DEFINE s == out[e.v]
           K == {k \in 1 .. Len(s) : s[k] \notin visited \cup {e.v}}
           fresh == Pick(s, K)
           P == [i \in 1 .. Len(fresh) |->
                    [v |-> fresh[i], from |-> e.v, depth |-> e.depth + 1]]
<1>1. e.v \in Vertex /\ e.depth \in Nat /\ s \in Seq(Vertex)
    BY DEF TravTypeOK, Entry
<1>2. Pushed(e) = P  BY DEF Pushed
<1> HIDE DEF s
<1>3. K \in SUBSET (1 .. Len(s))  OBVIOUS
<1>4. fresh \in Seq(Vertex) /\ ToSet(fresh) = {s[k] : k \in K}
    BY <1>1, <1>3, PickType, PickEntries
<1>5. OutOf(e.v) = {s[k] : k \in 1 .. Len(s)}
    <2>1. DOMAIN s = 1 .. Len(s)  BY <1>1, LenProperties
    <2> QED  BY <2>1 DEF OutOf, ToSet, s
<1>6. \A t : t \in {s[k] : k \in K} <=> t \in OutOf(e.v) \ (visited \cup {e.v})
    BY <1>5
<1> HIDE DEF K, fresh
<1>7. Len(fresh) \in Nat /\ DOMAIN fresh = 1 .. Len(fresh)
    BY <1>4, LenProperties
<1>8. /\ \A i \in 1 .. Len(fresh) :
            fresh[i] \in Vertex /\ fresh[i] \in OutOf(e.v) \ (visited \cup {e.v})
      /\ \A t \in OutOf(e.v) \ (visited \cup {e.v}) :
            \E i \in 1 .. Len(fresh) : fresh[i] = t
    <2>1. ToSet(fresh) = {fresh[i] : i \in 1 .. Len(fresh)}
        BY <1>7 DEF ToSet
    <2>2. \A t : t \in {fresh[i] : i \in 1 .. Len(fresh)}
                    <=> t \in OutOf(e.v) \ (visited \cup {e.v})
        BY <1>4, <1>6, <2>1
    <2>3. \A i \in 1 .. Len(fresh) : fresh[i] \in Vertex
        BY <1>4, <1>7, ElementOfSeq
    <2> QED  BY <2>2, <2>3
<1>9. P \in [1 .. Len(fresh) -> Entry]  BY <1>1, <1>8 DEF Entry
<1>10. P \in Seq(Entry) /\ Len(P) = Len(fresh)
    <2>1. DOMAIN P = 1 .. Len(fresh)  OBVIOUS
    <2> HIDE DEF P, Entry
    <2>2. P \in Seq(Entry)  BY <1>7, <1>9
    <2> QED  BY <1>7, <2>1, <2>2, LenProperties
<1> QED  BY <1>2, <1>8, <1>10

\* The tree gets a leaf below the vertex the entry comes from.
LEMMA VisitTree ==
    ASSUME TravTypeOK, TreeInv, StackInv, Visit, NEW e, e = Last(process_stack)
    PROVE  /\ e \in Entry /\ e.v \notin visited /\ visited' = visited \cup {e.v}
           /\ parent' \in [visited' -> visited'] /\ parent'[e.v] = e.from
           /\ \A u \in visited : parent'[u] = parent[u]
           /\ visited # {} => e.from \in visited /\ e.v \in OutOf(e.from)
           /\ visited = {} => e = [v |-> start, from |-> start, depth |-> 0]
<1> DEFINE n == Len(process_stack)
<1>1. /\ e.v \notin visited /\ visited' = visited \cup {e.v}
      /\ parent' = [u \in visited \cup {e.v} |->
                        IF u = e.v THEN e.from ELSE parent[u]]
      /\ process_stack # <<>>
    BY DEF Visit
<1>2. n \in 1 .. n /\ e = process_stack[n] /\ e \in Entry
    BY <1>1, TopIs
<1>3. ASSUME visited # {}
      PROVE  e.from \in visited /\ e.v \in OutOf(e.from)
    BY <1>2, <1>3 DEF StackInv, Edges
<1>4. ASSUME visited = {}
      PROVE  e = [v |-> start, from |-> start, depth |-> 0]
    <2> DEFINE x == [v |-> start, from |-> start, depth |-> 0]
    <2>1. process_stack = <<x>>  BY <1>4 DEF StackInv
    <2> HIDE DEF x
    <2>2. n = 1 /\ process_stack[1] = x  BY <2>1
    <2> QED  BY <1>2, <2>2 DEF x
<1>5. e.from \in visited \cup {e.v}  BY <1>3, <1>4
<1>6. parent' \in [visited' -> visited']  BY <1>1, <1>5 DEF TreeInv
<1> QED  BY <1>1, <1>2, <1>3, <1>4, <1>6

\* The stack loses the entry and gets those pushed.
LEMMA VisitStack ==
    ASSUME TravTypeOK, Visit, NEW e, e = Last(process_stack),
           NEW n, n = Len(process_stack)
    PROVE  /\ n \in Nat /\ n >= 1 /\ e = process_stack[n]
           /\ process_stack' \in Seq(Entry)
           /\ Len(process_stack') \in Nat /\ Len(process_stack') >= n - 1
           /\ \A i \in 1 .. n - 1 : process_stack'[i] = process_stack[i]
           /\ \A i \in n .. Len(process_stack') :
                /\ process_stack'[i].from = e.v
                /\ process_stack'[i].depth = e.depth + 1
                /\ process_stack'[i].v \in OutOf(e.v) \ (visited \cup {e.v})
           /\ \A t \in OutOf(e.v) \ (visited \cup {e.v}) :
                \E i \in n .. Len(process_stack') : process_stack'[i].v = t
<1> DEFINE f == Front(process_stack)
           p == Pushed(e)
<1>1. process_stack # <<>> /\ process_stack' = f \o p
    BY DEF Visit
<1>2. /\ n \in Nat /\ n >= 1 /\ e = process_stack[n] /\ e \in Entry
      /\ f \in Seq(Entry) /\ Len(f) = n - 1
      /\ \A i \in 1 .. n - 1 : f[i] = process_stack[i]
    BY <1>1, TopIs
<1>3. /\ p \in Seq(Entry)
      /\ \A i \in 1 .. Len(p) :
            /\ p[i].from = e.v /\ p[i].depth = e.depth + 1
            /\ p[i].v \in OutOf(e.v) \ (visited \cup {e.v})
      /\ \A t \in OutOf(e.v) \ (visited \cup {e.v}) :
            \E i \in 1 .. Len(p) : p[i].v = t
    BY <1>2, PushedIs
<1> HIDE DEF f, p, Entry
<1>4. Len(p) \in Nat  BY <1>3, LenProperties
<1> DEFINE c == f \o p
<1>5. /\ c \in Seq(Entry) /\ Len(c) = Len(f) + Len(p)
      /\ \A i \in 1 .. Len(f) + Len(p) :
            c[i] = IF i <= Len(f) THEN f[i] ELSE p[i - Len(f)]
    <2>1. f \in Seq(Entry) /\ p \in Seq(Entry)  BY <1>2, <1>3
    <2> QED  BY ONLY <2>1, ConcatProperties
<1>6. /\ process_stack' \in Seq(Entry)
      /\ Len(process_stack') = n - 1 + Len(p)
      /\ \A i \in 1 .. n - 1 : process_stack'[i] = process_stack[i]
      /\ \A i \in 1 .. Len(p) : process_stack'[n - 1 + i] = p[i]
    <2>1. process_stack' = c  BY <1>1
    <2> HIDE DEF c
    <2>2. \A i \in 1 .. Len(p) :
                n - 1 + i \in 1 .. Len(f) + Len(p) /\ ~(n - 1 + i <= Len(f))
                /\ (n - 1 + i) - Len(f) = i
        BY <1>2, <1>4
    <2>3. \A i \in 1 .. n - 1 : i \in 1 .. Len(f) + Len(p) /\ i <= Len(f)
        BY <1>2, <1>4
    <2>4. \A i \in 1 .. n - 1 : c[i] = process_stack[i]
        BY <1>2, <1>5, <2>3
    <2>5. \A i \in 1 .. Len(p) : c[n - 1 + i] = p[i]  BY <1>5, <2>2
    <2>6. Len(c) = n - 1 + Len(p)  BY <1>2, <1>5
    <2> QED  BY <1>5, <2>1, <2>4, <2>5, <2>6
<1>7. ASSUME NEW i \in n .. Len(process_stack')
      PROVE  /\ process_stack'[i].from = e.v
             /\ process_stack'[i].depth = e.depth + 1
             /\ process_stack'[i].v \in OutOf(e.v) \ (visited \cup {e.v})
    <2>1. i - n + 1 \in 1 .. Len(p) /\ n - 1 + (i - n + 1) = i
        BY <1>2, <1>4, <1>6
    <2>2. process_stack'[i] = p[i - n + 1]  BY <1>6, <2>1
    <2> QED  BY <1>3, <2>1, <2>2
<1>8. ASSUME NEW t \in OutOf(e.v) \ (visited \cup {e.v})
      PROVE  \E i \in n .. Len(process_stack') : process_stack'[i].v = t
    <2>1. PICK i \in 1 .. Len(p) : p[i].v = t  BY <1>3
    <2>2. n - 1 + i \in n .. Len(process_stack')  BY <1>2, <1>4, <1>6
    <2> QED  BY <1>6, <2>1, <2>2
<1>9. Len(process_stack') \in Nat /\ Len(process_stack') >= n - 1
    BY <1>2, <1>4, <1>6
<1> QED  BY <1>2, <1>6, <1>7, <1>8, <1>9

\* The invariant of the tree.
LEMMA VisitKeepsTree ==
    ASSUME TravTypeOK, TreeInv, StackInv, Visit
    PROVE  TreeInv'
<1> DEFINE e == Last(process_stack)
<1>1. /\ e \in Entry /\ e.v \notin visited /\ visited' = visited \cup {e.v}
      /\ parent' \in [visited' -> visited'] /\ parent'[e.v] = e.from
      /\ \A u \in visited : parent'[u] = parent[u]
      /\ visited # {} => e.from \in visited /\ e.v \in OutOf(e.from)
      /\ visited = {} => e = [v |-> start, from |-> start, depth |-> 0]
    BY VisitTree
<1>2. start' = start /\ out' = out  BY DEF Visit
<1> HIDE DEF e
<1>3. visited' # {} => start \in visited' /\ parent'[start] = start
    BY <1>1 DEF TreeInv
<1>4. Grounded(visited', parent', start)
    <2>1. parent'[e.v] \in visited \/ e.v = start  BY <1>1
    <2> QED  BY <1>1, <2>1, GroundedGrows DEF TreeInv
<1>5. ASSUME NEW u \in visited'
      PROVE  parent'[u] = u \/ u \in OutOf(parent'[u])
    <2>1. CASE u \in visited  BY <1>1, <2>1 DEF TreeInv
    <2>2. CASE u = e.v  BY <1>1, <2>2
    <2> QED  BY <1>1, <2>1, <2>2
<1>6. e.v \in Reached
    <2>1. e.v \in Vertex  BY <1>1 DEF Entry
    <2> SUFFICES ASSUME NEW S \in SUBSET Vertex, start \in S,
                        \A u \in S : OutOf(u) \subseteq S
                 PROVE  e.v \in S
        BY <2>1 DEF Reached
    <2>2. CASE visited = {}  BY <1>1, <2>2
    <2>3. CASE visited # {}
        <3>1. e.from \in Reached  BY <1>1, <2>3 DEF TreeInv
        <3>2. e.from \in S  BY <3>1 DEF Reached
        <3> QED  BY <1>1, <2>3, <3>2
    <2> QED  BY <2>2, <2>3
<1>7. Reached' = Reached /\ \A u : OutOf(u)' = OutOf(u)
    BY <1>2 DEF Reached, OutOf
<1>8. visited' \subseteq Reached  BY <1>1, <1>6 DEF TreeInv
<1>9. ASSUME NEW u \in visited'
      PROVE  parent'[u] = u \/ u \in OutOf(parent[u])'
    BY <1>2, <1>5 DEF OutOf
<1> QED  BY <1>1, <1>2, <1>3, <1>4, <1>7, <1>8, <1>9 DEF TreeInv

\* What is above a vertex stays above it, and the new one is below the vertex
\* it comes from.
LEMMA VisitAbove ==
    ASSUME TravTypeOK, TreeInv, StackInv, Visit, NEW e, e = Last(process_stack)
    PROVE  /\ \A u \in visited :
                Above(visited, parent, u) \subseteq Above(visited', parent', u)
           /\ e.v \in Above(visited', parent', e.v)
           /\ visited # {} => Above(visited, parent, e.from)
                                \subseteq Above(visited', parent', e.v)
           /\ visited # {} => e.from \in Above(visited', parent', e.v)
<1>1. /\ e \in Entry /\ e.v \notin visited /\ visited' = visited \cup {e.v}
      /\ parent' \in [visited' -> visited'] /\ parent'[e.v] = e.from
      /\ \A u \in visited : parent'[u] = parent[u]
      /\ visited # {} => e.from \in visited /\ e.v \in OutOf(e.from)
      /\ visited = {} => e = [v |-> start, from |-> start, depth |-> 0]
    BY VisitTree
<1>2. parent \in [visited -> visited]  BY DEF TreeInv
<1>3. \A u \in visited :
            Above(visited, parent, u) \subseteq Above(visited', parent', u)
    BY <1>1, <1>2, AboveGrows
<1>4. /\ \A u \in visited' : /\ u \in Above(visited', parent', u)
                             /\ parent'[u] \in Above(visited', parent', u)
      /\ \A a, b, c : a \in Above(visited', parent', b)
                        /\ b \in Above(visited', parent', c)
                            => a \in Above(visited', parent', c)
    BY <1>1, AboveFacts
<1>5. e.v \in visited'  BY <1>1
<1> QED  BY <1>1, <1>3, <1>4, <1>5

\* The invariant of the stack.
LEMMA VisitKeepsStack ==
    ASSUME TravTypeOK, TreeInv, StackInv, Visit
    PROVE  StackInv'
<1> DEFINE e == Last(process_stack)
           n == Len(process_stack)
<1>1. /\ e \in Entry /\ e.v \notin visited /\ visited' = visited \cup {e.v}
      /\ visited # {} => e.from \in visited
      /\ visited = {} => e = [v |-> start, from |-> start, depth |-> 0]
    BY VisitTree
<1>2. /\ n \in Nat /\ n >= 1 /\ e = process_stack[n]
      /\ Len(process_stack') \in Nat /\ Len(process_stack') >= n - 1
      /\ \A i \in 1 .. n - 1 : process_stack'[i] = process_stack[i]
      /\ \A i \in n .. Len(process_stack') :
            /\ process_stack'[i].from = e.v
            /\ process_stack'[i].v \in OutOf(e.v) \ (visited \cup {e.v})
      /\ \A t \in OutOf(e.v) \ (visited \cup {e.v}) :
            \E i \in n .. Len(process_stack') : process_stack'[i].v = t
    BY VisitStack
<1>3. /\ \A u \in visited :
            Above(visited, parent, u) \subseteq Above(visited', parent', u)
      /\ e.v \in Above(visited', parent', e.v)
      /\ visited # {} => Above(visited, parent, e.from)
                            \subseteq Above(visited', parent', e.v)
    BY VisitAbove
<1>4. out' = out /\ over' = over /\ process_stack # <<>>  BY DEF Visit
<1>5. ~over  BY <1>4 DEF StackInv
<1>6. visited = {} => n = 1
    <2> DEFINE x == [v |-> start, from |-> start, depth |-> 0]
    <2>1. visited = {} => process_stack = <<x>>  BY DEF StackInv
    <2> HIDE DEF x
    <2> QED  BY <2>1
<1> HIDE DEF e, n
<1>7. \A i \in 1 .. Len(process_stack') : i \in 1 .. n - 1 \/ i \in n .. Len(process_stack')
    BY <1>2
<1>8. \A i \in 1 .. n - 1 : visited # {} /\ i \in 1 .. n
    BY <1>2, <1>6
<1>9. Edges'
    <2> SUFFICES ASSUME NEW i \in 1 .. Len(process_stack')
                 PROVE  /\ process_stack'[i].from \in visited'
                        /\ process_stack'[i].v \in OutOf(process_stack'[i].from)
        BY <1>4 DEF Edges, OutOf
    <2>1. CASE i \in 1 .. n - 1
        BY <1>1, <1>2, <1>8, <2>1 DEF StackInv, Edges, n
    <2>2. CASE i \in n .. Len(process_stack')  BY <1>1, <1>2, <2>2
    <2> QED  BY <1>7, <2>1, <2>2
<1>10. Chained'
    <2> SUFFICES ASSUME NEW j \in 1 .. Len(process_stack'), NEW i \in 1 .. j
                 PROVE  process_stack'[i].from
                            \in Above(visited', parent', process_stack'[j].from)
        BY DEF Chained
    <2>1. CASE j \in 1 .. n - 1
        <3>1. i \in 1 .. n - 1 /\ j \in 1 .. n /\ visited # {}
            BY <1>2, <1>8, <2>1
        <3>2. /\ process_stack'[i] = process_stack[i]
              /\ process_stack'[j] = process_stack[j]
            BY <1>2, <2>1, <3>1
        <3>3. /\ process_stack[j].from \in visited
              /\ process_stack[i].from
                    \in Above(visited, parent, process_stack[j].from)
            BY <3>1 DEF StackInv, Edges, Chained, n
        <3> QED  BY <1>3, <3>2, <3>3
    <2>2. CASE j \in n .. Len(process_stack') /\ i \in 1 .. n - 1
        <3>1. visited # {} /\ i \in 1 .. n /\ n \in 1 .. n
            <4>1. n \in Nat /\ n >= 1  BY <1>2
            <4> QED  BY <1>8, <2>2, <4>1
        <3>2. process_stack[i].from \in Above(visited, parent, e.from)
            BY <1>2, <3>1 DEF StackInv, Chained, n
        <3> QED  BY <1>2, <1>3, <2>2, <3>1, <3>2
    <2>3. CASE j \in n .. Len(process_stack') /\ i \in n .. Len(process_stack')
        BY <1>2, <1>3, <2>3
    <2> QED  BY <1>7, <2>1, <2>2, <2>3
<1>11. Pending'
    <2> SUFFICES ASSUME NEW u \in visited', NEW w \in OutOf(u) \ visited'
                 PROVE  \E i \in 1 .. Len(process_stack') :
                            process_stack'[i].v = w /\ process_stack'[i].from = u
        BY <1>4 DEF Pending, OutOf
    <2>1. CASE u = e.v
        <3>1. PICK i \in n .. Len(process_stack') : process_stack'[i].v = w
            BY <1>1, <1>2, <2>1
        <3> QED  BY <1>2, <2>1, <3>1
    <2>2. CASE u \in visited
        <3>1. PICK i \in 1 .. n : process_stack[i].v = w /\ process_stack[i].from = u
            BY <1>1, <2>2 DEF StackInv, Pending, n
        <3>2. i # n  BY <1>1, <1>2, <3>1
        <3>3. i \in 1 .. n - 1 /\ i \in 1 .. Len(process_stack')
            BY <1>2, <3>2
        <3> QED  BY <1>2, <3>1, <3>3
    <2> QED  BY <1>1, <2>1, <2>2
<1>12. visited' # {}  BY <1>1
<1> QED  BY <1>4, <1>5, <1>9, <1>10, <1>11, <1>12 DEF StackInv

\* The vertices a vertex to be visited has edges from are above it: their
\* entries are on the stack.
LEMMA EdgesFromAbove ==
    ASSUME TravTypeOK, TreeInv, StackInv, Visit, NEW e, e = Last(process_stack),
           NEW u \in visited, e.v \in OutOf(u)
    PROVE  u \in Above(visited', parent', e.v)
<1> DEFINE n == Len(process_stack)
<1>1. n \in Nat /\ n >= 1 /\ e = process_stack[n]  BY VisitStack
<1>2. e.v \notin visited  BY VisitTree
<1>3. PICK i \in 1 .. n : process_stack[i].from = u
    BY <1>2 DEF StackInv, Pending
<1>4. u \in Above(visited, parent, e.from)
    BY <1>1, <1>3 DEF StackInv, Chained
<1> QED  BY <1>4, VisitAbove

\* preorder: the vertex comes last.
LEMMA VisitKeepsPre ==
    ASSUME TravTypeOK, TreeInv, StackInv, PreInv, Visit, ~post
    PROVE  PreInv'
<1> DEFINE e == Last(process_stack)
           n == Len(order)
<1>1. e \in Entry /\ e.v \notin visited /\ visited' = visited \cup {e.v}
    BY VisitTree
<1>2. e.v \in Vertex  BY <1>1 DEF Entry
<1>3. order' = Append(order, e.v) /\ path' = path /\ out' = out  BY DEF Visit
<1>4. \A u \in visited :
            Above(visited, parent, u) \subseteq Above(visited', parent', u)
    BY VisitAbove
<1>5. \A u \in visited : e.v \in OutOf(u) => u \in Above(visited', parent', e.v)
    BY EdgesFromAbove
<1> HIDE DEF e
<1>6. order \in Seq(Vertex) /\ n \in Nat /\ DOMAIN order = 1 .. n
    BY LenProperties DEF TravTypeOK
<1>7. /\ order' \in Seq(Vertex) /\ Len(order') = n + 1
      /\ \A i \in 1 .. n : order'[i] = order[i]
      /\ order'[n + 1] = e.v
    BY <1>2, <1>3, <1>6, AppendProperties
<1>8. DOMAIN order' = 1 .. n + 1  BY <1>7, LenProperties
<1> HIDE DEF n
<1>9. /\ path = <<>> /\ IsInjective(order) /\ ToSet(order) = visited
      /\ \A j \in 1 .. n : \A i \in 1 .. j - 1 :
                order[j] \in OutOf(order[i])
                    => order[i] \in Above(visited, parent, order[j])
    BY DEF PreInv, n
<1>10. \A i \in 1 .. n : order[i] \in visited
    BY <1>6, <1>9 DEF ToSet
<1>11. \A i \in 1 .. n + 1 : i \in 1 .. n \/ i = n + 1  BY <1>6
<1>12. IsInjective(order')
    <2> SUFFICES ASSUME NEW i \in 1 .. n + 1, NEW j \in 1 .. n + 1,
                        order'[i] = order'[j]
                 PROVE  i = j
        BY <1>8 DEF IsInjective
    <2>1. CASE i \in 1 .. n /\ j \in 1 .. n
        BY <1>6, <1>7, <1>9, <2>1 DEF IsInjective
    <2>2. CASE i = n + 1 \/ j = n + 1
        BY <1>1, <1>7, <1>10, <1>11, <2>2
    <2> QED  BY <1>11, <2>1, <2>2
<1>13. ToSet(order') = visited'
    <2>1. ToSet(order') = {order'[i] : i \in 1 .. n + 1}  BY <1>8 DEF ToSet
    <2>2. ToSet(order) = {order[i] : i \in 1 .. n}  BY <1>6 DEF ToSet
    <2>3. \A i \in 1 .. n : i \in 1 .. n + 1  BY <1>6
    <2>4. n + 1 \in 1 .. n + 1  BY <1>6
    <2>5. \A x : x \in {order'[i] : i \in 1 .. n + 1}
                    <=> x \in {order[i] : i \in 1 .. n} \/ x = e.v
        BY <1>7, <1>11, <2>3, <2>4
    <2> QED  BY <1>1, <1>9, <2>1, <2>2, <2>5
<1>14. ASSUME NEW j \in 1 .. n + 1, NEW i \in 1 .. j - 1,
              order'[j] \in OutOf(order'[i])
       PROVE  order'[i] \in Above(visited', parent', order'[j])
    <2>1. i \in 1 .. n  BY <1>6
    <2>2. CASE j \in 1 .. n
        BY <1>4, <1>7, <1>9, <1>10, <1>14, <2>1, <2>2
    <2>3. CASE j = n + 1
        BY <1>5, <1>7, <1>10, <1>14, <2>1, <2>3
    <2> QED  BY <1>11, <2>2, <2>3
<1> QED
    BY <1>3, <1>7, <1>9, <1>12, <1>13, <1>14 DEF PreInv, OutOf

-----------------------------------------------------------------------------
(* What postorder hands over *)

\* The calls of the visitor once the path is cut to d vertices: the rest of it has
\* followed from the deepest up.
Handed(d) == order \o Reverse(SubSeq(path, d + 1, Len(path)))

LEMMA HandedIs ==
    ASSUME TravTypeOK, NEW d \in 0 .. Len(path)
    PROVE  /\ Len(order) \in Nat /\ Len(path) \in Nat
           /\ d \in Nat /\ d <= Len(path)
           /\ Handed(d) \in Seq(Vertex)
           /\ Len(Handed(d)) = Len(order) + Len(path) - d
           /\ \A i \in 1 .. Len(order) : Handed(d)[i] = order[i]
           /\ \A i \in Len(order) + 1 .. Len(order) + Len(path) - d :
                /\ Handed(d)[i] = path[Len(order) + Len(path) - i + 1]
                /\ Len(order) + Len(path) - i + 1 \in d + 1 .. Len(path)
           /\ \A k \in d + 1 .. Len(path) :
                Handed(d)[Len(order) + Len(path) - k + 1] = path[k]
<1> DEFINE m == Len(order)
           p == Len(path)
           h == Handed(d)
           s == SubSeq(path, d + 1, p)
           r == Reverse(s)
           l == p - d
<1>1. /\ order \in Seq(Vertex) /\ path \in Seq(Vertex)
      /\ m \in Nat /\ p \in Nat /\ d \in Nat /\ d <= p
    BY LenProperties DEF TravTypeOK
<1>2. d + 1 \in Int /\ p \in Int /\ \A k \in d + 1 .. p : path[k] \in Vertex
    BY <1>1, ElementOfSeq
<1>3. /\ s \in Seq(Vertex)
      /\ Len(s) = IF d + 1 <= p THEN p - (d + 1) + 1 ELSE 0
      /\ \A i \in 1 .. p - (d + 1) + 1 : s[i] = path[d + 1 + i - 1]
    BY ONLY <1>2, SubSeqProperties
<1> HIDE DEF s
<1>4. /\ l \in Nat /\ Len(s) = l
      /\ \A i \in 1 .. l : s[i] = path[d + i]
    BY <1>1, <1>3
<1>5. r = [i \in 1 .. l |-> s[l - i + 1]]  BY <1>4 DEF Reverse
<1>6. r \in [1 .. l -> Vertex]
    <2>1. \A i \in 1 .. l : l - i + 1 \in 1 .. Len(s)  BY <1>4
    <2> QED  BY <1>3, <1>5, <2>1, ElementOfSeq
<1>7. r \in Seq(Vertex) /\ Len(r) = l
    <2>1. l \in Nat /\ DOMAIN r = 1 .. l  BY <1>4, <1>6
    <2> HIDE DEF r, l
    <2>2. r \in Seq(Vertex)  BY ONLY <1>6, <2>1
    <2> QED  BY ONLY <2>1, <2>2, LenProperties
<1>8. \A i \in 1 .. l : r[i] = path[p - i + 1]
    <2> SUFFICES ASSUME NEW i \in 1 .. l
                 PROVE  r[i] = path[p - i + 1]
        OBVIOUS
    <2>1. l - i + 1 \in 1 .. l /\ d + (l - i + 1) = p - i + 1  BY <1>1, <1>4
    <2> QED  BY <1>4, <1>5, <2>1
<1> HIDE DEF r
<1>9. h = order \o r  BY DEF r, s, Handed
<1>10. /\ order \o r \in Seq(Vertex) /\ Len(order \o r) = Len(order) + Len(r)
       /\ \A i \in 1 .. Len(order) + Len(r) : (order \o r)[i] =
                IF i <= Len(order) THEN order[i] ELSE r[i - Len(order)]
    BY ONLY <1>1, <1>7, ConcatProperties
<1>11. /\ h \in Seq(Vertex) /\ Len(h) = m + l
       /\ \A i \in 1 .. m + l : h[i] = IF i <= m THEN order[i] ELSE r[i - m]
    BY <1>7, <1>9, <1>10
<1>12. \A i \in 1 .. m : h[i] = order[i]
    <2>1. \A i \in 1 .. m : i \in 1 .. m + l /\ i <= m  BY <1>1, <1>4
    <2> QED  BY <1>11, <2>1
<1>13. ASSUME NEW i \in m + 1 .. m + p - d
       PROVE  h[i] = path[m + p - i + 1] /\ m + p - i + 1 \in d + 1 .. p
    <2>1. /\ i \in 1 .. m + l /\ ~(i <= m) /\ i - m \in 1 .. l
          /\ p - (i - m) + 1 = m + p - i + 1
          /\ m + p - i + 1 \in d + 1 .. p
        BY <1>1
    <2> QED  BY <1>8, <1>11, <2>1
<1>14. ASSUME NEW k \in d + 1 .. p
       PROVE  h[m + p - k + 1] = path[k]
    <2> DEFINE i == m + p - k + 1
    <2>1. i \in m + 1 .. m + p - d /\ m + p - i + 1 = k  BY <1>1
    <2> HIDE DEF i
    <2>2. h[i] = path[k]  BY <1>13, <2>1
    <2> QED  BY <2>2 DEF i
<1>15. Len(h) = m + p - d  BY <1>1, <1>11
<1> HIDE DEF h, m, p
<1>16. /\ m \in Nat /\ p \in Nat /\ d \in Nat /\ d <= p
       /\ h \in Seq(Vertex) /\ Len(h) = m + p - d
       /\ \A i \in 1 .. m : h[i] = order[i]
       /\ \A i \in m + 1 .. m + p - d :
            h[i] = path[m + p - i + 1] /\ m + p - i + 1 \in d + 1 .. p
       /\ \A k \in d + 1 .. p : h[m + p - k + 1] = path[k]
    BY <1>1, <1>11, <1>12, <1>13, <1>14, <1>15
<1> QED  BY ONLY <1>16 DEF h, m, p

\* When no vertex handed over has an edge to one not visited, what holds of the
\* vertices handed over goes on to hold.
LEMMA HandedDone ==
    ASSUME TravTypeOK, PathInv, DoneInv, NEW d \in 0 .. Len(path),
           \A k \in d + 1 .. Len(path) : OutOf(path[k]) \subseteq visited
    PROVE  /\ IsInjective(Handed(d))
           /\ \A i \in 1 .. Len(Handed(d)) :
                \A w \in OutOf(Handed(d)[i]) \ {Handed(d)[i]} :
                    \/ w \in Above(visited, parent, Handed(d)[i])
                    \/ \E j \in 1 .. i - 1 : Handed(d)[j] = w
<1> DEFINE m == Len(order)
           p == Len(path)
           h == Handed(d)
<1>1. /\ m \in Nat /\ p \in Nat /\ d \in Nat /\ d <= p
      /\ h \in Seq(Vertex) /\ Len(h) = m + p - d
      /\ \A i \in 1 .. m : h[i] = order[i]
      /\ \A i \in m + 1 .. m + p - d :
            h[i] = path[m + p - i + 1] /\ m + p - i + 1 \in d + 1 .. p
      /\ \A k \in d + 1 .. p : h[m + p - k + 1] = path[k]
    BY HandedIs
<1>2. /\ DOMAIN h = 1 .. m + p - d
      /\ DOMAIN order = 1 .. m /\ DOMAIN path = 1 .. p
    <2>1. order \in Seq(Vertex) /\ path \in Seq(Vertex)  BY DEF TravTypeOK
    <2> QED  BY <1>1, <2>1, LenProperties
<1> HIDE DEF m, p, h
<1>3. /\ \A i \in 1 .. m, j \in 1 .. p : order[i] # path[j]
      /\ \A i, j \in 1 .. m : order[i] = order[j] => i = j
      /\ \A i, j \in 1 .. p : path[i] = path[j] => i = j
    BY <1>2 DEF PathInv, IsInjective, m, p
<1>4. \A i \in 1 .. m + p - d : i \in 1 .. m \/ i \in m + 1 .. m + p - d
    BY <1>1
<1>5. \A k \in d + 1 .. p : k \in 1 .. p  BY <1>1
<1>6. ASSUME NEW i \in 1 .. m + p - d, NEW j \in 1 .. m + p - d, h[i] = h[j]
      PROVE  i = j
    <2>1. CASE i \in 1 .. m /\ j \in 1 .. m  BY <1>1, <1>3, <1>6, <2>1
    <2>2. CASE i \in 1 .. m /\ j \in m + 1 .. m + p - d
        BY <1>1, <1>3, <1>5, <1>6, <2>2
    <2>3. CASE i \in m + 1 .. m + p - d /\ j \in 1 .. m
        BY <1>1, <1>3, <1>5, <1>6, <2>3
    <2>4. CASE i \in m + 1 .. m + p - d /\ j \in m + 1 .. m + p - d
        <3>1. m + p - i + 1 = m + p - j + 1  BY <1>1, <1>3, <1>5, <1>6, <2>4
        <3> QED  BY <1>1, <3>1
    <2> QED  BY <1>4, <2>1, <2>2, <2>3, <2>4
<1>7. IsInjective(h)  BY <1>2, <1>6 DEF IsInjective
<1>8. ASSUME NEW i \in 1 .. m + p - d, NEW w \in OutOf(h[i]) \ {h[i]}
      PROVE  \/ w \in Above(visited, parent, h[i])
             \/ \E j \in 1 .. i - 1 : h[j] = w
    <2>1. CASE i \in 1 .. m
        <3>1. h[i] = order[i]  BY <1>1, <2>1
        <3>2. CASE w \in Above(visited, parent, order[i])  BY <3>1, <3>2
        <3>3. CASE \E j \in 1 .. i - 1 : order[j] = w
            <4>1. PICK j \in 1 .. i - 1 : order[j] = w  BY <3>3
            <4>2. j \in 1 .. m  BY <1>1, <2>1
            <4> QED  BY <1>1, <4>1, <4>2
        <3> QED  BY <1>8, <2>1, <3>1, <3>2, <3>3 DEF DoneInv, m
    <2>2. CASE i \in m + 1 .. m + p - d
        <3> DEFINE k == m + p - i + 1
        <3>1. h[i] = path[k] /\ k \in d + 1 .. p  BY <1>1, <2>2
        <3>2. w \in visited  BY <1>8, <3>1 DEF p
        <3>3. w \in ToSet(order) \cup ToSet(path)  BY <3>2 DEF PathInv
        <3>4. CASE w \in ToSet(order)
            <4>1. PICK j \in 1 .. m : w = order[j]  BY <1>2, <3>4 DEF ToSet
            <4>2. j \in 1 .. i - 1  BY <1>1, <2>2
            <4> QED  BY <1>1, <4>1, <4>2
        <3>5. CASE w \in ToSet(path)
            <4>1. PICK q \in 1 .. p : w = path[q]  BY <1>2, <3>5 DEF ToSet
            <4>2. CASE q <= k
                <5>1. q \in 1 .. k /\ k \in 1 .. p  BY <1>1, <3>1, <4>2
                <5> HIDE DEF k
                <5>2. w \in Above(visited, parent, path[k])
                    BY <4>1, <5>1 DEF PathInv, p
                <5> QED  BY <3>1, <5>2
            <4>3. CASE q > k
                <5>1. q \in d + 1 .. p /\ m + p - q + 1 \in 1 .. i - 1
                    BY <1>1, <2>2, <3>1, <4>3
                <5>2. h[m + p - q + 1] = w  BY <1>1, <4>1, <5>1
                <5> QED  BY <5>1, <5>2
            <4>4. q \in Int /\ k \in Int  BY <1>1, <3>1
            <4>5. q <= k \/ q > k
                <5> HIDE DEF k
                <5> QED  BY <4>4
            <4> QED  BY <4>2, <4>3, <4>5
        <3> QED  BY <3>3, <3>4, <3>5
    <2> QED  BY <1>4, <2>1, <2>2
<1> QED  BY <1>1, <1>7, <1>8 DEF h

\* What visiting a vertex does to the order and the path of postorder.
LEMMA VisitPost ==
    ASSUME TravTypeOK, TreeInv, StackInv, PathInv, DepthInv, Visit, post,
           NEW e, e = Last(process_stack), NEW d, d = e.depth
    PROVE  /\ d \in 0 .. Len(path) /\ Len(path) \in Nat
           /\ order' = Handed(d)
           /\ path' \in Seq(Vertex) /\ Len(path') = d + 1
           /\ \A i \in 1 .. d : path'[i] = path[i]
           /\ path'[d + 1] = e.v
           /\ visited # {} => d \in 1 .. Len(path) /\ path[d] = e.from
           /\ \A k \in d + 1 .. Len(path) : OutOf(path[k]) \subseteq visited
<1> DEFINE n == Len(process_stack)
           p == Len(path)
           s == SubSeq(path, 1, d)
<1>1. /\ e \in Entry
      /\ visited = {} => e = [v |-> start, from |-> start, depth |-> 0]
    BY VisitTree
<1>2. n \in Nat /\ n >= 1 /\ e = process_stack[n]  BY VisitStack
<1>3. path \in Seq(Vertex) /\ p \in Nat /\ DOMAIN path = 1 .. p
    BY LenProperties DEF TravTypeOK
<1>4. e.v \in Vertex /\ d \in Nat  BY <1>1 DEF Entry
<1>5. visited # {} => d \in 1 .. p /\ path[d] = e.from
    BY <1>2 DEF DepthInv
<1>6. visited = {} => d = 0  BY <1>1
<1>7. d \in 0 .. p  BY <1>3, <1>4, <1>5, <1>6
<1>8. order' = Handed(d)  BY DEF Visit, HandedOver, Handed
<1>9. path' = Append(s, e.v)  BY DEF Visit
<1>10. s \in Seq(Vertex) /\ Len(s) = d /\ \A i \in 1 .. d : s[i] = path[i]
    <2>1. /\ 1 \in Int /\ d \in Int
          /\ \A i \in 1 .. d : path[i] \in Vertex
        BY <1>3, <1>7, ElementOfSeq
    <2>2. /\ s \in Seq(Vertex)
          /\ Len(s) = IF 1 <= d THEN d - 1 + 1 ELSE 0
          /\ \A i \in 1 .. d - 1 + 1 : s[i] = path[1 + i - 1]
        BY ONLY <2>1, SubSeqProperties
    <2> HIDE DEF s
    <2>3. d - 1 + 1 = d /\ (~(1 <= d) => d = 0) /\ \A i \in 1 .. d : 1 + i - 1 = i
        BY <1>4
    <2> QED  BY <2>2, <2>3
<1> HIDE DEF s
<1>11. /\ path' \in Seq(Vertex) /\ Len(path') = d + 1
       /\ \A i \in 1 .. d : path'[i] = path[i]
       /\ path'[d + 1] = e.v
    BY <1>4, <1>9, <1>10, AppendProperties
<1>12. ASSUME NEW k \in d + 1 .. p, NEW w \in OutOf(path[k]), w \notin visited
       PROVE  FALSE
    <2>1. k \in 1 .. p  BY <1>3, <1>4
    <2>2. path[k] \in visited  BY <1>3, <2>1 DEF PathInv, ToSet
    <2>3. PICK i \in 1 .. n : process_stack[i].from = path[k]
        BY <1>12, <2>2 DEF StackInv, Pending
    <2>4. /\ process_stack[i].depth \in 1 .. p
          /\ path[process_stack[i].depth] = path[k]
        BY <2>2, <2>3 DEF DepthInv
    <2>5. process_stack[i].depth = k
        BY <1>3, <2>1, <2>4 DEF PathInv, IsInjective
    <2>6. process_stack[i].depth <= d
        <3>1. n \in 1 .. n /\ i \in 1 .. n  BY <1>2
        <3> QED  BY <1>2, <3>1 DEF DepthInv
    <2> QED  BY <1>4, <2>5, <2>6
<1> QED  BY <1>3, <1>5, <1>7, <1>8, <1>11, <1>12

\* The path is a way down the tree, and with the order holds what is visited.
LEMMA VisitKeepsPath ==
    ASSUME TravTypeOK, TreeInv, StackInv, PathInv, DepthInv, DoneInv, Visit, post
    PROVE  PathInv'
<1> DEFINE e == Last(process_stack)
           d == e.depth
           m == Len(order)
           p == Len(path)
           h == Handed(d)
<1>1. /\ e.v \notin visited /\ visited' = visited \cup {e.v}
    BY VisitTree
<1>2. /\ d \in 0 .. p /\ p \in Nat
      /\ order' = h
      /\ path' \in Seq(Vertex) /\ Len(path') = d + 1
      /\ \A i \in 1 .. d : path'[i] = path[i]
      /\ path'[d + 1] = e.v
      /\ visited # {} => d \in 1 .. p /\ path[d] = e.from
      /\ \A k \in d + 1 .. p : OutOf(path[k]) \subseteq visited
    BY VisitPost
<1>3. IsInjective(h)  BY <1>2, HandedDone
<1>4. /\ m \in Nat /\ d \in Nat /\ d <= p
      /\ h \in Seq(Vertex) /\ Len(h) = m + p - d
      /\ \A i \in 1 .. m : h[i] = order[i]
      /\ \A i \in m + 1 .. m + p - d :
            h[i] = path[m + p - i + 1] /\ m + p - i + 1 \in d + 1 .. p
      /\ \A k \in d + 1 .. p : h[m + p - k + 1] = path[k]
    BY <1>2, HandedIs
<1>5. /\ \A u \in visited :
            Above(visited, parent, u) \subseteq Above(visited', parent', u)
      /\ e.v \in Above(visited', parent', e.v)
      /\ visited # {} => Above(visited, parent, e.from)
                            \subseteq Above(visited', parent', e.v)
    BY VisitAbove
<1>6. over' = over /\ ~over  BY DEF Visit, StackInv
<1> HIDE DEF e
<1>7. /\ DOMAIN order = 1 .. m /\ DOMAIN path = 1 .. p
      /\ DOMAIN h = 1 .. m + p - d /\ DOMAIN path' = 1 .. d + 1
    <2>1. order \in Seq(Vertex) /\ path \in Seq(Vertex)  BY DEF TravTypeOK
    <2> QED  BY <1>2, <1>4, <2>1, LenProperties
<1> HIDE DEF d, m, p, h
<1>8. /\ \A i \in 1 .. m, j \in 1 .. p : order[i] # path[j]
      /\ \A i, j \in 1 .. p : path[i] = path[j] => i = j
      /\ \A x : x \in visited <=> \/ \E i \in 1 .. m : x = order[i]
                                  \/ \E i \in 1 .. p : x = path[i]
      /\ \A j \in 1 .. p : \A i \in 1 .. j :
            path[i] \in Above(visited, parent, path[j])
    BY <1>7 DEF PathInv, IsInjective, ToSet, m, p
<1>9. /\ \A i \in 1 .. d : i \in 1 .. p
      /\ \A i \in d + 1 .. p : i \in 1 .. p
      /\ \A i \in 1 .. d + 1 : i \in 1 .. d \/ i = d + 1
      /\ \A i \in 1 .. m + p - d : i \in 1 .. m \/ i \in m + 1 .. m + p - d
      /\ \A i \in 1 .. p : i \in 1 .. d \/ i \in d + 1 .. p
      /\ \A i \in 1 .. d, j \in d + 1 .. p : i # j
    BY <1>2, <1>4
<1>10. IsInjective(path')
    <2> SUFFICES ASSUME NEW i \in 1 .. d + 1, NEW j \in 1 .. d + 1,
                        path'[i] = path'[j]
                 PROVE  i = j
        BY <1>7 DEF IsInjective
    <2>1. \A k \in 1 .. d : path'[k] # e.v  BY <1>1, <1>2, <1>8, <1>9
    <2>2. CASE i \in 1 .. d /\ j \in 1 .. d  BY <1>2, <1>8, <1>9, <2>2
    <2>3. CASE i = d + 1 \/ j = d + 1  BY <1>2, <1>9, <2>1, <2>3
    <2> QED  BY <1>9, <2>2, <2>3
<1>11. \A i \in 1 .. m + p - d : h[i] \in visited
    <2>1. \A i \in 1 .. m : h[i] \in visited  BY <1>4, <1>8
    <2>2. \A i \in m + 1 .. m + p - d : h[i] \in visited
        BY <1>4, <1>8, <1>9
    <2> QED  BY <1>9, <2>1, <2>2
<1>12. ASSUME NEW i \in 1 .. m + p - d, NEW j \in 1 .. d + 1
       PROVE  h[i] # path'[j]
    <2>1. CASE j = d + 1  BY <1>1, <1>2, <1>11, <2>1
    <2>2. CASE j \in 1 .. d /\ i \in 1 .. m
        BY <1>2, <1>4, <1>8, <1>9, <2>2
    <2>3. CASE j \in 1 .. d /\ i \in m + 1 .. m + p - d
        <3>1. m + p - i + 1 \in d + 1 .. p /\ h[i] = path[m + p - i + 1]
            BY <1>4, <2>3
        <3>2. path'[j] = path[j] /\ j \in 1 .. p  BY <1>2, <1>9, <2>3
        <3>3. j # m + p - i + 1 /\ m + p - i + 1 \in 1 .. p
            BY <1>9, <2>3, <3>1
        <3> QED  BY <1>8, <3>1, <3>2, <3>3
    <2> QED  BY <1>9, <2>1, <2>2, <2>3
<1>13. visited' = ToSet(h) \cup ToSet(path')
    <2>1. /\ ToSet(h) = {h[i] : i \in 1 .. m + p - d}
          /\ ToSet(path') = {path'[i] : i \in 1 .. d + 1}
        BY <1>7 DEF ToSet
    <2>2. \A i \in 1 .. d + 1 : path'[i] \in visited'
        BY <1>1, <1>2, <1>8, <1>9
    <2>3. ASSUME NEW x \in visited'
          PROVE  \/ \E i \in 1 .. m + p - d : x = h[i]
                 \/ \E i \in 1 .. d + 1 : x = path'[i]
        <3>1. CASE x = e.v
            <4>1. d + 1 \in 1 .. d + 1  BY <1>4
            <4> QED  BY <1>2, <3>1, <4>1
        <3>2. CASE \E i \in 1 .. m : x = order[i]
            <4>1. \A i \in 1 .. m : i \in 1 .. m + p - d
                <5>1. m \in Nat /\ p \in Nat /\ d \in Nat /\ d <= p
                    BY <1>2, <1>4
                <5> QED  BY ONLY <5>1
            <4> QED  BY <1>4, <3>2, <4>1
        <3>3. CASE \E i \in 1 .. p : x = path[i]
            <4>1. PICK i \in 1 .. p : x = path[i]  BY <3>3
            <4>2. CASE i \in 1 .. d
                <5>1. i \in 1 .. d + 1  BY <1>4, <4>2
                <5> QED  BY <1>2, <4>1, <4>2, <5>1
            <4>3. CASE i \in d + 1 .. p
                <5>1. m + p - i + 1 \in 1 .. m + p - d  BY <1>2, <1>4, <4>3
                <5> QED  BY <1>4, <4>1, <4>3, <5>1
            <4> QED  BY <1>9, <4>2, <4>3
        <3> QED  BY <1>1, <1>8, <3>1, <3>2, <3>3
    <2> QED  BY <1>1, <1>11, <2>1, <2>2, <2>3
<1>14. ASSUME NEW j \in 1 .. d + 1, NEW i \in 1 .. j
       PROVE  path'[i] \in Above(visited', parent', path'[j])
    <2>1. CASE j \in 1 .. d
        <3>1. i \in 1 .. d /\ j \in 1 .. p
            <4>1. d \in Nat  BY <1>4
            <4>2. i \in 1 .. d  BY ONLY <2>1, <4>1, i \in 1 .. j
            <4> QED  BY <1>9, <2>1, <4>2
        <3>2. /\ path'[i] = path[i] /\ path'[j] = path[j]
              /\ path[j] \in visited
              /\ path[i] \in Above(visited, parent, path[j])
            BY <1>2, <1>8, <2>1, <3>1
        <3> QED  BY <1>5, <3>2
    <2>2. CASE j = d + 1 /\ i = d + 1  BY <1>2, <1>5, <2>2
    <2>3. CASE j = d + 1 /\ i \in 1 .. d
        <3>1. path[i] \in visited /\ path'[i] = path[i]
            BY <1>2, <1>8, <1>9, <2>3
        <3>2. visited # {} /\ d \in 1 .. p /\ path[d] = e.from
            BY <1>2, <3>1
        <3>3. path[i] \in Above(visited, parent, e.from)
            BY <1>8, <2>3, <3>2
        <3> QED  BY <1>2, <1>5, <2>3, <3>1, <3>2, <3>3
    <2> QED  BY <1>9, <2>1, <2>2, <2>3
<1>15. Len(order') = m + p - d  BY <1>2, <1>4
<1> QED
    BY <1>2, <1>3, <1>6, <1>10, <1>12, <1>13, <1>14, <1>15 DEF PathInv

\* The entries left are no deeper than the one popped, those pushed one deeper.
LEMMA VisitKeepsDepth ==
    ASSUME TravTypeOK, TreeInv, StackInv, PathInv, DepthInv, Visit, post
    PROVE  DepthInv'
<1> DEFINE e == Last(process_stack)
           d == e.depth
           n == Len(process_stack)
           p == Len(path)
<1>1. visited' # {}  BY VisitTree
<1>2. /\ d \in 0 .. p /\ p \in Nat
      /\ path' \in Seq(Vertex) /\ Len(path') = d + 1
      /\ \A i \in 1 .. d : path'[i] = path[i]
      /\ path'[d + 1] = e.v
    BY VisitPost
<1>3. /\ n \in Nat /\ n >= 1 /\ e = process_stack[n]
      /\ Len(process_stack') \in Nat /\ Len(process_stack') >= n - 1
      /\ \A i \in 1 .. n - 1 : process_stack'[i] = process_stack[i]
      /\ \A i \in n .. Len(process_stack') :
            /\ process_stack'[i].from = e.v
            /\ process_stack'[i].depth = d + 1
    BY VisitStack
<1>4. visited = {} => n = 1
    <2> DEFINE x == [v |-> start, from |-> start, depth |-> 0]
    <2>1. visited = {} => process_stack = <<x>>  BY DEF StackInv
    <2> HIDE DEF x
    <2> QED  BY <2>1
<1> HIDE DEF e, d, n, p
<1>5. n \in Nat /\ n >= 1 /\ d \in Nat /\ p \in Nat  BY <1>2, <1>3
<1>6. /\ \A i \in 1 .. Len(process_stack') :
            i \in 1 .. n - 1 \/ i \in n .. Len(process_stack')
      /\ \A i \in 1 .. n - 1 : visited # {} /\ i \in 1 .. n
      /\ n \in 1 .. n
    <2>1. Len(process_stack') \in Nat  BY <1>3
    <2> QED  BY <1>4, <1>5, <2>1
<1>7. ASSUME NEW i \in 1 .. n - 1
      PROVE  /\ process_stack[i].depth \in 1 .. d
             /\ path[process_stack[i].depth] = process_stack[i].from
             /\ process_stack'[i] = process_stack[i]
    <2>1. /\ process_stack[i].depth \in 1 .. p
          /\ path[process_stack[i].depth] = process_stack[i].from
        BY <1>6 DEF DepthInv, n, p
    <2>2. process_stack[i].depth <= process_stack[n].depth
        BY <1>6 DEF DepthInv, n
    <2>3. process_stack[n].depth = d  BY <1>3 DEF d
    <2> QED  BY <1>3, <1>5, <2>1, <2>2, <2>3
<1>8. ASSUME NEW i \in 1 .. Len(process_stack')
      PROVE  /\ process_stack'[i].depth \in 1 .. Len(path')
             /\ path'[process_stack'[i].depth] = process_stack'[i].from
    <2>1. CASE i \in 1 .. n - 1
        <3>1. process_stack'[i].depth \in 1 .. d + 1
            <4>1. process_stack'[i].depth \in 1 .. d  BY <1>7, <2>1
            <4> QED  BY <1>5, <4>1
        <3> QED  BY <1>2, <1>7, <2>1, <3>1
    <2>2. CASE i \in n .. Len(process_stack')
        <3>1. d + 1 \in 1 .. d + 1  BY <1>5
        <3> QED  BY <1>2, <1>3, <2>2, <3>1
    <2> QED  BY <1>6, <2>1, <2>2
<1>9. ASSUME NEW j \in 1 .. Len(process_stack'), NEW i \in 1 .. j
      PROVE  process_stack'[i].depth <= process_stack'[j].depth
    <2>1. CASE j \in 1 .. n - 1
        <3>1. i \in 1 .. n - 1 /\ j \in 1 .. n  BY <1>5, <2>1
        <3>2. process_stack[i].depth <= process_stack[j].depth
            BY <3>1 DEF DepthInv, n
        <3> QED  BY <1>7, <2>1, <3>1, <3>2
    <2>2. CASE j \in n .. Len(process_stack') /\ i \in 1 .. n - 1
        <3>1. process_stack'[j].depth = d + 1  BY <1>3, <2>2
        <3>2. process_stack'[i].depth \in 1 .. d  BY <1>7, <2>2
        <3> QED  BY <1>5, <3>1, <3>2
    <2>3. CASE j \in n .. Len(process_stack') /\ i \in n .. Len(process_stack')
        <3>1. /\ process_stack'[j].depth = d + 1
              /\ process_stack'[i].depth = d + 1
            BY <1>3, <2>3
        <3> QED  BY <1>5, <3>1
    <2>4. i \in 1 .. Len(process_stack')
        <3>1. Len(process_stack') \in Nat  BY <1>3
        <3> QED  BY <3>1
    <2> QED  BY <1>6, <2>1, <2>2, <2>3, <2>4
<1> QED  BY <1>8, <1>9 DEF DepthInv

\* What was handed over has no edge that would upset the order.
LEMMA VisitKeepsDone ==
    ASSUME TravTypeOK, TreeInv, StackInv, PathInv, DepthInv, DoneInv, Visit, post
    PROVE  DoneInv'
<1> DEFINE d == Last(process_stack).depth
           h == Handed(d)
<1>1. d \in 0 .. Len(path) /\ order' = h
      /\ \A k \in d + 1 .. Len(path) : OutOf(path[k]) \subseteq visited
    BY VisitPost
<1>2. \A i \in 1 .. Len(h) : \A w \in OutOf(h[i]) \ {h[i]} :
            \/ w \in Above(visited, parent, h[i])
            \/ \E j \in 1 .. i - 1 : h[j] = w
    BY <1>1, HandedDone
<1>3. \A u \in visited :
            Above(visited, parent, u) \subseteq Above(visited', parent', u)
    BY VisitAbove
<1>4. \A i \in 1 .. Len(h) : h[i] \in visited
    <2> DEFINE m == Len(order)
               p == Len(path)
    <2>1. /\ m \in Nat /\ p \in Nat /\ d \in Nat /\ d <= p
          /\ Len(h) = m + p - d
          /\ \A i \in 1 .. m : h[i] = order[i]
          /\ \A i \in m + 1 .. m + p - d :
                h[i] = path[m + p - i + 1] /\ m + p - i + 1 \in d + 1 .. p
        BY <1>1, HandedIs
    <2>2. DOMAIN order = 1 .. m /\ DOMAIN path = 1 .. p
        BY LenProperties DEF TravTypeOK
    <2> HIDE DEF m, p, d, h
    <2>3. /\ \A i \in 1 .. m : order[i] \in visited
          /\ \A i \in 1 .. p : path[i] \in visited
        BY <2>2 DEF PathInv, ToSet
    <2>4. \A i \in d + 1 .. p : i \in 1 .. p  BY <2>1
    <2>5. \A i \in m + 1 .. m + p - d : h[i] \in visited  BY <2>1, <2>3, <2>4
    <2>6. \A i \in 1 .. m + p - d : i \in 1 .. m \/ i \in m + 1 .. m + p - d
        BY <2>1
    <2> QED  BY <2>1, <2>3, <2>5, <2>6
<1>5. out' = out  BY DEF Visit
<1> HIDE DEF h
<1>6. \A i \in 1 .. Len(h) : \A w \in OutOf(h[i]) \ {h[i]} :
            \/ w \in Above(visited', parent', h[i])
            \/ \E j \in 1 .. i - 1 : h[j] = w
    BY <1>2, <1>3, <1>4
<1> QED  BY <1>1, <1>5, <1>6 DEF DoneInv, OutOf

-----------------------------------------------------------------------------
(* The steps *)

\* The first entry is there before anything is visited.
LEMMA InitInv ==
    ASSUME NEW g \in Graphs, NEW kind \in BOOLEAN, Init(g, kind)
    PROVE  IInv
<1> DEFINE x == [v |-> start, from |-> start, depth |-> 0]
<1>1. /\ start \in Vertex /\ out \in [Vertex -> Seq(Vertex)]
      /\ post \in BOOLEAN
    BY TraversalAssumption DEF Init
<1>2. /\ process_stack = <<x>> /\ visited = {} /\ parent = [v \in {} |-> start]
      /\ path = <<>> /\ order = <<>> /\ over = FALSE
    BY DEF Init
<1>3. x \in Entry  BY <1>1 DEF Entry
<1>4. x.depth = 0  OBVIOUS
<1> HIDE DEF x
<1>5. /\ process_stack \in Seq(Entry) /\ Len(process_stack) = 1
      /\ DOMAIN process_stack = 1 .. 1 /\ process_stack[1] = x
    <2> HIDE DEF Entry
    <2> QED  BY <1>2, <1>3
<1>6. Len(path) = 0 /\ Len(order) = 0 /\ DOMAIN path = {} /\ DOMAIN order = {}
      /\ path \in Seq(Vertex) /\ order \in Seq(Vertex)
    BY <1>2
<1>7. TravTypeOK
    <2>1. \A i \in DOMAIN process_stack : process_stack[i].depth <= Len(path)
        BY <1>4, <1>5, <1>6
    <2> QED  BY <1>1, <1>2, <1>5, <1>6, <2>1 DEF TravTypeOK
<1>8. TreeInv
    <2>1. parent \in [visited -> visited]  BY <1>2
    <2> QED  BY <1>2, <2>1 DEF TreeInv, Grounded
<1>9. StackInv  BY <1>2 DEF StackInv, Edges, Chained, Pending, x
<1>10. IsInjective(order) /\ IsInjective(path)
       /\ ToSet(order) = {} /\ ToSet(path) = {}
    BY <1>6 DEF IsInjective, ToSet
<1>11. PreInv  BY <1>2, <1>6, <1>10 DEF PreInv
<1>12. PathInv  BY <1>2, <1>6, <1>10 DEF PathInv
<1>13. DepthInv
    <2>1. \A j \in 1 .. Len(process_stack) : \A i \in 1 .. j :
                process_stack[i].depth <= process_stack[j].depth
        BY <1>4, <1>5
    <2> QED  BY <1>2, <2>1 DEF DepthInv
<1>14. DoneInv  BY <1>6 DEF DoneInv
<1> QED  BY <1>7, <1>8, <1>9, <1>11, <1>12, <1>13, <1>14 DEF IInv, PostInv

\* Visiting a vertex.
LEMMA VisitKeeps ==
    ASSUME IInv, Visit
    PROVE  IInv'
<1> DEFINE e == Last(process_stack)
<1>1. TravTypeOK /\ TreeInv /\ StackInv /\ PreInv /\ PostInv
    BY DEF IInv
<1>2. /\ e \in Entry /\ visited' = visited \cup {e.v}
      /\ parent' \in [visited' -> visited']
    BY <1>1, VisitTree
<1>3. TreeInv' /\ StackInv'
    BY <1>1, VisitKeepsTree, VisitKeepsStack
<1>4. /\ start' = start /\ out' = out /\ post' = post /\ over' = over
    BY DEF Visit
<1>5. PreInv'
    <2>1. CASE post  BY <1>4, <2>1 DEF PreInv
    <2>2. CASE ~post  BY <1>1, <2>2, VisitKeepsPre
    <2> QED  BY <2>1, <2>2
<1>6. PostInv'
    <2>1. CASE ~post  BY <1>4, <2>1 DEF PostInv
    <2>2. CASE post
        <3>1. PathInv /\ DepthInv /\ DoneInv  BY <1>1, <2>2 DEF PostInv
        <3> QED
            BY <1>1, <2>2, <3>1, VisitKeepsPath, VisitKeepsDepth, VisitKeepsDone
            DEF PostInv
    <2> QED  BY <2>1, <2>2
<1>7. process_stack' \in Seq(Entry)  BY <1>1, VisitStack
<1>8. path' \in Seq(Vertex) /\ order' \in Seq(Vertex)
    <2>1. CASE post
        <3> DEFINE d == e.depth
        <3>1. PathInv /\ DepthInv  BY <1>1, <2>1 DEF PostInv
        <3>2. path' \in Seq(Vertex) /\ d \in 0 .. Len(path) /\ order' = Handed(d)
            BY <1>1, <2>1, <3>1, VisitPost
        <3>3. Handed(d) \in Seq(Vertex)  BY <1>1, <3>2, HandedIs
        <3> QED  BY <3>2, <3>3
    <2>2. CASE ~post
        <3>1. order' = Append(order, e.v) /\ path' = path  BY <2>2 DEF Visit
        <3>2. order \in Seq(Vertex) /\ path \in Seq(Vertex) /\ e.v \in Vertex
            BY <1>1, <1>2 DEF TravTypeOK, Entry
        <3> HIDE DEF e
        <3> QED  BY <3>1, <3>2
    <2> QED  BY <2>1, <2>2
<1>9. visited' \subseteq Vertex /\ parent' \in [visited' -> Vertex]
    <2>1. visited \subseteq Vertex /\ e.v \in Vertex
        BY <1>1, <1>2 DEF TravTypeOK, Entry
    <2> HIDE DEF e
    <2>2. visited' \subseteq Vertex  BY <1>2, <2>1
    <2> QED  BY ONLY <1>2, <2>2
<1>10. post' => \A i \in DOMAIN process_stack' :
                    process_stack'[i].depth <= Len(path')
    <2> SUFFICES ASSUME post', NEW i \in DOMAIN process_stack'
                 PROVE  process_stack'[i].depth <= Len(path')
        OBVIOUS
    <2>1. i \in 1 .. Len(process_stack')  BY <1>7, LenProperties
    <2>2. visited' # {}  BY <1>2
    <2>3. process_stack'[i].depth \in 1 .. Len(path')
        BY <1>6, <2>1, <2>2 DEF PostInv, DepthInv
    <2>4. Len(path') \in Nat  BY <1>8, LenProperties
    <2> QED  BY <2>3, <2>4
<1>11. TravTypeOK'
    <2>1. /\ start \in Vertex /\ out \in [Vertex -> Seq(Vertex)]
          /\ post \in BOOLEAN /\ over \in BOOLEAN
        BY <1>1 DEF TravTypeOK
    <2> HIDE DEF e, Entry
    <2> QED  BY <1>4, <1>7, <1>8, <1>9, <1>10, <2>1 DEF TravTypeOK, Entry
<1> QED  BY <1>3, <1>5, <1>6, <1>11 DEF IInv

\* Popping a vertex visited before: nothing is pending for it.
LEMMA SkipKeeps ==
    ASSUME IInv, Skip
    PROVE  IInv'
<1> DEFINE n == Len(process_stack)
           f == Front(process_stack)
<1>1. TravTypeOK /\ TreeInv /\ StackInv /\ PreInv /\ PostInv
    BY DEF IInv
<1>2. /\ process_stack # <<>> /\ Last(process_stack).v \in visited
      /\ process_stack' = f
      /\ start' = start /\ out' = out /\ post' = post /\ visited' = visited
      /\ parent' = parent /\ path' = path /\ order' = order /\ over' = over
    BY DEF Skip
<1>3. /\ n \in Nat /\ n >= 1 /\ Last(process_stack) = process_stack[n]
      /\ f \in Seq(Entry) /\ Len(f) = n - 1
      /\ \A i \in 1 .. n - 1 : f[i] = process_stack[i]
    BY <1>1, <1>2, TopIs
<1>4. DOMAIN f = 1 .. n - 1  BY <1>3, LenProperties
<1> HIDE DEF n, f, Entry
<1>5. /\ \A i \in 1 .. n - 1 : i \in 1 .. n
      /\ \A j \in 1 .. n - 1 : \A i \in 1 .. j : i \in 1 .. n - 1
    BY <1>3
<1>6. visited # {} /\ ~over  BY <1>1, <1>2 DEF StackInv
<1>7. TravTypeOK'
    <2>1. \A i \in 1 .. n : post => process_stack[i].depth <= Len(path)
        <3>1. DOMAIN process_stack = 1 .. n
            BY <1>1, LenProperties DEF TravTypeOK, n
        <3> QED  BY <1>1, <3>1 DEF TravTypeOK
    <2>2. post => \A i \in DOMAIN f : f[i].depth <= Len(path)
        BY <1>3, <1>4, <1>5, <2>1
    <2> QED  BY <1>1, <1>2, <1>3, <2>2 DEF TravTypeOK, Entry
<1>8. TreeInv'
    BY <1>1, <1>2 DEF TreeInv, OutOf, Reached
<1>9. Edges'
    <2>1. \A i \in 1 .. n - 1 : /\ f[i].from \in visited
                                /\ f[i].v \in OutOf(f[i].from)
        BY <1>1, <1>3, <1>5, <1>6 DEF StackInv, Edges, n
    <2> QED  BY <1>2, <1>3, <2>1 DEF Edges, OutOf
<1>10. Chained'
    <2>1. \A j \in 1 .. n - 1 : \A i \in 1 .. j :
                f[i].from \in Above(visited, parent, f[j].from)
        <3> TAKE j \in 1 .. n - 1
        <3> TAKE i \in 1 .. j
        <3>1. f[i] = process_stack[i] /\ f[j] = process_stack[j] /\ j \in 1 .. n
            BY <1>3, <1>5
        <3> QED  BY <1>1, <1>6, <3>1 DEF StackInv, Chained, n
    <2> QED  BY <1>2, <1>3, <2>1 DEF Chained
<1>11. Pending'
    <2> SUFFICES ASSUME NEW u \in visited, NEW w \in OutOf(u) \ visited
                 PROVE  \E i \in 1 .. n - 1 : f[i].v = w /\ f[i].from = u
        BY <1>2, <1>3 DEF Pending, OutOf
    <2>1. PICK i \in 1 .. n : process_stack[i].v = w /\ process_stack[i].from = u
        BY <1>1 DEF StackInv, Pending, n
    <2>2. i # n  BY <1>2, <1>3, <2>1
    <2>3. i \in 1 .. n - 1  BY <1>3, <2>2
    <2> QED  BY <1>3, <2>1, <2>3
<1>12. StackInv'  BY <1>2, <1>6, <1>9, <1>10, <1>11 DEF StackInv
<1>13. PreInv'  BY <1>1, <1>2 DEF PreInv, OutOf
<1>14. PostInv'
    <2> SUFFICES ASSUME post PROVE PathInv' /\ DepthInv' /\ DoneInv'
        BY <1>2 DEF PostInv
    <2>1. PathInv /\ DepthInv /\ DoneInv  BY <1>1 DEF PostInv
    <2>2. PathInv'  BY <1>2, <2>1 DEF PathInv
    <2>3. DoneInv'  BY <1>2, <2>1 DEF DoneInv, OutOf
    <2>4. \A i \in 1 .. n - 1 : /\ f[i].depth \in 1 .. Len(path)
                                /\ path[f[i].depth] = f[i].from
        BY <1>3, <1>5, <1>6, <2>1 DEF DepthInv, n
    <2>5. \A j \in 1 .. n - 1 : \A i \in 1 .. j : f[i].depth <= f[j].depth
        <3> TAKE j \in 1 .. n - 1
        <3> TAKE i \in 1 .. j
        <3>1. f[i] = process_stack[i] /\ f[j] = process_stack[j] /\ j \in 1 .. n
            BY <1>3, <1>5
        <3> QED  BY <2>1, <3>1 DEF DepthInv, n
    <2>6. DepthInv'  BY <1>2, <1>3, <2>4, <2>5 DEF DepthInv
    <2> QED  BY <2>2, <2>3, <2>6
<1> QED  BY <1>7, <1>8, <1>12, <1>13, <1>14 DEF IInv

\* When the loop ends the whole path is handed over, and there is nothing left.
LEMMA FinishKeeps ==
    ASSUME IInv, Finish
    PROVE  IInv'
<1> DEFINE h == Handed(0)
<1>1. TravTypeOK /\ TreeInv /\ StackInv /\ PreInv /\ PostInv
    BY DEF IInv
<1>2. /\ process_stack = <<>> /\ ~over /\ over' = TRUE
      /\ order' = order \o Reverse(path) /\ path' = <<>>
      /\ start' = start /\ out' = out /\ post' = post /\ visited' = visited
      /\ parent' = parent /\ process_stack' = process_stack
    BY DEF Finish
<1>3. order \in Seq(Vertex) /\ path \in Seq(Vertex) /\ Len(path) \in Nat
    BY <1>1, LenProperties DEF TravTypeOK
<1>4. order' = h
    <2>1. SubSeq(path, 1, Len(path)) = path
        <3> DEFINE s == SubSeq(path, 1, Len(path))
                   p == Len(path)
        <3>1. 1 \in Int /\ p \in Int /\ \A i \in 1 .. p : path[i] \in Vertex
            BY <1>3, ElementOfSeq
        <3>2. /\ s \in Seq(Vertex)
              /\ Len(s) = IF 1 <= p THEN p - 1 + 1 ELSE 0
              /\ \A i \in 1 .. p - 1 + 1 : s[i] = path[1 + i - 1]
            BY ONLY <3>1, SubSeqProperties
        <3> HIDE DEF s, p
        <3>3. p \in Nat  BY <1>3 DEF p
        <3>4. Len(s) = p /\ \A i \in 1 .. p : s[i] = path[i]  BY <3>2, <3>3
        <3> QED  BY <1>3, <3>2, <3>4, SeqEqual DEF s, p
    <2>2. 0 + 1 = 1  OBVIOUS
    <2> QED  BY <1>2, <2>1, <2>2 DEF Handed
<1>5. 0 \in 0 .. Len(path)  BY <1>3
<1>6. h \in Seq(Vertex) /\ DOMAIN h = 1 .. Len(h)
    <2>1. h \in Seq(Vertex)  BY <1>1, <1>5, HandedIs
    <2> HIDE DEF h
    <2> QED  BY <2>1, LenProperties
<1>7. process_stack' = <<>> /\ Len(process_stack) = 0 /\ DOMAIN process_stack = {}
    BY <1>2
<1>8. visited # {}  BY <1>1, <1>2 DEF StackInv
<1>9. \A u \in visited : OutOf(u) \subseteq visited
    BY <1>1, <1>7 DEF StackInv, Pending
<1>10. TravTypeOK'
    <2>1. order' \in Seq(Vertex) /\ path' \in Seq(Vertex)
        BY <1>2, <1>4, <1>6
    <2> QED  BY <1>1, <1>2, <1>7, <2>1 DEF TravTypeOK
<1>11. TreeInv'  BY <1>1, <1>2 DEF TreeInv, OutOf, Reached
<1>12. StackInv'
    BY <1>1, <1>2, <1>7, <1>8 DEF StackInv, Edges, Chained, Pending, OutOf
<1>13. PreInv'
    <2> SUFFICES ASSUME ~post PROVE PreInv'  BY <1>2 DEF PreInv
    <2>1. path = <<>>  BY <1>1 DEF PreInv
    <2>2. Reverse(path) = <<>>  BY <2>1 DEF Reverse
    <2>3. order' = order  BY <1>2, <1>3, <2>2
    <2> QED  BY <1>1, <1>2, <2>3 DEF PreInv, OutOf
<1>14. PostInv'
    <2> SUFFICES ASSUME post PROVE PathInv' /\ DepthInv' /\ DoneInv'
        BY <1>2 DEF PostInv
    <2> DEFINE m == Len(order)
               p == Len(path)
    <2>1. PathInv /\ DepthInv /\ DoneInv  BY <1>1 DEF PostInv
    <2>2. DOMAIN path = 1 .. p /\ DOMAIN order = 1 .. m
        BY <1>3, LenProperties
    <2>3. \A k \in 0 + 1 .. p : OutOf(path[k]) \subseteq visited
        <3> SUFFICES ASSUME NEW k \in 1 .. p
                     PROVE  OutOf(path[k]) \subseteq visited
            OBVIOUS
        <3>1. path[k] \in visited  BY <2>1, <2>2 DEF PathInv, ToSet
        <3> QED  BY <1>9, <3>1
    <2>4. /\ IsInjective(h)
          /\ \A i \in 1 .. Len(h) : \A w \in OutOf(h[i]) \ {h[i]} :
                \/ w \in Above(visited, parent, h[i])
                \/ \E j \in 1 .. i - 1 : h[j] = w
        BY <1>1, <1>5, <2>1, <2>3, HandedDone
    <2>5. /\ m \in Nat /\ p \in Nat
          /\ Len(h) = m + p - 0
          /\ \A i \in 1 .. m : h[i] = order[i]
          /\ \A i \in m + 1 .. m + p - 0 :
                h[i] = path[m + p - i + 1] /\ m + p - i + 1 \in 0 + 1 .. p
          /\ \A k \in 0 + 1 .. p : h[m + p - k + 1] = path[k]
        BY <1>1, <1>5, HandedIs
    <2> HIDE DEF h, m, p
    <2>6. visited = ToSet(h)
        <3>1. ToSet(h) = {h[i] : i \in 1 .. m + p}
            BY <1>6, <2>5 DEF ToSet
        <3>2. \A x : x \in visited <=> \/ \E i \in 1 .. m : x = order[i]
                                       \/ \E i \in 1 .. p : x = path[i]
            BY <2>1, <2>2 DEF PathInv, ToSet
        <3>3. ASSUME NEW i \in 1 .. m + p
              PROVE  h[i] \in visited
            <4>1. CASE i \in 1 .. m  BY <2>5, <3>2, <4>1
            <4>2. CASE i \in m + 1 .. m + p - 0  BY <2>5, <3>2, <4>2
            <4>3. m \in Nat /\ p \in Nat  BY <2>5
            <4> QED  BY <4>1, <4>2, <4>3
        <3>4. ASSUME NEW x \in visited
              PROVE  \E i \in 1 .. m + p : x = h[i]
            <4>0. m \in Nat /\ p \in Nat  BY <2>5
            <4>1. CASE \E i \in 1 .. m : x = order[i]
                <5>1. \A i \in 1 .. m : i \in 1 .. m + p  BY <4>0
                <5> QED  BY <2>5, <4>1, <5>1
            <4>2. CASE \E i \in 1 .. p : x = path[i]
                <5>1. PICK k \in 1 .. p : x = path[k]  BY <4>2
                <5>2. m + p - k + 1 \in 1 .. m + p /\ k \in 0 + 1 .. p
                    BY <4>0
                <5> QED  BY <2>5, <5>1, <5>2
            <4> QED  BY <3>2, <4>1, <4>2
        <3> QED  BY <3>1, <3>3, <3>4
    <2>7. /\ DOMAIN path' = {} /\ Len(path') = 0 /\ 1 .. 0 = {}
        BY <1>2
    <2>8. IsInjective(path') /\ ToSet(path') = {}
        BY <2>7 DEF IsInjective, ToSet
    <2>9. PathInv'
        <3>1. IsInjective(order') /\ visited' = ToSet(order') \cup ToSet(path')
            BY <1>2, <1>4, <2>4, <2>6, <2>8
        <3> QED  BY <1>2, <2>7, <2>8, <3>1 DEF PathInv
    <2>10. DepthInv'  BY <1>2, <1>7 DEF DepthInv
    <2>11. DoneInv'  BY <1>2, <1>4, <2>4 DEF DoneInv, OutOf
    <2> QED  BY <2>9, <2>10, <2>11
<1> QED  BY <1>10, <1>11, <1>12, <1>13, <1>14 DEF IInv

\* The rest of the dominator computation leaves the traversal alone.
LEMMA NextKeeps ==
    ASSUME IInv, [DomNext]_allVars
    PROVE  IInv'
<1>1. CASE UNCHANGED travVars
    <2>1. \A u : OutOf(u)' = OutOf(u)  BY <1>1 DEF travVars, OutOf
    <2>2. Reached' = Reached  BY <1>1 DEF travVars, OutOf, Reached
    <2>3. TravTypeOK'  BY <1>1 DEF travVars, TravTypeOK, IInv
    <2>4. TreeInv'  BY <1>1, <2>2 DEF travVars, TreeInv, IInv, OutOf
    <2>5. StackInv'
        BY <1>1 DEF travVars, StackInv, Edges, Chained, Pending, IInv, OutOf
    <2>6. PreInv'  BY <1>1 DEF travVars, PreInv, IInv, OutOf
    <2>7. PostInv'
        BY <1>1 DEF travVars, PostInv, PathInv, DepthInv, DoneInv, IInv, OutOf
    <2> QED  BY <2>3, <2>4, <2>5, <2>6, <2>7 DEF IInv
<1>2. CASE TravNext  BY <1>2, VisitKeeps, SkipKeeps, FinishKeeps DEF TravNext
<1> QED
    BY <1>1, <1>2
    DEF DomNext, allVars, Number, Semi, StartComplete, Complete, Return

-----------------------------------------------------------------------------
(* What the invariant says of the order *)

\* The vertices handed over, at the end.
LEMMA AllHandedOver ==
    ASSUME IInv, over
    PROVE  /\ visited # {} /\ ToSet(order) = visited
           /\ \A u \in visited : OutOf(u) \subseteq visited
<1>1. process_stack = <<>>  BY DEF IInv, StackInv
<1>2. Len(process_stack) = 0  BY <1>1
<1>3. visited # {}  BY <1>1 DEF IInv, StackInv
<1>4. \A u \in visited : OutOf(u) \subseteq visited
    BY <1>2 DEF IInv, StackInv, Pending
<1>5. ToSet(order) = visited
    <2>1. CASE post
        <3>1. path = <<>> /\ visited = ToSet(order) \cup ToSet(path)
            BY <2>1 DEF IInv, PostInv, PathInv
        <3>2. ToSet(<<>>) = {}  BY DEF ToSet
        <3> QED  BY <3>1, <3>2
    <2>2. CASE ~post  BY <2>2 DEF IInv, PreInv
    <2> QED  BY <2>1, <2>2
<1> QED  BY <1>3, <1>4, <1>5

\* Everything that can be reached is visited, and once.
LEMMA OnceByInv ==
    ASSUME IInv
    PROVE  VisitsOnce
<1>1. IsInjective(order)
    BY DEF IInv, PreInv, PostInv, PathInv
<1>2. ASSUME over
      PROVE  ToSet(order) = Reached
    <2>1. /\ visited # {} /\ ToSet(order) = visited
          /\ \A u \in visited : OutOf(u) \subseteq visited
        BY <1>2, AllHandedOver
    <2>2. /\ start \in visited /\ visited \subseteq Reached
          /\ visited \in SUBSET Vertex
        BY <2>1 DEF IInv, TreeInv, TravTypeOK
    <2>3. Reached \subseteq visited  BY <2>1, <2>2 DEF Reached
    <2> QED  BY <2>1, <2>2, <2>3
<1> QED  BY <1>1, <1>2 DEF VisitsOnce

\* Where a vertex is in the order.
LEMMA PlaceIs ==
    ASSUME IInv, over, NEW v \in visited
    PROVE  /\ Place(v) \in 1 .. Len(order) /\ order[Place(v)] = v
<1>1. ToSet(order) = visited  BY AllHandedOver
<1>2. DOMAIN order = 1 .. Len(order)
    BY LenProperties DEF IInv, TravTypeOK
<1>3. \E i \in 1 .. Len(order) : order[i] = v  BY <1>1, <1>2 DEF ToSet
<1> QED  BY <1>3 DEF Place

\* The order is depth first.
LEMMA DepthFirstByInv ==
    ASSUME IInv
    PROVE  DepthFirst
<1> SUFFICES ASSUME over, NEW u \in visited, NEW w \in OutOf(u) \ {u}
             PROVE  /\ parent[u] = u \/ u \in OutOf(parent[u])
                    /\ Place(u) < Place(w) =>
                            IF post THEN w \in Ancestors[u]
                            ELSE u \in Ancestors[w]
    BY DEF DepthFirst
<1>1. parent[u] = u \/ u \in OutOf(parent[u])  BY DEF IInv, TreeInv
<1>2. w \in visited  BY AllHandedOver
<1>3. /\ Ancestors[u] = Above(visited, parent, u)
      /\ Ancestors[w] = Above(visited, parent, w)
    BY <1>2, AncestorsAreAbove DEF IInv, TreeInv
<1> DEFINE i == Place(u)
           j == Place(w)
<1>4. /\ i \in 1 .. Len(order) /\ j \in 1 .. Len(order)
      /\ order[i] = u /\ order[j] = w
    BY <1>2, PlaceIs
<1>5. Len(order) \in Nat /\ DOMAIN order = 1 .. Len(order)
    BY LenProperties DEF IInv, TravTypeOK
<1> HIDE DEF i, j
<1>6. ASSUME i < j, ~post
      PROVE  u \in Above(visited, parent, w)
    <2>1. i \in 1 .. j - 1  BY <1>4, <1>5, <1>6
    <2> QED  BY <1>4, <1>6, <2>1 DEF IInv, PreInv
<1>7. ASSUME i < j, post
      PROVE  w \in Above(visited, parent, u)
    <2>1. DoneInv /\ IsInjective(order)  BY <1>7 DEF IInv, PostInv, PathInv
    <2>2. ASSUME NEW k \in 1 .. i - 1, order[k] = w
          PROVE  FALSE
        <3>1. k \in 1 .. Len(order) /\ k # j  BY <1>4, <1>5, <1>7
        <3> QED  BY <1>4, <1>5, <2>1, <2>2, <3>1 DEF IsInjective
    <2> QED  BY <1>4, <2>1, <2>2 DEF DoneInv
<1> QED  BY <1>1, <1>3, <1>6, <1>7 DEF i, j

-----------------------------------------------------------------------------
(* The theorems *)

\* The invariant holds of every call, of the traversals and of the computation
\* that takes its DFS tree from one.
LEMMA InvHolds == DomSpec => []IInv
<1>1. DomInit => IInv  BY InitInv DEF DomInit
<1>2. IInv /\ [DomNext]_allVars => IInv'  BY NextKeeps
<1> QED  BY <1>1, <1>2, PTL DEF DomSpec

\* The traversals keep their types: no entry of postorder's stack is deeper than
\* the path, so that cutting the path to the depth of an entry never lengthens
\* it by null pointers.
THEOREM PathNeverLengthened == DomSpec => []TravTypeOK
<1>1. IInv => TravTypeOK  BY DEF IInv
<1> QED  BY <1>1, InvHolds, PTL

\* preorder and postorder hand every vertex that can be reached to the visitor
\* once, in an order that is depth first: in preorder an edge to a later vertex
\* leads to a descendant, in postorder to an ancestor.
THEOREM TraversalsDepthFirst == DomSpec => []VisitsDepthFirst
<1>1. IInv => VisitsDepthFirst
    BY OnceByInv, DepthFirstByInv DEF VisitsDepthFirst
<1> QED  BY <1>1, InvHolds, PTL
=============================================================================
