------------------------ MODULE FlowGraphCallsProofs ------------------------
(***************************************************************************)
(* What holds of a graph after any sequence of calls of its mutators, for  *)
(* any number of vertices and edges and any block transfers: the two       *)
(* copies of every edge agree and nothing leads to a detached vertex; and  *)
(* insert_after keeps the paths. FlowGraphProofs has the mutators the      *)
(* graph builder calls; this module adds detach and                        *)
(* substitute_pair_existing, which choose entries out of lists.            *)
(***************************************************************************)
EXTENDS FlowGraphCalls, FlowGraphProofs

-----------------------------------------------------------------------------
(* How often a list holds an edge *)

\* A list of chosen entries holds each as often as it is chosen.
LEMMA CountPick ==
    ASSUME NEW S, NEW s \in Seq(S), NEW K \in SUBSET (1 .. Len(s)), NEW e
    PROVE  Count(Pick(s, K), e) = Cardinality({i \in K : s[i] = e})
<1> DEFINE p == Pick(s, K)
           m == Cardinality(K)
           A == {k \in 1 .. m : p[k] = e}
           B == {i \in K : s[i] = e}
           F == [k \in A |-> Nth(K, k)]
<1>1. /\ Len(p) = m /\ m \in Nat
      /\ \A k \in 1 .. m : Nth(K, k) \in K /\ p[k] = s[Nth(K, k)]
    BY PickType
<1>2. Len(s) \in Nat  BY LenProperties
<1>3. /\ \A i \in K : \E k \in 1 .. m : Nth(K, k) = i
      /\ \A k, l \in 1 .. m : Nth(K, k) = Nth(K, l) => k = l
    BY <1>2, NthOfSet
<1>4. IsFiniteSet(A) /\ Count(p, e) = Cardinality(A)
    BY <1>1, CountUpToFinite DEF Count, CountUpTo
<1> HIDE DEF p, m
<1>5. F \in [A -> B]  BY <1>1
<1>6. \A k, l \in A : F[k] = F[l] => k = l  BY <1>3
<1>7. \A i \in B : \E k \in A : F[k] = i
    <2> TAKE i \in B
    <2>1. PICK k \in 1 .. m : Nth(K, k) = i  BY <1>3
    <2>2. k \in A  BY <1>1, <2>1
    <2> QED  BY <2>1, <2>2
<1> HIDE DEF A, B, F
<1>8. ExistsBijection(A, B)
    BY <1>5, <1>6, <1>7, Fun_IsBij DEF ExistsBijection
<1> QED  BY <1>4, <1>8, FS_Bijection DEF B, p

\* A list with nothing in it.
LEMMA PickNone ==
    ASSUME NEW K, K = {}
    PROVE  Pick(<<>>, K) = <<>>
<1>1. Cardinality(K) = 0  BY FS_EmptySet
<1>2. 1 .. 0 = {}  OBVIOUS
<1> QED  BY <1>1, <1>2 DEF Pick

\* Appending a list adds what it counts.
LEMMA CountConcat ==
    ASSUME NEW S, NEW s \in Seq(S), NEW t \in Seq(S), NEW e
    PROVE  Count(s \o t, e) = Count(s, e) + Count(t, e)
<1> DEFINE m == Len(s)
           n == Len(t)
           c == s \o t
           A == {j \in 1 .. m : s[j] = e}
           B == {j \in 1 .. n : t[j] = e}
           D == {j \in m + 1 .. m + n : c[j] = e}
           C == {j \in 1 .. m + n : c[j] = e}
           F == [j \in B |-> m + j]
<1>1. m \in Nat /\ n \in Nat  BY LenProperties
<1>2. /\ Len(c) = m + n
      /\ \A i \in 1 .. m + n : c[i] = IF i <= m THEN s[i] ELSE t[i - m]
    BY ConcatProperties
<1>3. /\ IsFiniteSet(A) /\ Count(s, e) = Cardinality(A)
      /\ IsFiniteSet(B) /\ Count(t, e) = Cardinality(B)
    BY <1>1, CountUpToFinite DEF Count, CountUpTo
<1>4. Count(c, e) = Cardinality(C)  BY <1>2 DEF Count, CountUpTo
<1> HIDE DEF m, n, c
<1>5. ExistsBijection(B, D)
    <2>1. F \in [B -> D]
        <3>1. ASSUME NEW j \in B
              PROVE  m + j \in D
            <4>1. j \in 1 .. n /\ t[j] = e  OBVIOUS
            <4>2. m + j \in 1 .. m + n /\ ~(m + j <= m) /\ (m + j) - m = j
                BY <1>1, <4>1
            <4>3. c[m + j] = e  BY <1>2, <4>1, <4>2
            <4> QED  BY <1>1, <4>1, <4>3
        <3> QED  BY <3>1
    <2>2. \A i, j \in B : F[i] = F[j] => i = j  BY <1>1
    <2>3. ASSUME NEW i \in D
          PROVE  \E j \in B : F[j] = i
        <3>1. i \in m + 1 .. m + n /\ c[i] = e  OBVIOUS
        <3>2. i \in 1 .. m + n /\ ~(i <= m) /\ i - m \in 1 .. n
            BY <1>1, <3>1
        <3>3. t[i - m] = e  BY <1>2, <3>1, <3>2
        <3>4. i - m \in B  BY <3>2, <3>3
        <3>5. m + (i - m) = i  BY <1>1, <3>1
        <3> HIDE DEF B, D
        <3>6. F[i - m] = i  BY <3>4, <3>5
        <3> QED  BY <3>4, <3>6
    <2> HIDE DEF B, D, F
    <2> QED  BY <2>1, <2>2, <2>3, Fun_IsBij DEF ExistsBijection
<1>6. C = A \cup D /\ A \cap D = {}
    <2>1. ASSUME NEW j \in 1 .. m + n
          PROVE  /\ j <= m <=> j \in 1 .. m
                 /\ ~(j <= m) <=> j \in m + 1 .. m + n
                 /\ j <= m => c[j] = s[j]
        BY <1>1, <1>2
    <2>2. 1 .. m \subseteq 1 .. m + n /\ m + 1 .. m + n \subseteq 1 .. m + n
          /\ (1 .. m) \cap (m + 1 .. m + n) = {}
        BY <1>1
    <2>3. \A j : j \in C <=> j \in 1 .. m + n /\ c[j] = e  OBVIOUS
    <2>4. \A j : j \in D <=> j \in m + 1 .. m + n /\ c[j] = e  OBVIOUS
    <2>5. \A j : j \in A <=> j \in 1 .. m /\ s[j] = e  OBVIOUS
    <2> HIDE DEF A, C, D
    <2> QED  BY <2>1, <2>2, <2>3, <2>4, <2>5
<1> HIDE DEF A, B, C, D, F
<1>7. IsFiniteSet(D) /\ Cardinality(D) = Cardinality(B)
    BY <1>3, <1>5, FS_Bijection
<1>8. Cardinality(C) = Cardinality(A) + Cardinality(D) - Cardinality({})
    BY <1>3, <1>6, <1>7, FS_Union
<1>9. Cardinality({}) = 0 /\ Cardinality(A) \in Nat /\ Cardinality(B) \in Nat
    BY <1>3, FS_EmptySet, FS_CardinalityType
<1> QED  BY <1>3, <1>4, <1>7, <1>8, <1>9 DEF c

\* What is in a list is counted.
LEMMA CountSome ==
    ASSUME NEW S, NEW s \in Seq(S), NEW e, e \in ToSet(s)
    PROVE  Count(s, e) # 0
<1>1. Len(s) \in Nat /\ DOMAIN s = 1 .. Len(s)  BY LenProperties
<1>2. PICK k \in 1 .. Len(s) : s[k] = e  BY <1>1 DEF ToSet
<1> DEFINE A == {j \in 1 .. Len(s) : s[j] = e}
<1>3. k \in A  BY <1>2
<1>4. IsFiniteSet(A) /\ Count(s, e) = Cardinality(A)
    BY <1>1, CountUpToFinite DEF Count, CountUpTo
<1> HIDE DEF A
<1>5. A # {}  BY <1>3
<1> QED  BY <1>4, <1>5, FS_EmptySet

-----------------------------------------------------------------------------
(* detach *)

\* The entries that do not name v.
LEMMA AvoidingType ==
    ASSUME NEW n \in Nat, NEW s \in Seq(EdgeData(n)), NEW v
    PROVE  /\ Avoiding(s, v) \in Seq(EdgeData(n))
           /\ s = <<>> => Avoiding(s, v) = <<>>
           /\ \A w, tr : Count(Avoiding(s, v), Edge(w, tr)) =
                            IF w = v THEN 0 ELSE Count(s, Edge(w, tr))
<1> DEFINE K == {k \in 1 .. Len(s) : s[k].target # v}
           E == EdgeData(n)
<1>1. K \in SUBSET (1 .. Len(s))  OBVIOUS
<1>2. Avoiding(s, v) = Pick(s, K)  BY DEF Avoiding
<1>3. ASSUME s = <<>>
      PROVE  Avoiding(s, v) = <<>>
    <2>1. Len(s) = 0  BY <1>3
    <2>2. 1 .. 0 = {}  OBVIOUS
    <2>3. K = {}  BY <2>1, <2>2
    <2> QED  BY <1>2, <1>3, <2>3, PickNone
<1>4. ASSUME NEW w, NEW tr
      PROVE  {i \in K : s[i] = Edge(w, tr)} =
                IF w = v THEN {} ELSE {i \in 1 .. Len(s) : s[i] = Edge(w, tr)}
    <2>1. Edge(w, tr).target = w  BY DEF Edge
    <2> QED  BY <2>1
<1> HIDE DEF K, E
<1>5. Pick(s, K) \in Seq(E)  BY <1>1, PickType DEF E
<1>6. ASSUME NEW w, NEW tr
      PROVE  Count(Avoiding(s, v), Edge(w, tr)) =
                IF w = v THEN 0 ELSE Count(s, Edge(w, tr))
    <2>1. Count(Pick(s, K), Edge(w, tr)) =
            Cardinality({i \in K : s[i] = Edge(w, tr)})
        BY <1>1, CountPick
    <2>2. CASE w = v  BY <1>2, <1>4, <2>1, <2>2, FS_EmptySet
    <2>3. CASE w # v
        <3>1. {i \in K : s[i] = Edge(w, tr)} =
                {j \in 1 .. Len(s) : s[j] = Edge(w, tr)}
            BY <1>4, <2>3
        <3>2. Count(s, Edge(w, tr)) =
                Cardinality({j \in 1 .. Len(s) : s[j] = Edge(w, tr)})
            BY DEF Count, CountUpTo
        <3> QED  BY <1>2, <2>1, <2>3, <3>1, <3>2
    <2> QED  BY <2>2, <2>3
<1> QED  BY <1>2, <1>3, <1>5, <1>6 DEF E

\* detach empties the lists of v and takes v out of the others.
LEMMA DetachLists ==
    ASSUME NEW g, IsGraph(g), NEW v \in Vertices(g)
    PROVE  LET h == Detach(g, v)
           IN  /\ IsGraph(h) /\ h.size = g.size /\ Vertices(h) = Vertices(g)
               /\ h.out = [u \in Vertices(g) |->
                             IF u = v THEN <<>> ELSE Avoiding(g.out[u], v)]
               /\ h.in = [u \in Vertices(g) |->
                             IF u = v THEN <<>> ELSE Avoiding(g.in[u], v)]
               /\ h.detached = [g.detached EXCEPT ![v] = TRUE]
<1> DEFINE h == Detach(g, v)
           E == EdgeData(g.size)
           short(f) == [u \in Vertices(g) |->
                            IF u = v THEN <<>> ELSE Avoiding(f[u], v)]
<1>1. /\ g = [size |-> g.size, out |-> g.out, in |-> g.in,
              detached |-> g.detached]
      /\ g.size \in Nat /\ g.size >= FirstReal
      /\ g.out \in [Vertices(g) -> Seq(E)]
      /\ g.in \in [Vertices(g) -> Seq(E)]
      /\ g.detached \in [Vertices(g) -> BOOLEAN]
    BY DEF IsGraph
<1>2. Detach(g, v) = [g EXCEPT !.out = short(g.out), !.in = short(g.in),
                      !.detached[v] = TRUE]
    BY DEF Detach
<1>3. <<>> \in Seq(E)  OBVIOUS
<1>4. ASSUME NEW f \in [Vertices(g) -> Seq(E)]
      PROVE  short(f) \in [Vertices(g) -> Seq(E)]
    <2>1. ASSUME NEW u \in Vertices(g)
          PROVE  Avoiding(f[u], v) \in Seq(E)
        <3>1. f[u] \in Seq(E)
            <4> HIDE DEF E
            <4> QED  OBVIOUS
        <3> QED  BY <1>1, <3>1, AvoidingType
    <2> HIDE DEF E
    <2> QED  BY <1>3, <2>1
<1> HIDE DEF h, E, short
<1>5. /\ h = [size |-> g.size, out |-> short(g.out), in |-> short(g.in),
              detached |-> [g.detached EXCEPT ![v] = TRUE]]
    BY <1>1, <1>2 DEF h
<1>6. /\ h.size = g.size /\ h.out = short(g.out) /\ h.in = short(g.in)
      /\ h.detached = [g.detached EXCEPT ![v] = TRUE]
      /\ h = [size |-> h.size, out |-> h.out, in |-> h.in,
              detached |-> h.detached]
    BY <1>5
<1>7. Vertices(h) = Vertices(g)  BY <1>6 DEF Vertices
<1>8. /\ h.out \in [Vertices(h) -> Seq(E)]
      /\ h.in \in [Vertices(h) -> Seq(E)]
    BY <1>1, <1>4, <1>6, <1>7
<1>9. h.detached \in [Vertices(h) -> BOOLEAN]  BY <1>1, <1>6, <1>7, Zenon
<1>10. IsGraph(h)
    <2>1. E = EdgeData(h.size)  BY <1>6 DEF E
    <2> QED  BY <2>1, <1>1, <1>6, <1>8, <1>9 DEF IsGraph
<1> QED  BY <1>6, <1>7, <1>10 DEF h, short

\* So the copies still agree.
LEMMA DetachMirrored ==
    ASSUME NEW g, IsGraph(g), Mirrored(g), NEW v \in Vertices(g)
    PROVE  Mirrored(Detach(g, v))
<1> DEFINE h == Detach(g, v)
           n == g.size
<1>1. /\ Vertices(h) = Vertices(g) /\ h.out[v] = <<>> /\ h.in[v] = <<>>
      /\ \A u \in Vertices(g) : u # v =>
            /\ h.out[u] = Avoiding(g.out[u], v)
            /\ h.in[u] = Avoiding(g.in[u], v)
    <2>1. /\ Vertices(h) = Vertices(g)
          /\ h.out = [u \in Vertices(g) |->
                        IF u = v THEN <<>> ELSE Avoiding(g.out[u], v)]
          /\ h.in = [u \in Vertices(g) |->
                        IF u = v THEN <<>> ELSE Avoiding(g.in[u], v)]
        BY DetachLists
    <2> HIDE DEF h
    <2> QED  BY <2>1
<1>2. \A e : Count(<<>>, e) = 0  BY CountNone
<1>3. ASSUME NEW u \in Vertices(g)
      PROVE  n \in Nat /\ g.out[u] \in Seq(EdgeData(n))
             /\ g.in[u] \in Seq(EdgeData(n))
    BY GraphLists
<1> HIDE DEF h, n
<1>4. ASSUME NEW u \in Vertices(g), u # v, NEW w, NEW tr
      PROVE  /\ Count(h.out[u], Edge(w, tr)) =
                    IF w = v THEN 0 ELSE Count(g.out[u], Edge(w, tr))
             /\ Count(h.in[u], Edge(w, tr)) =
                    IF w = v THEN 0 ELSE Count(g.in[u], Edge(w, tr))
    BY <1>1, <1>3, <1>4, AvoidingType
<1>5. ASSUME NEW u \in Vertices(g), NEW w \in Vertices(g),
             NEW tr \in BlockTransfer
      PROVE  Count(h.out[u], Edge(w, tr)) = Count(h.in[w], Edge(u, tr))
    <2>1. CASE u = v /\ w = v  BY <1>1, <1>2, <2>1
    <2>2. CASE u = v /\ w # v  BY <1>1, <1>2, <1>4, <2>2
    <2>3. CASE u # v /\ w = v  BY <1>1, <1>2, <1>4, <2>3
    <2>4. CASE u # v /\ w # v
        <3>1. Count(g.out[u], Edge(w, tr)) = Count(g.in[w], Edge(u, tr))
            BY DEF Mirrored
        <3> QED  BY <1>4, <2>4, <3>1
    <2> QED  BY <2>1, <2>2, <2>3, <2>4
<1> QED  BY <1>1, <1>5 DEF Mirrored, h
-----------------------------------------------------------------------------
(* substitute_pair_existing *)

\* What a list of edges names, entry by entry.
LEMMA TargetsOf ==
    ASSUME NEW n \in Nat, NEW s \in Seq(EdgeData(n)), NEW v
    PROVE  v \in Targets(s) <=> \E k \in 1 .. Len(s) : s[k].target = v
<1>1. DOMAIN s = 1 .. Len(s)  BY LenProperties
<1> QED  BY <1>1 DEF Targets, ToSet

\* Two lists together name what either does.
LEMMA TargetsConcat ==
    ASSUME NEW n \in Nat, NEW s \in Seq(EdgeData(n)), NEW t \in Seq(EdgeData(n))
    PROVE  /\ s \o t \in Seq(EdgeData(n))
           /\ Targets(s \o t) \subseteq Targets(s) \cup Targets(t)
<1> DEFINE E == EdgeData(n)
           c == s \o t
<1>1. /\ c \in Seq(E) /\ Len(c) = Len(s) + Len(t)
      /\ \A i \in 1 .. Len(s) + Len(t) :
            c[i] = IF i <= Len(s) THEN s[i] ELSE t[i - Len(s)]
    BY ConcatProperties
<1>2. Len(s) \in Nat /\ Len(t) \in Nat  BY LenProperties
<1> HIDE DEF c
<1>3. ASSUME NEW v \in Targets(c)
      PROVE  v \in Targets(s) \cup Targets(t)
    <2>1. PICK k \in 1 .. Len(c) : c[k].target = v  BY <1>1, TargetsOf
    <2>2. CASE k <= Len(s)
        <3>1. k \in 1 .. Len(s) /\ s[k].target = v  BY <1>1, <1>2, <2>1, <2>2
        <3> QED  BY <3>1, TargetsOf
    <2>3. CASE ~(k <= Len(s))
        <3>1. k - Len(s) \in 1 .. Len(t) /\ t[k - Len(s)].target = v
            BY <1>1, <1>2, <2>1, <2>3
        <3> QED  BY <3>1, TargetsOf
    <2> QED  BY <2>2, <2>3
<1> QED  BY <1>1, <1>3 DEF c

\* The neighbours collected are those of the list that are not skipped.
LEMMA FirstPerTargetType ==
    ASSUME NEW n \in Nat, NEW s \in Seq(EdgeData(n)), NEW skip
    PROVE  /\ FirstPerTarget(s, skip) \in Seq(EdgeData(n))
           /\ Targets(FirstPerTarget(s, skip)) \subseteq Targets(s) \ skip
<1> DEFINE K == {k \in 1 .. Len(s) :
                    /\ s[k].target \notin skip
                    /\ \A j \in 1 .. k - 1 : s[j].target # s[k].target}
           p == FirstPerTarget(s, skip)
           m == Cardinality(K)
<1>1. K \in SUBSET (1 .. Len(s)) /\ \A k \in K : s[k].target \notin skip
    OBVIOUS
<1>2. p = Pick(s, K)  BY DEF FirstPerTarget
<1> HIDE DEF K, p, m
<1>3. /\ p \in Seq(EdgeData(n)) /\ Len(p) = m
      /\ \A k \in 1 .. m : Nth(K, k) \in K /\ p[k] = s[Nth(K, k)]
    BY <1>1, <1>2, PickType DEF m
<1>4. ASSUME NEW v \in Targets(p)
      PROVE  v \in Targets(s) /\ v \notin skip
    <2>1. PICK k \in 1 .. m : p[k].target = v  BY <1>3, TargetsOf
    <2>2. PICK i \in K : s[i].target = v  BY <1>3, <2>1
    <2> QED  BY <1>1, <2>2, TargetsOf
<1> QED  BY <1>3, <1>4 DEF p

\* The edges collected are edges to neighbours of a and b other than these.
LEMMA InlistType ==
    ASSUME NEW g, IsGraph(g), NEW a \in Vertices(g), NEW b \in Vertices(g)
    PROVE  /\ SubstituteInlist(g, a, b) \in Seq(EdgeData(g.size))
           /\ Targets(SubstituteInlist(g, a, b)) \subseteq
                (Targets(g.in[a]) \cup Targets(g.out[a])
                    \cup Targets(g.in[b]) \cup Targets(g.out[b])) \ {a, b}
<1> DEFINE n == g.size
           in1 == FirstPerTarget(g.in[a], {a, b})
           out1 == FirstPerTarget(g.out[a], {a, b})
           in2 == FirstPerTarget(g.in[b], {a, b} \cup Targets(in1))
           out2 == FirstPerTarget(g.out[b], {a, b} \cup Targets(out1))
           l == SubstituteInlist(g, a, b)
<1>1. /\ n \in Nat
      /\ g.in[a] \in Seq(EdgeData(n)) /\ g.out[a] \in Seq(EdgeData(n))
      /\ g.in[b] \in Seq(EdgeData(n)) /\ g.out[b] \in Seq(EdgeData(n))
    BY GraphLists
<1>2. l = ((in1 \o out1) \o in2) \o out2  BY DEF SubstituteInlist
<1> HIDE DEF n, l
<1>3. /\ in1 \in Seq(EdgeData(n))
      /\ Targets(in1) \subseteq Targets(g.in[a]) \ {a, b}
      /\ out1 \in Seq(EdgeData(n))
      /\ Targets(out1) \subseteq Targets(g.out[a]) \ {a, b}
    BY <1>1, FirstPerTargetType
<1> HIDE DEF in1, out1
<1>4. /\ in2 \in Seq(EdgeData(n))
      /\ Targets(in2) \subseteq Targets(g.in[b]) \ {a, b}
      /\ out2 \in Seq(EdgeData(n))
      /\ Targets(out2) \subseteq Targets(g.out[b]) \ {a, b}
    <2>1. /\ in2 \in Seq(EdgeData(n))
          /\ Targets(in2) \subseteq
                Targets(g.in[b]) \ ({a, b} \cup Targets(in1))
        BY <1>1, FirstPerTargetType
    <2>2. /\ out2 \in Seq(EdgeData(n))
          /\ Targets(out2) \subseteq
                Targets(g.out[b]) \ ({a, b} \cup Targets(out1))
        BY <1>1, FirstPerTargetType
    <2> HIDE DEF in2, out2
    <2> QED  BY <2>1, <2>2
<1> HIDE DEF in2, out2
<1>5. /\ in1 \o out1 \in Seq(EdgeData(n))
      /\ Targets(in1 \o out1) \subseteq Targets(in1) \cup Targets(out1)
    BY <1>1, <1>3, TargetsConcat
<1>6. /\ (in1 \o out1) \o in2 \in Seq(EdgeData(n))
      /\ Targets((in1 \o out1) \o in2) \subseteq
            Targets(in1 \o out1) \cup Targets(in2)
    BY <1>1, <1>4, <1>5, TargetsConcat
<1>7. /\ l \in Seq(EdgeData(n))
      /\ Targets(l) \subseteq Targets((in1 \o out1) \o in2) \cup Targets(out2)
    <2> DEFINE c == (in1 \o out1) \o in2
    <2>1. c \in Seq(EdgeData(n)) /\ out2 \in Seq(EdgeData(n))  BY <1>4, <1>6
    <2>2. l = c \o out2  BY <1>2
    <2> HIDE DEF c
    <2>3. /\ c \o out2 \in Seq(EdgeData(n))
          /\ Targets(c \o out2) \subseteq Targets(c) \cup Targets(out2)
        BY <1>1, <2>1, TargetsConcat
    <2> QED  BY <2>2, <2>3 DEF c
<1>8. Targets(l) \subseteq
        (Targets(g.in[a]) \cup Targets(g.out[a])
            \cup Targets(g.in[b]) \cup Targets(g.out[b])) \ {a, b}
    BY <1>3, <1>4, <1>5, <1>6, <1>7
<1> QED  BY <1>7, <1>8 DEF n, l

\* The edges that one neighbour gets: one per entry that names it.
LEMMA LinkedFromType ==
    ASSUME NEW m \in Nat, NEW s \in Seq(EdgeData(m)), NEW u,
           NEW n \in 0 .. m - 1
    PROVE  /\ LinkedFrom(u, s, n) \in Seq(EdgeData(m))
           /\ u \notin Targets(s) => LinkedFrom(u, s, n) = <<>>
           /\ \A v, tr : Count(LinkedFrom(u, s, n), Edge(v, tr)) =
                            IF v = n THEN Count(s, Edge(u, tr)) ELSE 0
<1> DEFINE K == {k \in 1 .. Len(s) : s[k].target = u}
           own == Pick(s, K)
           l == [k \in 1 .. Len(own) |-> Edge(n, own[k].tr)]
<1>1. K \in SUBSET (1 .. Len(s)) /\ \A k \in K : s[k].target = u  OBVIOUS
<1>2. LinkedFrom(u, s, n) = l  BY DEF LinkedFrom
<1>3. ASSUME u \notin Targets(s)
      PROVE  K = {}
    BY <1>3, TargetsOf
<1>4. ASSUME NEW tr
      PROVE  {i \in K : s[i] = Edge(u, tr)} =
                {i \in 1 .. Len(s) : s[i] = Edge(u, tr)}
    <2>1. Edge(u, tr).target = u  BY DEF Edge
    <2> QED  BY <2>1
<1> HIDE DEF K
<1>5. /\ own \in Seq(EdgeData(m)) /\ Len(own) = Cardinality(K)
      /\ Cardinality(K) \in Nat
      /\ \A k \in 1 .. Cardinality(K) :
            Nth(K, k) \in K /\ own[k] = s[Nth(K, k)]
    BY <1>1, PickType
<1>6. ASSUME NEW tr
      PROVE  Count(own, Edge(u, tr)) = Count(s, Edge(u, tr))
    <2>1. Count(own, Edge(u, tr)) = Cardinality({i \in K : s[i] = Edge(u, tr)})
        BY <1>1, CountPick
    <2>2. Count(s, Edge(u, tr)) =
            Cardinality({i \in 1 .. Len(s) : s[i] = Edge(u, tr)})
        BY DEF Count, CountUpTo
    <2> QED  BY <1>4, <2>1, <2>2
<1> HIDE DEF own
<1>7. ASSUME NEW k \in 1 .. Len(own)
      PROVE  /\ own[k].target = u /\ own[k].tr \in BlockTransfer
             /\ own[k] = Edge(u, own[k].tr)
    <2>1. own[k] \in EdgeData(m)  BY <1>5, ElementOfSeq
    <2>2. own[k].target = u  BY <1>1, <1>5
    <2> QED  BY <2>1, <2>2, EdgeParts
<1>8. l \in [1 .. Len(own) -> EdgeData(m)]
    <2>1. \A k \in 1 .. Len(own) : Edge(n, own[k].tr) \in EdgeData(m)
        BY <1>7, EdgeType
    <2> QED  BY <2>1
<1>9. l \in Seq(EdgeData(m)) /\ Len(l) = Len(own)
    <2>1. DOMAIN l = 1 .. Len(own)  OBVIOUS
    <2> HIDE DEF l
    <2>2. l \in Seq(EdgeData(m))  BY <1>5, <1>8
    <2>3. DOMAIN l = 1 .. Len(l) /\ Len(l) \in Nat  BY <2>2, LenProperties
    <2> QED  BY <1>5, <2>1, <2>2, <2>3
<1>10. \A k \in 1 .. Len(own) : l[k] = Edge(n, own[k].tr)  OBVIOUS
<1>11. ASSUME u \notin Targets(s)
       PROVE  LinkedFrom(u, s, n) = <<>>
    <2>1. Len(own) = 0  BY <1>3, <1>5, <1>11, FS_EmptySet
    <2>2. Len(l) = 0  BY <1>9, <2>1
    <2> HIDE DEF l
    <2> QED  BY <1>2, <1>9, <2>2, EmptySeq
<1> HIDE DEF l
<1>12. ASSUME NEW v, NEW tr
       PROVE  Count(l, Edge(v, tr)) =
                IF v = n THEN Count(s, Edge(u, tr)) ELSE 0
    <2>1. \A k \in 1 .. Len(own) :
            l[k] = Edge(v, tr) <=> n = v /\ own[k].tr = tr
        BY <1>10, EdgeEqual
    <2>2. \A k \in 1 .. Len(own) : own[k] = Edge(u, tr) <=> own[k].tr = tr
        BY <1>7, EdgeEqual
    <2>3. CASE v = n
        <3>1. Count(own, Edge(u, tr)) = Count(l, Edge(v, tr))
            BY <1>9, <2>1, <2>2, <2>3, CountSame
        <3> QED  BY <1>6, <2>3, <3>1
    <2>4. CASE v # n
        <3>1. \A k \in 1 .. Len(l) : l[k] # Edge(v, tr)  BY <1>9, <2>1, <2>4
        <3> QED  BY <2>4, <3>1, CountNone
    <2> QED  BY <2>3, <2>4
<1> QED  BY <1>2, <1>9, <1>11, <1>12
\* Linking a list of vertices to n.
LEMMA EmplaceLinksLists ==
    ASSUME NEW g, IsGraph(g), NEW n \in Vertices(g),
           NEW s \in Seq(EdgeData(g.size))
    PROVE  LET h == EmplaceLinks(g, s, n)
           IN  /\ IsGraph(h) /\ Vertices(h) = Vertices(g)
               /\ h.out = [u \in Vertices(g) |->
                             g.out[u] \o LinkedFrom(u, s, n)]
               /\ h.in = [g.in EXCEPT ![n] = s]
               /\ h.detached = g.detached
<1> DEFINE h == EmplaceLinks(g, s, n)
           E == EdgeData(g.size)
           linked == [u \in Vertices(g) |-> g.out[u] \o LinkedFrom(u, s, n)]
           named == [g.in EXCEPT ![n] = s]
<1>1. /\ g.size \in Nat /\ g.size >= FirstReal
      /\ g.out \in [Vertices(g) -> Seq(E)]
      /\ g.in \in [Vertices(g) -> Seq(E)]
      /\ g.detached \in [Vertices(g) -> BOOLEAN]
    BY DEF IsGraph
<1>2. Vertices(g) = 0 .. g.size - 1  BY DEF Vertices
<1>3. h = [size |-> g.size, out |-> linked, in |-> named,
           detached |-> g.detached]
    BY DEF EmplaceLinks
<1>4. \A u : LinkedFrom(u, s, n) \in Seq(E)
    BY <1>1, <1>2, LinkedFromType
<1> HIDE DEF h, E
<1>5. ASSUME NEW u \in Vertices(g)
      PROVE  g.out[u] \o LinkedFrom(u, s, n) \in Seq(E)
    <2>1. g.out[u] \in Seq(E)  BY <1>1
    <2> QED  BY <1>4, <2>1, ConcatProperties
<1>6. linked \in [Vertices(g) -> Seq(E)]  BY <1>5
<1>7. named \in [Vertices(g) -> Seq(E)]
    <2>1. s \in Seq(E)  BY DEF E
    <2> QED  BY <1>1, <2>1
<1> HIDE DEF linked, named
<1>8. /\ h.size = g.size /\ h.out = linked /\ h.in = named
      /\ h.detached = g.detached
      /\ h = [size |-> h.size, out |-> h.out, in |-> h.in,
              detached |-> h.detached]
    BY <1>3
<1>9. Vertices(h) = Vertices(g)  BY <1>8 DEF Vertices
<1>10. /\ h.out \in [Vertices(h) -> Seq(E)]
       /\ h.in \in [Vertices(h) -> Seq(E)]
    BY <1>6, <1>7, <1>8, <1>9
<1>11. h.detached \in [Vertices(h) -> BOOLEAN]  BY <1>1, <1>8, <1>9, Zenon
<1>12. IsGraph(h)
    <2>1. E = EdgeData(h.size)  BY <1>8 DEF E
    <2> QED  BY <2>1, <1>1, <1>8, <1>10, <1>11 DEF IsGraph
<1> QED  BY <1>8, <1>9, <1>12 DEF h, linked, named

\* The two copies of the new edges agree, when n had none.
LEMMA EmplaceLinksMirrored ==
    ASSUME NEW g, IsGraph(g), Mirrored(g), NEW n \in Vertices(g),
           g.in[n] = <<>>, NEW s \in Seq(EdgeData(g.size))
    PROVE  Mirrored(EmplaceLinks(g, s, n))
<1> DEFINE h == EmplaceLinks(g, s, n)
           m == g.size
<1>1. /\ Vertices(h) = Vertices(g)
      /\ h.out = [u \in Vertices(g) |-> g.out[u] \o LinkedFrom(u, s, n)]
      /\ h.in = [g.in EXCEPT ![n] = s]
    <2>1. /\ IsGraph(h) /\ Vertices(h) = Vertices(g)
          /\ h.out = [u \in Vertices(g) |-> g.out[u] \o LinkedFrom(u, s, n)]
          /\ h.in = [g.in EXCEPT ![n] = s]
          /\ h.detached = g.detached
        BY EmplaceLinksLists
    <2> HIDE DEF h
    <2> QED  BY <2>1
<1>2. m \in Nat /\ n \in 0 .. m - 1  BY GraphLists
<1>3. ASSUME NEW u \in Vertices(g)
      PROVE  g.out[u] \in Seq(EdgeData(m)) /\ g.in[u] \in Seq(EdgeData(m))
    BY GraphLists
<1>4. DOMAIN g.in = Vertices(g)  BY DEF IsGraph
<1>5. s \in Seq(EdgeData(m))  OBVIOUS
<1> HIDE DEF h, m
<1>6. h.in[n] = s /\ \A v \in Vertices(g) : v # n => h.in[v] = g.in[v]
    BY <1>1, <1>4
<1>7. ASSUME NEW u \in Vertices(g), NEW v \in Vertices(g),
             NEW tr \in BlockTransfer
      PROVE  Count(h.out[u], Edge(v, tr)) = Count(h.in[v], Edge(u, tr))
    <2> DEFINE l == LinkedFrom(u, s, n)
    <2>1. h.out[u] = g.out[u] \o l  BY <1>1
    <2>2. /\ l \in Seq(EdgeData(m))
          /\ Count(l, Edge(v, tr)) = IF v = n THEN Count(s, Edge(u, tr)) ELSE 0
        BY <1>2, <1>5, LinkedFromType
    <2> HIDE DEF l
    <2>3. Count(h.out[u], Edge(v, tr)) =
            Count(g.out[u], Edge(v, tr)) + Count(l, Edge(v, tr))
        BY <1>3, <2>1, <2>2, CountConcat
    <2>4. Count(g.out[u], Edge(v, tr)) = Count(g.in[v], Edge(u, tr))
        BY DEF Mirrored
    <2>5. Len(g.in[v]) \in Nat /\ Len(s) \in Nat
        BY <1>3, <1>5, LenProperties
    <2>6. Count(g.in[v], Edge(u, tr)) \in Nat /\ Count(s, Edge(u, tr)) \in Nat
        BY <2>5, CountType
    <2>7. CASE v = n
        <3>1. Count(g.in[v], Edge(u, tr)) = 0  BY <2>7, CountNone
        <3> QED  BY <1>6, <2>2, <2>3, <2>4, <2>6, <2>7, <3>1
    <2>8. CASE v # n
        BY <1>6, <2>2, <2>3, <2>4, <2>6, <2>8
    <2> QED  BY <2>7, <2>8
<1> QED  BY <1>1, <1>7 DEF Mirrored, h

-----------------------------------------------------------------------------
(* Detached vertices *)

\* Detached vertices have no edges, and the pseudo vertices stay.
Bare(g) ==
    /\ \A v \in Vertices(g) :
            g.detached[v] => g.out[v] = <<>> /\ g.in[v] = <<>>
    /\ ~g.detached[Root] /\ ~g.detached[Terminal]

\* A vertex without edges is named by nobody, where the copies agree.
LEMMA BareIsolated ==
    ASSUME NEW g, IsGraph(g), Mirrored(g), NEW v \in Vertices(g),
           g.out[v] = <<>>, g.in[v] = <<>>, NEW u \in Vertices(g)
    PROVE  v \notin Targets(g.out[u]) \cup Targets(g.in[u])
<1> DEFINE n == g.size
<1>1. n \in Nat /\ g.out[u] \in Seq(EdgeData(n)) /\ g.in[u] \in Seq(EdgeData(n))
    BY GraphLists
<1> HIDE DEF n
<1>2. ASSUME NEW s \in Seq(EdgeData(n)), v \in Targets(s)
      PROVE  \E tr \in BlockTransfer : Count(s, Edge(v, tr)) # 0
    <2>1. PICK e \in ToSet(s) : e.target = v  BY <1>2 DEF Targets
    <2>2. DOMAIN s = 1 .. Len(s)  BY LenProperties
    <2>3. e \in EdgeData(n)  BY <2>2, ElementOfSeq DEF ToSet
    <2>4. e = Edge(v, e.tr) /\ e.tr \in BlockTransfer
        BY <1>1, <2>1, <2>3, EdgeParts
    <2>5. Count(s, e) # 0  BY CountSome
    <2> QED  BY <2>4, <2>5
<1>3. \A e : Count(g.out[v], e) = 0 /\ Count(g.in[v], e) = 0
    BY CountNone
<1>4. \A tr \in BlockTransfer :
        /\ Count(g.out[u], Edge(v, tr)) = Count(g.in[v], Edge(u, tr))
        /\ Count(g.out[v], Edge(u, tr)) = Count(g.in[u], Edge(v, tr))
    BY DEF Mirrored
<1> QED  BY <1>1, <1>2, <1>3, <1>4
\* The pseudo vertices are vertices.
LEMMA PseudoVertices ==
    ASSUME NEW g, IsGraph(g)
    PROVE  Root \in Vertices(g) /\ Terminal \in Vertices(g)
BY DEF IsGraph, Vertices, Root, Terminal, FirstReal

\* A new vertex is attached, and the others are what they were.
LEMMA GrowFlagsAt ==
    ASSUME NEW n \in Nat, NEW f
    PROVE  /\ Grow(f, n, FALSE)[n] = FALSE
           /\ \A v \in 0 .. n - 1 : Grow(f, n, FALSE)[v] = f[v]
<1>1. n \in 0 .. n /\ \A v \in 0 .. n - 1 : v \in 0 .. n /\ v # n  OBVIOUS
<1>2. \A v \in 0 .. n : Grow(f, n, FALSE)[v] = IF v = n THEN FALSE ELSE f[v]
    BY Zenon DEF Grow
<1> QED  BY <1>1, <1>2, Zenon

\* A graph with one more vertex without edges.
LEMMA GrownBare ==
    ASSUME NEW g, NEW h, IsGraph(g), Bare(g),
           h.detached = Grow(g.detached, g.size, FALSE),
           Vertices(h) = Vertices(g) \cup {g.size},
           \A v \in Vertices(g) :
                g.detached[v] => h.out[v] = <<>> /\ h.in[v] = <<>>
    PROVE  Bare(h) /\ ~h.detached[g.size]
<1>1. g.size \in Nat /\ Vertices(g) = 0 .. g.size - 1  BY DEF IsGraph, Vertices
<1>2. h.detached[g.size] = FALSE
      /\ \A v \in Vertices(g) : h.detached[v] = g.detached[v]
    <2>1. /\ Grow(g.detached, g.size, FALSE)[g.size] = FALSE
          /\ \A v \in 0 .. g.size - 1 :
                Grow(g.detached, g.size, FALSE)[v] = g.detached[v]
        BY <1>1, GrowFlagsAt
    <2> QED  BY <1>1, <2>1, Zenon
<1>3. Root \in Vertices(g) /\ Terminal \in Vertices(g)  BY PseudoVertices
<1>4. ~g.detached[Root] /\ ~g.detached[Terminal]  BY DEF Bare
<1>5. ~h.detached[Root] /\ ~h.detached[Terminal]
    BY <1>2, <1>3, <1>4, Zenon
<1>6. ASSUME NEW v \in Vertices(h), h.detached[v]
      PROVE  h.out[v] = <<>> /\ h.in[v] = <<>>
    <2>1. v # g.size  BY <1>2, <1>6, Zenon
    <2>2. v \in Vertices(g)  BY <2>1
    <2>3. g.detached[v]  BY <1>2, <1>6, <2>2, Zenon
    <2> QED  BY <2>2, <2>3, Zenon
<1> QED  BY <1>2, <1>5, <1>6, Zenon DEF Bare

\* So emplace_vertex detaches nothing.
LEMMA EmplaceVertexBare ==
    ASSUME NEW g, IsGraph(g), Bare(g)
    PROVE  Bare(EmplaceVertex(g)) /\ ~EmplaceVertex(g).detached[g.size]
<1> DEFINE h == EmplaceVertex(g)
<1>1. /\ Vertices(h) = Vertices(g) \cup {g.size}
      /\ \A v \in Vertices(g) : h.out[v] = g.out[v] /\ h.in[v] = g.in[v]
    BY EmplaceVertexLists
<1>2. h.detached = Grow(g.detached, g.size, FALSE)  BY DEF EmplaceVertex
<1> HIDE DEF h
<1>3. \A v \in Vertices(g) :
        g.detached[v] => h.out[v] = <<>> /\ h.in[v] = <<>>
    BY <1>1, Zenon DEF Bare
<1> QED  BY <1>1, <1>2, <1>3, GrownBare, Zenon DEF h

\* A link between attached vertices.
LEMMA EmplaceLinkBare ==
    ASSUME NEW g, IsGraph(g), Bare(g),
           NEW u \in Vertices(g), NEW v \in Vertices(g),
           NEW tr \in BlockTransfer,
           ~g.detached[u], ~g.detached[v]
    PROVE  Bare(EmplaceLink(g, u, v, tr))
<1> DEFINE h == EmplaceLink(g, u, v, tr)
<1>1. /\ Vertices(h) = Vertices(g)
      /\ \A w \in Vertices(g) : w # u => h.out[w] = g.out[w]
      /\ \A w \in Vertices(g) : w # v => h.in[w] = g.in[w]
    BY EmplaceLinkLists
<1>2. h.detached = g.detached  BY DEF EmplaceLink
<1> HIDE DEF h
<1> QED  BY <1>1, <1>2, Zenon DEF Bare, h

\* A vertex inserted after an attached one.
LEMMA InsertAfterBare ==
    ASSUME NEW g, IsGraph(g), Mirrored(g), Bare(g), NEW before \in Vertices(g),
           NEW tr \in BlockTransfer, ~g.detached[before]
    PROVE  Bare(InsertAfter(g, before, tr))
<1> DEFINE h == Moved(g, before)
           n == g.size
<1>1. /\ Vertices(h) = Vertices(g) \cup {n}
      /\ \A v \in Vertices(g) : v # before => h.out[v] = g.out[v]
      /\ \A v \in Vertices(g) : Len(h.in[v]) = Len(g.in[v])
    BY MovedLists
<1>2. IsGraph(h)  BY MovedType
<1>3. h.detached = Grow(g.detached, n, FALSE)  BY DEF Moved
<1>4. n \in Nat /\ Vertices(g) = 0 .. n - 1  BY DEF IsGraph, Vertices
<1> HIDE DEF h, n
<1>5. ASSUME NEW v \in Vertices(g), g.detached[v]
      PROVE  h.out[v] = <<>> /\ h.in[v] = <<>>
    <2>1. v # before  BY <1>5, Zenon
    <2>2. g.out[v] = <<>> /\ g.in[v] = <<>>  BY <1>5, Zenon DEF Bare
    <2>3. Len(h.in[v]) = 0  BY <1>1, <2>2
    <2>4. h.in[v] \in Seq(EdgeData(h.size))  BY <1>1, <1>2, GraphLists
    <2>5. h.in[v] = <<>>  BY <2>3, <2>4, EmptySeq
    <2> QED  BY <1>1, <2>1, <2>2, <2>5
<1>6. Bare(h) /\ ~h.detached[n]  BY <1>1, <1>3, <1>5, GrownBare, Zenon DEF n
<1>7. ~h.detached[before]
    <2>1. \A v \in 0 .. n - 1 :
            Grow(g.detached, n, FALSE)[v] = g.detached[v]
        BY <1>4, GrowFlagsAt
    <2>2. h.detached[before] = g.detached[before]  BY <1>3, <1>4, <2>1, Zenon
    <2> QED  BY <2>2, Zenon
<1>8. before \in Vertices(h) /\ n \in Vertices(h)  BY <1>1
<1>9. Bare(EmplaceLink(h, before, n, tr))
    BY <1>2, <1>6, <1>7, <1>8, EmplaceLinkBare, Zenon
<1> QED  BY <1>9, InsertAfterIs DEF h, n

\* detach empties the lists of the vertex it detaches.
LEMMA DetachBare ==
    ASSUME NEW g, IsGraph(g), Bare(g), NEW v \in Vertices(g),
           v # Root, v # Terminal
    PROVE  Bare(Detach(g, v))
<1> DEFINE h == Detach(g, v)
<1>1. /\ Vertices(h) = Vertices(g)
      /\ h.out = [u \in Vertices(g) |->
                    IF u = v THEN <<>> ELSE Avoiding(g.out[u], v)]
      /\ h.in = [u \in Vertices(g) |->
                    IF u = v THEN <<>> ELSE Avoiding(g.in[u], v)]
      /\ h.detached = [g.detached EXCEPT ![v] = TRUE]
    <2>1. /\ IsGraph(h) /\ h.size = g.size /\ Vertices(h) = Vertices(g)
          /\ h.out = [u \in Vertices(g) |->
                        IF u = v THEN <<>> ELSE Avoiding(g.out[u], v)]
          /\ h.in = [u \in Vertices(g) |->
                        IF u = v THEN <<>> ELSE Avoiding(g.in[u], v)]
          /\ h.detached = [g.detached EXCEPT ![v] = TRUE]
        BY DetachLists
    <2> HIDE DEF h
    <2> QED  BY <2>1, Zenon
<1>2. DOMAIN g.detached = Vertices(g)  BY DEF IsGraph
<1> HIDE DEF h
<1>3. \A u \in Vertices(g) : u # v => h.detached[u] = g.detached[u]
    BY <1>1, <1>2, Zenon
<1>4. Root \in Vertices(g) /\ Terminal \in Vertices(g)  BY PseudoVertices
<1>5. ~h.detached[Root] /\ ~h.detached[Terminal]
    BY <1>3, <1>4, Zenon DEF Bare
<1>6. ASSUME NEW u \in Vertices(g), h.detached[u]
      PROVE  h.out[u] = <<>> /\ h.in[u] = <<>>
    <2>1. CASE u = v  BY <1>1, <2>1
    <2>2. CASE u # v
        <3>1. g.detached[u]  BY <1>3, <1>6, <2>2, Zenon
        <3>2. g.out[u] = <<>> /\ g.in[u] = <<>>  BY <3>1, Zenon DEF Bare
        <3>3. <<>> \in Seq(EdgeData(0)) /\ 0 \in Nat  OBVIOUS
        <3>4. Avoiding(<<>>, v) = <<>>  BY <3>3, AvoidingType
        <3> QED  BY <1>1, <2>2, <3>2, <3>4
    <2> QED  BY <2>1, <2>2
<1> QED  BY <1>1, <1>5, <1>6, Zenon DEF Bare, h

\* Links from attached vertices to an attached one.
LEMMA EmplaceLinksBare ==
    ASSUME NEW g, IsGraph(g), Bare(g), NEW n \in Vertices(g), ~g.detached[n],
           NEW s \in Seq(EdgeData(g.size)),
           \A u \in Targets(s) : ~g.detached[u]
    PROVE  Bare(EmplaceLinks(g, s, n))
<1> DEFINE h == EmplaceLinks(g, s, n)
<1>1. /\ Vertices(h) = Vertices(g)
      /\ h.out = [u \in Vertices(g) |-> g.out[u] \o LinkedFrom(u, s, n)]
      /\ h.in = [g.in EXCEPT ![n] = s]
      /\ h.detached = g.detached
    <2>1. /\ IsGraph(h) /\ Vertices(h) = Vertices(g)
          /\ h.out = [u \in Vertices(g) |-> g.out[u] \o LinkedFrom(u, s, n)]
          /\ h.in = [g.in EXCEPT ![n] = s]
          /\ h.detached = g.detached
        BY EmplaceLinksLists
    <2> HIDE DEF h
    <2> QED  BY <2>1
<1>2. g.size \in Nat /\ n \in 0 .. g.size - 1  BY GraphLists
<1>3. DOMAIN g.in = Vertices(g)  BY DEF IsGraph
<1> HIDE DEF h
<1>4. ASSUME NEW u \in Vertices(g), g.detached[u]
      PROVE  h.out[u] = <<>> /\ h.in[u] = <<>>
    <2>1. u # n /\ u \notin Targets(s)  BY <1>4, Zenon
    <2>2. g.out[u] = <<>> /\ g.in[u] = <<>>  BY <1>4, Zenon DEF Bare
    <2>3. LinkedFrom(u, s, n) = <<>>  BY <1>2, <2>1, LinkedFromType
    <2>4. <<>> \o <<>> = <<>>
        <3>1. <<>> \in Seq({})  OBVIOUS
        <3> QED  BY <3>1, ConcatEmptySeq
    <2> QED  BY <1>1, <1>3, <2>1, <2>2, <2>3, <2>4
<1>5. ~h.detached[Root] /\ ~h.detached[Terminal]  BY <1>1, Zenon DEF Bare
<1> QED  BY <1>1, <1>4, <1>5, Zenon DEF Bare, h
-----------------------------------------------------------------------------
(* Every sequence of calls *)

\* What every call of a mutator keeps.
Consistent(g) == IsGraph(g) /\ Mirrored(g) /\ Bare(g)

\* A consistent graph is what EdgesConsistent asks for.
LEMMA ConsistentImplies ==
    Consistent(gr) => EdgesConsistent
<1> SUFFICES ASSUME Consistent(gr)
             PROVE  DetachedIsolated
    BY DEF Consistent, EdgesConsistent, TypeOK, Mirror
<1>1. IsGraph(gr) /\ Mirrored(gr) /\ Bare(gr)  BY DEF Consistent
<1>2. ASSUME NEW v \in Vertices(gr), gr.detached[v]
      PROVE  /\ gr.out[v] = <<>> /\ gr.in[v] = <<>>
             /\ \A u \in Vertices(gr) :
                    v \notin Targets(gr.out[u]) \cup Targets(gr.in[u])
    <2>1. gr.out[v] = <<>> /\ gr.in[v] = <<>>  BY <1>1, <1>2, Zenon DEF Bare
    <2> QED  BY <1>1, <2>1, BareIsolated
<1> QED  BY <1>2 DEF DetachedIsolated

\* Nobody names a detached vertex of a consistent graph.
LEMMA NeighboursAttached ==
    ASSUME NEW g, Consistent(g), NEW u \in Vertices(g),
           NEW v, v \in Targets(g.out[u]) \cup Targets(g.in[u])
    PROVE  v \in Vertices(g) /\ ~g.detached[v]
<1>1. IsGraph(g) /\ Mirrored(g) /\ Bare(g)  BY DEF Consistent
<1>2. /\ g.size \in Nat /\ Vertices(g) = 0 .. g.size - 1
      /\ g.out[u] \in Seq(EdgeData(g.size))
      /\ g.in[u] \in Seq(EdgeData(g.size))
    BY <1>1, GraphLists
<1>3. ASSUME NEW s \in Seq(EdgeData(g.size)), v \in Targets(s)
      PROVE  v \in Vertices(g)
    <2>1. PICK k \in 1 .. Len(s) : s[k].target = v  BY <1>2, <1>3, TargetsOf
    <2>2. s[k] \in EdgeData(g.size)  BY ElementOfSeq
    <2> QED  BY <1>2, <2>1, <2>2, EdgeParts
<1>4. v \in Vertices(g)  BY <1>2, <1>3
<1>5. ASSUME g.detached[v]
      PROVE  FALSE
    <2>1. g.out[v] = <<>> /\ g.in[v] = <<>>  BY <1>1, <1>4, <1>5, Zenon DEF Bare
    <2> QED  BY <1>1, <1>4, <2>1, BareIsolated
<1> QED  BY <1>4, <1>5

\* detach keeps a graph consistent and the other vertices attached.
LEMMA DetachConsistent ==
    ASSUME NEW g, Consistent(g), NEW v \in RealVertices(g)
    PROVE  LET h == Detach(g, v)
           IN  /\ Consistent(h) /\ h.size = g.size
               /\ Vertices(h) = Vertices(g)
               /\ \A u \in Vertices(g) : u # v => h.detached[u] = g.detached[u]
<1> DEFINE h == Detach(g, v)
<1>1. IsGraph(g) /\ Mirrored(g) /\ Bare(g)  BY DEF Consistent
<1>2. v \in Vertices(g) /\ v # Root /\ v # Terminal
    BY <1>1 DEF RealVertices, Vertices, IsGraph, FirstReal, Root, Terminal
<1>3. Mirrored(h)  BY <1>1, <1>2, DetachMirrored
<1>4. Bare(h)  BY <1>1, <1>2, DetachBare
<1>5. IsGraph(h)  BY <1>1, <1>2, DetachLists
<1>6. h.size = g.size /\ Vertices(h) = Vertices(g)
    BY <1>1, <1>2, DetachLists
<1>7. h.detached = [g.detached EXCEPT ![v] = TRUE]
    BY <1>1 DEF Detach, IsGraph
<1>8. DOMAIN g.detached = Vertices(g)  BY <1>1 DEF IsGraph
<1> HIDE DEF h
<1>9. \A u \in Vertices(g) : u # v => h.detached[u] = g.detached[u]
    BY <1>7, <1>8, Zenon
<1> QED  BY <1>3, <1>4, <1>5, <1>6, <1>9, Zenon DEF Consistent, h

\* substitute_pair_existing keeps a graph consistent.
LEMMA SubstituteConsistent ==
    ASSUME NEW g, Consistent(g), NEW a \in RealVertices(g),
           NEW b \in RealVertices(g), a # b
    PROVE  Consistent(SubstitutePair(g, a, b))
<1> DEFINE d == Detach(g, a)
           e == Detach(d, b)
           h == EmplaceVertex(e)
           s == SubstituteInlist(g, a, b)
           n == g.size
<1>1. IsGraph(g) /\ Mirrored(g) /\ Bare(g)  BY DEF Consistent
<1>2. /\ a \in Vertices(g) /\ b \in Vertices(g)
      /\ n \in Nat /\ b >= FirstReal /\ Vertices(g) = 0 .. n - 1
    BY <1>1 DEF RealVertices, Vertices, IsGraph, FirstReal
<1>3. /\ Consistent(d) /\ d.size = n /\ Vertices(d) = Vertices(g)
      /\ \A u \in Vertices(g) : u # a => d.detached[u] = g.detached[u]
    BY DetachConsistent, Zenon
<1> HIDE DEF d
<1>4. b \in RealVertices(d)
    <2>1. ~g.detached[b]  BY DEF RealVertices
    <2>2. ~d.detached[b]  BY <1>2, <1>3, <2>1, Zenon
    <2> QED  BY <1>2, <1>3, <2>2 DEF RealVertices, FirstReal
<1>5. /\ Consistent(e) /\ e.size = n /\ Vertices(e) = Vertices(g)
      /\ \A u \in Vertices(g) : u # b => e.detached[u] = d.detached[u]
    BY <1>3, <1>4, DetachConsistent, Zenon
<1> HIDE DEF e
<1>6. IsGraph(e) /\ Mirrored(e) /\ Bare(e)  BY <1>5 DEF Consistent
<1>7. /\ IsGraph(h) /\ h.size = n + 1 /\ Mirrored(h)
      /\ Bare(h) /\ ~h.detached[n]
    BY <1>5, <1>6, EmplaceVertexType, EmplaceVertexMirrored, EmplaceVertexBare
<1>8. Vertices(h) = Vertices(g) \cup {n} /\ h.in[n] = <<>>
    BY <1>5, <1>6, EmplaceVertexLists
<1>9. \A u \in Vertices(g) : h.detached[u] = e.detached[u]
    <2>1. h.detached = Grow(e.detached, n, FALSE)
        BY <1>5 DEF EmplaceVertex
    <2>2. \A v \in 0 .. n - 1 :
            Grow(e.detached, n, FALSE)[v] = e.detached[v]
        BY <1>2, GrowFlagsAt
    <2> QED  BY <1>2, <2>1, <2>2, Zenon
<1>10. s \in Seq(EdgeData(n + 1))
    <2>1. s \in Seq(EdgeData(n))  BY <1>1, <1>2, InlistType
    <2> QED  BY <1>2, <2>1, EdgeSeqGrows
<1>11. Targets(s) \subseteq
        (Targets(g.in[a]) \cup Targets(g.out[a])
            \cup Targets(g.in[b]) \cup Targets(g.out[b])) \ {a, b}
    BY <1>1, <1>2, InlistType
<1> HIDE DEF h, s, n
<1>12. ASSUME NEW u \in Targets(s)
       PROVE  ~h.detached[u]
    <2>1. u # a /\ u # b  BY <1>11
    <2>2. u \in Vertices(g) /\ ~g.detached[u]
        BY <1>2, <1>11, NeighboursAttached
    <2> QED  BY <1>3, <1>5, <1>9, <2>1, <2>2, Zenon
<1>13. n \in Vertices(h)  BY <1>8
<1>14. s \in Seq(EdgeData(h.size))  BY <1>7, <1>10
<1>15. Mirrored(EmplaceLinks(h, s, n))
    BY <1>7, <1>8, <1>13, <1>14, EmplaceLinksMirrored
<1>16. Bare(EmplaceLinks(h, s, n))
    BY <1>7, <1>12, <1>13, <1>14, EmplaceLinksBare, Zenon
<1>17. IsGraph(EmplaceLinks(h, s, n))
    BY <1>7, <1>13, <1>14, EmplaceLinksLists
<1>18. SubstitutePair(g, a, b) = EmplaceLinks(h, s, n)
    BY DEF SubstitutePair, h, s, n, d, e
<1> QED  BY <1>15, <1>16, <1>17, <1>18 DEF Consistent

\* The empty graph is consistent.
LEMMA CallsInit == Init => Consistent(gr)
<1> SUFFICES ASSUME Init
             PROVE  Consistent(gr)
    OBVIOUS
<1>1. gr = NewGraph  BY DEF Init
<1>2. Bare(NewGraph)
    <2>1. Vertices(NewGraph) = {Root, Terminal}
        BY DEF NewGraph, Vertices, FirstReal, Root, Terminal
    <2>2. \A v \in {Root, Terminal} :
            ~NewGraph.detached[v]
        BY DEF NewGraph
    <2> QED  BY <2>1, <2>2, Zenon DEF Bare
<1> QED  BY <1>1, <1>2, NewGraphType, NewGraphMirrored DEF Consistent

\* Every call of a mutator keeps it consistent.
LEMMA CallsNext == Consistent(gr) /\ [Next]_gr => Consistent(gr)'
<1> SUFFICES ASSUME Consistent(gr), [Next]_gr
             PROVE  Consistent(gr)'
    OBVIOUS
<1>1. IsGraph(gr) /\ Mirrored(gr) /\ Bare(gr)  BY DEF Consistent
<1>2. ASSUME NEW v \in RealVertices(gr)
      PROVE  v \in Vertices(gr) /\ ~gr.detached[v]
    BY <1>1 DEF RealVertices, Vertices, IsGraph, FirstReal
<1>3. /\ Root \in Vertices(gr) /\ Terminal \in Vertices(gr)
      /\ ~gr.detached[Root] /\ ~gr.detached[Terminal]
    BY <1>1, PseudoVertices DEF Bare
<1>4. CASE DoEmplaceVertex
    <2>1. gr' = EmplaceVertex(gr)  BY <1>4 DEF DoEmplaceVertex
    <2>2. Consistent(EmplaceVertex(gr))
        BY <1>1, EmplaceVertexType, EmplaceVertexMirrored, EmplaceVertexBare
           DEF Consistent
    <2> QED  BY <2>1, <2>2 DEF Consistent
<1>5. ASSUME NEW u \in Sources, NEW v \in Destinations, NEW tr \in Transfers,
             DoEmplaceLink(u, v, tr)
      PROVE  Consistent(gr)'
    <2>1. gr' = EmplaceLink(gr, u, v, tr)  BY <1>5 DEF DoEmplaceLink
    <2>2. /\ u \in Vertices(gr) /\ v \in Vertices(gr)
          /\ ~gr.detached[u] /\ ~gr.detached[v]
        BY <1>2, <1>3 DEF Sources, Destinations
    <2>3. tr \in BlockTransfer  BY TransfersAssumption
    <2>4. Consistent(EmplaceLink(gr, u, v, tr))
        BY <1>1, <2>2, <2>3, EmplaceLinkType, EmplaceLinkMirrored,
           EmplaceLinkBare DEF Consistent
    <2> QED  BY <2>1, <2>4 DEF Consistent
<1>6. ASSUME NEW before \in RealVertices(gr), NEW tr \in Transfers,
             DoInsertAfter(before, tr)
      PROVE  Consistent(gr)'
    <2>1. gr' = InsertAfter(gr, before, tr)  BY <1>6 DEF DoInsertAfter
    <2>2. before \in Vertices(gr) /\ ~gr.detached[before]  BY <1>2
    <2>3. tr \in BlockTransfer  BY TransfersAssumption
    <2>4. Consistent(InsertAfter(gr, before, tr))
        BY <1>1, <2>2, <2>3, InsertAfterType, InsertAfterMirrored,
           InsertAfterBare DEF Consistent
    <2> QED  BY <2>1, <2>4 DEF Consistent
<1>7. ASSUME NEW v \in RealVertices(gr), DoDetach(v)
      PROVE  Consistent(gr)'
    <2>1. gr' = Detach(gr, v)  BY <1>7 DEF DoDetach
    <2>2. Consistent(Detach(gr, v))  BY DetachConsistent
    <2> QED  BY <2>1, <2>2 DEF Consistent
<1>8. ASSUME NEW a \in RealVertices(gr), NEW b \in RealVertices(gr), a # b,
             DoSubstitutePair(a, b)
      PROVE  Consistent(gr)'
    <2>1. gr' = SubstitutePair(gr, a, b)  BY <1>8 DEF DoSubstitutePair
    <2>2. Consistent(SubstitutePair(gr, a, b))  BY <1>8, SubstituteConsistent
    <2> QED  BY <2>1, <2>2 DEF Consistent
<1>9. CASE UNCHANGED gr  BY <1>9 DEF Consistent
<1> QED  BY <1>4, <1>5, <1>6, <1>7, <1>8, <1>9 DEF Next

\* After any number of calls of emplace_vertex, emplace_link, insert_after,
\* detach and substitute_pair_existing the graph is well-typed, the two copies
\* of each edge agree and nothing leads to a detached vertex.
THEOREM EdgesAlwaysConsistent == Spec => []EdgesConsistent
BY CallsInit, CallsNext, ConsistentImplies, PTL DEF Spec

-----------------------------------------------------------------------------
(* Paths *)

\* insert_after lengthens paths and neither cuts nor adds one.
LEMMA InsertAfterPaths ==
    ASSUME NEW g, IsGraph(g), Mirrored(g), NEW before \in Vertices(g),
           NEW tr \in BlockTransfer
    PROVE  {p \in Paths(InsertAfter(g, before, tr)) :
                p[1] # g.size /\ p[2] # g.size} = Paths(g)
<1> DEFINE n == g.size
           h == InsertAfter(g, before, tr)
           old == {p \in Paths(h) : p[1] # n /\ p[2] # n}
<1>1. /\ Vertices(h) = Vertices(g) \cup {n} /\ n \notin Vertices(g)
      /\ Successors(h, before) = {n}
      /\ Successors(h, n) = Successors(g, before)
      /\ \A w \in Vertices(g) :
            w # before => Successors(h, w) = Successors(g, w)
    BY InsertAfterSuccessors
<1>2. \A w \in Vertices(g) : Successors(g, w) \subseteq Vertices(g)
    BY SuccessorsType
<1> HIDE DEF h, n
<1>3. ASSUME NEW p \in old
      PROVE  p \in Paths(g)
    <2>1. p \in Vertices(g) \X Vertices(g) /\ p[1] # n /\ p[2] # n
        BY <1>1 DEF Paths
    <2> SUFFICES ASSUME NEW S \in ClosedSets(g), Successors(g, p[1]) \subseteq S
                 PROVE  p[2] \in S
        BY <2>1 DEF Paths
    <2> DEFINE T == {w \in S \cup {n} :
                        w = n => Successors(g, before) \subseteq S}
    <2>2. /\ S \subseteq Vertices(g) /\ S \subseteq T /\ T \subseteq Vertices(h)
          /\ \A w \in S : Successors(g, w) \subseteq S
          /\ n \in T <=> Successors(g, before) \subseteq S
        BY <1>1 DEF ClosedSets
    <2>3. p[1] \in Vertices(g) /\ p[2] \in Vertices(g)  BY <2>1
    <2>4. ASSUME NEW w \in Vertices(g), Successors(g, w) \subseteq S
          PROVE  Successors(h, w) \subseteq T
        <3>1. CASE w = before  BY <1>1, <2>2, <2>4, <3>1
        <3>2. CASE w # before  BY <1>1, <2>2, <2>4, <3>2
        <3> QED  BY <3>1, <3>2
    <2>5. \A w \in T : w \in S \/ w = n  OBVIOUS
    <2> HIDE DEF T
    <2>6. ASSUME NEW w \in T
          PROVE  Successors(h, w) \subseteq T
        <3>1. CASE w = n  BY <1>1, <2>2, <3>1
        <3>2. CASE w \in S  BY <2>2, <2>4, <3>2
        <3> QED  BY <2>5, <3>1, <3>2
    <2>7. T \in ClosedSets(h)  BY <2>2, <2>6 DEF ClosedSets
    <2>8. Successors(h, p[1]) \subseteq T  BY <2>3, <2>4
    <2>9. p[2] \in T  BY <2>7, <2>8 DEF Paths
    <2> QED  BY <1>1, <2>3, <2>5, <2>9
<1>4. ASSUME NEW p \in Paths(g)
      PROVE  p \in old
    <2>1. p \in Vertices(g) \X Vertices(g)  BY DEF Paths
    <2>2. p[1] \in Vertices(g) /\ p[2] \in Vertices(g)  BY <2>1
    <2>3. p \in Vertices(h) \X Vertices(h) /\ p[1] # n /\ p[2] # n
        BY <1>1, <2>1, <2>2
    <2> SUFFICES ASSUME NEW S \in ClosedSets(h), Successors(h, p[1]) \subseteq S
                 PROVE  p[2] \in S
        BY <2>3 DEF Paths
    <2> DEFINE T == S \cap Vertices(g)
    <2>4. \A w \in S : Successors(h, w) \subseteq S  BY DEF ClosedSets
    <2>5. ASSUME NEW w \in Vertices(g), Successors(h, w) \subseteq S
          PROVE  Successors(g, w) \subseteq T
        <3>1. CASE w = before  BY <1>1, <1>2, <2>4, <2>5, <3>1
        <3>2. CASE w # before  BY <1>1, <1>2, <2>5, <3>2
        <3> QED  BY <3>1, <3>2
    <2>6. T \in ClosedSets(g)  BY <2>4, <2>5 DEF ClosedSets
    <2>7. Successors(g, p[1]) \subseteq T  BY <2>2, <2>5
    <2> QED  BY <2>6, <2>7 DEF Paths
<1> QED  BY <1>3, <1>4 DEF h, n

\* A step that inserts a vertex keeps the paths between the others: whatever
\* could run before the split of a block can run after it, and nothing else.
THEOREM SplitsKeepPaths == Spec => InsertAfterKeepsPaths
<1> DEFINE kept ==
            \A before \in RealVertices(gr), tr \in Transfers :
                DoInsertAfter(before, tr) =>
                    {p \in Paths(gr') : p[1] # gr.size /\ p[2] # gr.size} =
                        Paths(gr)
<1>1. ASSUME Consistent(gr)
      PROVE  kept
    <2> SUFFICES ASSUME NEW before \in RealVertices(gr), NEW tr \in Transfers,
                        DoInsertAfter(before, tr)
                 PROVE  {p \in Paths(gr') : p[1] # gr.size /\ p[2] # gr.size} =
                            Paths(gr)
        OBVIOUS
    <2>1. IsGraph(gr) /\ Mirrored(gr)  BY <1>1 DEF Consistent
    <2>2. before \in Vertices(gr)
        BY <2>1 DEF RealVertices, Vertices, IsGraph, FirstReal
    <2>3. tr \in BlockTransfer  BY TransfersAssumption
    <2>4. gr' = InsertAfter(gr, before, tr)  BY DEF DoInsertAfter
    <2> QED  BY <2>1, <2>2, <2>3, <2>4, InsertAfterPaths
<1>2. Consistent(gr) => [kept]_gr  BY <1>1
<1> QED  BY <1>2, CallsInit, CallsNext, PTL DEF Spec, InsertAfterKeepsPaths
=============================================================================
