----------------------------- MODULE FlowGraph -----------------------------
(***************************************************************************)
(* The directed multigraph every pass of the decompiler works on:          *)
(* FlowGraphBase and FlowGraph of src/utl/FlowGraph.hh and FlowGraph.cc.   *)
(* A graph is a value and each mutator an operator from graphs to graphs,  *)
(* so that the passes (SubroutineGraph) can call several in one step.      *)
(*                                                                         *)
(* Every edge is stored twice, in the _out list of its source and in the   *)
(* _in list of its destination; no mutator touches the two together, which *)
(* is what the properties of FlowGraphCalls are about.                     *)
(***************************************************************************)
EXTENDS Lists, SequencesExt

Root == 0          \* the kGraphPreheader pseudo vertex
Terminal == 1      \* the kGraphPostExit pseudo vertex
FirstReal == 2

\* The transfers used by the passes that exist (no switch cases are built).
BlockTransfer ==
    {"kUnconditional", "kConditionTrue", "kConditionFalse", "kFallthrough"}

Edge(v, tr) == [target |-> v, tr |-> tr]

EdgeData(n) == [target : 0 .. n - 1, tr : BlockTransfer]

Vertices(g) == 0 .. g.size - 1

\* The vertices foreach_real and find_real look at.
RealVertices(g) == {v \in FirstReal .. g.size - 1 : ~g.detached[v]}

\* f, a function on 0..n-1, with one more vertex.
Grow(f, n, x) == [v \in 0 .. n |-> IF v = n THEN x ELSE f[v]]

IsGraph(g) ==
    /\ g = [size |-> g.size, out |-> g.out, in |-> g.in,
            detached |-> g.detached]
    /\ g.size \in Nat /\ g.size >= FirstReal
    /\ g.out \in [Vertices(g) -> Seq(EdgeData(g.size))]
    /\ g.in \in [Vertices(g) -> Seq(EdgeData(g.size))]
    /\ g.detached \in [Vertices(g) -> BOOLEAN]

-----------------------------------------------------------------------------
(* The mutators *)

NewGraph ==
    [size |-> FirstReal,
     out |-> [v \in {Root, Terminal} |-> <<>>],
     in |-> [v \in {Root, Terminal} |-> <<>>],
     detached |-> [v \in {Root, Terminal} |-> FALSE]]

\* The index of the new vertex is g.size.
EmplaceVertex(g) ==
    [size |-> g.size + 1,
     out |-> Grow(g.out, g.size, <<>>),
     in |-> Grow(g.in, g.size, <<>>),
     detached |-> Grow(g.detached, g.size, FALSE)]

EmplaceLink(g, u, v, tr) ==
    [size |-> g.size,
     out |-> [g.out EXCEPT ![u] = Append(@, Edge(v, tr))],
     in |-> [g.in EXCEPT ![v] = Append(@, Edge(u, tr))],
     detached |-> g.detached]

\* How often e occurs in s, and among the first k entries of s.
CountUpTo(s, e, k) == Cardinality({j \in 1 .. k : s[j] = e})
Count(s, e) == CountUpTo(s, e, Len(s))

\* The _in list of v after every edge of `moved` that leads to v, taken in
\* turn, has renamed the first entry naming `before` to n.
Retarget(s, moved, v, before, n) ==
    [k \in 1 .. Len(s) |->
        IF /\ s[k].target = before
           /\ CountUpTo(s, s[k], k) <= Count(moved, Edge(v, s[k].tr))
        THEN Edge(n, s[k].tr)
        ELSE s[k]]

\* The slip that leaves the successors' _in lists alone.
InsertAfterNotRetargeted(g, before, tr) ==
    LET n == g.size
    IN  EmplaceLink(
          [EmplaceVertex(g) EXCEPT !.out[before] = <<>>,
                                   !.out[n] = g.out[before]],
          before, n, tr)

\* The slip that moves the edges and does not link the two vertices.
InsertAfterUnlinked(g, before, tr) ==
    LET n == g.size
        moved == g.out[before]
    IN  [size |-> n + 1,
         out |-> Grow([g.out EXCEPT ![before] = <<>>], n, moved),
         in |-> Grow([v \in Vertices(g) |->
                          Retarget(g.in[v], moved, v, before, n)], n, <<>>),
         detached |-> Grow(g.detached, n, FALSE)]

\* The new vertex g.size takes over all out-edges of `before`.
InsertAfter(g, before, tr) ==
    LET n == g.size
        moved == g.out[before]
    IN  EmplaceLink(
          [size |-> n + 1,
           out |-> Grow([g.out EXCEPT ![before] = <<>>], n, moved),
           in |-> Grow([v \in Vertices(g) |->
                            Retarget(g.in[v], moved, v, before, n)], n, <<>>),
           detached |-> Grow(g.detached, n, FALSE)],
          before, n, tr)

Avoiding(s, v) == Pick(s, {k \in 1 .. Len(s) : s[k].target # v})

\* One entry naming v is erased from a neighbour's list per edge of v: all of
\* them, as long as the two lists of an edge agree (Mirror, FlowGraphCalls).
Detach(g, v) ==
    [g EXCEPT
        !.out = [u \in Vertices(g) |->
                    IF u = v THEN <<>> ELSE Avoiding(g.out[u], v)],
        !.in = [u \in Vertices(g) |->
                    IF u = v THEN <<>> ELSE Avoiding(g.in[u], v)],
        !.detached[v] = TRUE]

Targets(s) == {e.target : e \in ToSet(s)}

\* The entries of s whose target is not in `skip`, one per target.
FirstPerTarget(s, skip) ==
    Pick(s, {k \in 1 .. Len(s) :
                /\ s[k].target \notin skip
                /\ \A j \in 1 .. k - 1 : s[j].target # s[k].target})

\* What substitute_pair_existing collects in `inlist`. The second loop pushes
\* the out-edges to inlist as well; `outlist` stays empty.
SubstituteInlist(g, a, b) ==
    LET in1 == FirstPerTarget(g.in[a], {a, b})
        out1 == FirstPerTarget(g.out[a], {a, b})
        in2 == FirstPerTarget(g.in[b], {a, b} \cup Targets(in1))
        out2 == FirstPerTarget(g.out[b], {a, b} \cup Targets(out1))
    IN  in1 \o out1 \o in2 \o out2

\* The edges, in order, that lead from u to n when each entry of s is linked
\* to n.
LinkedFrom(u, s, n) ==
    LET own == Pick(s, {k \in 1 .. Len(s) : s[k].target = u})
    IN  [k \in 1 .. Len(own) |-> Edge(n, own[k].tr)]

\* EmplaceLink(g, e.target, n, e.tr) for every entry e of s in turn; n has no
\* edges before.
EmplaceLinks(g, s, n) ==
    [size |-> g.size,
     out |-> [u \in Vertices(g) |-> g.out[u] \o LinkedFrom(u, s, n)],
     in |-> [g.in EXCEPT ![n] = s],
     detached |-> g.detached]

SubstitutePair(g, a, b) ==
    EmplaceLinks(EmplaceVertex(Detach(Detach(g, a), b)),
                 SubstituteInlist(g, a, b), g.size)

-----------------------------------------------------------------------------
(* Queries *)

Successors(g, v) == Targets(g.out[v])

\* The sets of vertices no edge leads out of.
ClosedSets(g) ==
    {S \in SUBSET Vertices(g) : \A v \in S : Successors(g, v) \subseteq S}

\* The pairs of vertices joined by a path of one or more edges: the second is
\* in every closed set that holds the successors of the first.
Paths(g) ==
    LET closed == ClosedSets(g)
    IN  {p \in Vertices(g) \X Vertices(g) :
            \A S \in closed : Successors(g, p[1]) \subseteq S => p[2] \in S}

\* u lists an edge to v exactly as often as v lists it from u.
Mirrored(g) ==
    \A u, v \in Vertices(g), tr \in BlockTransfer :
        Count(g.out[u], Edge(v, tr)) = Count(g.in[v], Edge(u, tr))
=============================================================================
