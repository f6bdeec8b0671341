---------------------------- MODULE MCDominators ----------------------------
EXTENDS Dominators

MCVertex == 0 .. 4

\* The word past the end of dfs2vert: no index at all, or one that happens to be.
MCBeyond == {-1, 2}

Lists(S) == UNION {{SetToSortSeq(T, <), SetToSortSeq(T, >)} : T \in SUBSET S}

Graph(from, l0, l1, l2, l3, l4) ==
    [start |-> from,
     out |-> [v \in MCVertex |->
                CASE v = 0 -> l0 [] v = 1 -> l1 [] v = 2 -> l2 [] v = 3 -> l3 [] v = 4 -> l4]]

Branches(S) == {l \in Lists(S) : Len(l) < 3}

\* compute_dom_tree, with at most two ways out of a vertex, as blocks have: the
\* preheader 0 leads to the entry 1, or 0 itself is an entry that ends in a branch.
\* Up to the names of the other vertices, the lists of 1 are all there are.
Forward ==
    LET others == [b : Branches({1, 3, 4}), c : Branches({1, 2, 4}), d : Branches({1, 2, 3})]
    IN  {Graph(0, <<1>>, a, o.b, o.c, o.d) : a \in {<<>>, <<2>>, <<2, 3>>}, o \in others}
        \cup
        {Graph(0, <<1, 2>>, a, o.b, o.c, o.d) : o \in others,
            a \in {<<>>, <<2>>, <<3>>, <<2, 3>>, <<3, 2>>, <<3, 4>>}}

\* compute_pdom_tree: from the terminal 1 to one to three exits, and from one of
\* these vertices to the preheader, which is at either end of its list.
Backward ==
    LET to0(l, v, entry, first) ==
            IF v # entry THEN l ELSE IF first THEN <<0>> \o l ELSE Append(l, 0)
    IN  {Graph(1, <<>>, a, to0(b, 2, e, f), to0(c, 3, e, f), to0(d, 4, e, f)) :
            a \in {<<2>>, <<2, 3>>, <<2, 3, 4>>}, b \in Lists({3, 4}),
            c \in Lists({2, 4}), d \in Lists({2, 3}), e \in 2 .. 4, f \in BOOLEAN}

MCGraphs == Forward \cup Backward
=============================================================================
