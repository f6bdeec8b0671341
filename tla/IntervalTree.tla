---------------------------- MODULE IntervalTree ----------------------------
(***************************************************************************)
(* dinterval_tree of src/utl/IntervalTree.hh: an AVL tree of disjoint      *)
(* intervals in which every node caches the height and the greatest upper  *)
(* bound of its subtree. The passes of the decompiler insert with          *)
(* try_emplace and look up with query; these are modelled, one iteration   *)
(* of each loop of an insertion per step.                                  *)
(*                                                                         *)
(* Stored intervals are disjoint and not empty, so that the lower bound    *)
(* names the node: pointers are lower bounds here. The mapped value is     *)
(* left out.                                                               *)
(***************************************************************************)
EXTENDS Integers, FiniteSetsExt

CONSTANT K     \* the bounds of intervals are 0 .. K

ASSUME KAssumption == K \in Nat

Null == -1

Pointer == -1 .. K

\* interval_node. The lower bound is its name.
Node == [hi : 1 .. K, st_max : 1 .. K, lp : Pointer, rp : Pointer,
         prev : Pointer, next : Pointer, parent : Pointer, height : 1 .. K]

VARIABLES root,     \* _root
          node,     \* the nodes allocated, by lower bound
          pc,       \* where try_emplace is
          iv,       \* its arguments low and high
          cursor,   \* search_ins while it descends, parent in rebalance
          above,    \* parent while it descends
          result    \* what it returns

vars == <<root, node, pc, iv, cursor, above, result>>

Interval == {x \in [lo : 0 .. K, hi : 0 .. K] : x.lo < x.hi}

TypeOK ==
    /\ root \in DOMAIN node \cup {Null}
    /\ DOMAIN node \subseteq 0 .. K
    /\ \A n \in DOMAIN node : node[n] \in Node
    /\ pc \in {"idle", "descend", "rebalance"}
    /\ iv \in Interval \cup {[lo |-> 0, hi |-> 0]}
    /\ cursor \in DOMAIN node \cup {Null} /\ above \in DOMAIN node \cup {Null}
    /\ result \in BOOLEAN

-----------------------------------------------------------------------------
(* Nodes: nd is the function of all of them *)

Height(nd, n) == IF n = Null THEN 0 ELSE nd[n].height

balance_factor(nd, n) == Height(nd, nd[n].lp) - Height(nd, nd[n].rp)

\* fix_cached_values of a node r whose children are in nd.
Fixed(nd, r) ==
    [r EXCEPT !.height = 1 + Max({Height(nd, r.lp), Height(nd, r.rp)}),
              !.st_max = IF r.rp = Null THEN r.hi ELSE nd[r.rp].st_max]

\* top takes the place of p, its parent; mid changes sides. pr and tr are p and
\* top with their new children; the cached values of p are fixed first.
Rotated(nd, p, pr, top, tr, mid) ==
    LET low == [nd EXCEPT ![p] = Fixed(nd, [pr EXCEPT !.parent = top])]
    IN  [n \in DOMAIN nd |-> IF n = top THEN Fixed(low, tr)
                             ELSE IF n = mid THEN [nd[n] EXCEPT !.parent = p]
                             ELSE low[n]]

\* The node that is on top after l_rotate or r_rotate of p.
LTop(nd, p) == nd[p].rp
RTop(nd, p) == nd[p].lp

\* The slip that leaves the child that changes sides with its old parent.
LRotateOldParent(nd, p) ==
    LET top == LTop(nd, p)
    IN  Rotated(nd, p, [nd[p] EXCEPT !.rp = nd[top].lp],
                top, [nd[top] EXCEPT !.lp = p], Null)

l_rotate(nd, p) ==
    LET top == LTop(nd, p)
    IN  Rotated(nd, p, [nd[p] EXCEPT !.rp = nd[top].lp],
                top, [nd[top] EXCEPT !.lp = p], nd[top].lp)

r_rotate(nd, p) ==
    LET top == RTop(nd, p)
    IN  Rotated(nd, p, [nd[p] EXCEPT !.lp = nd[top].rp],
                top, [nd[top] EXCEPT !.rp = p], nd[top].rp)

\* The first half of lr_rotate and of rl_rotate: one child of base is rotated.
RotateLeftChild(nd, base) ==
    LET child == nd[base].lp
    IN  [l_rotate(nd, child) EXCEPT ![base].lp = LTop(nd, child),
                                    ![LTop(nd, child)].parent = base]

RotateRightChild(nd, base) ==
    LET child == nd[base].rp
    IN  [r_rotate(nd, child) EXCEPT ![base].rp = RTop(nd, child),
                                    ![RTop(nd, child)].parent = base]

\* nd, made to lean the same way as base at its heavier child: what lr_rotate
\* and rl_rotate do before they go on as r_rotate and l_rotate.
Leaning(nd, base) ==
    IF balance_factor(nd, base) > 1
    THEN IF balance_factor(nd, nd[base].lp) > 0 THEN nd ELSE RotateLeftChild(nd, base)
    ELSE IF balance_factor(nd, nd[base].rp) < 0 THEN nd ELSE RotateRightChild(nd, base)

-----------------------------------------------------------------------------
(* Queries *)

\* The slip that asks for the lower bound only.
Contains(nd, n, low, high) == n <= low /\ low < nd[n].hi

Overlaps(nd, n, low, high) == nd[n].hi > low /\ high > n

\* Whether a query that does not hit n goes on to its left.
SearchesLeft(nd, n, low) == nd[n].lp # Null /\ nd[nd[n].lp].st_max > low

\* query_node: the first node met that overlaps, Null if there is none.
query_node(low, high) ==
    LET search[n \in DOMAIN node \cup {Null}] ==
            IF n = Null THEN Null
            ELSE IF Overlaps(node, n, low, high) THEN n
            ELSE IF SearchesLeft(node, n, low) THEN search[node[n].lp]
            ELSE search[node[n].rp]
    IN  search[root]

-----------------------------------------------------------------------------
(* try_emplace *)

Init ==
    /\ root = Null /\ node = [n \in {} |-> 0]
    /\ pc = "idle" /\ iv = [lo |-> 0, hi |-> 0]
    /\ cursor = Null /\ above = Null /\ result = TRUE

\* Overlap is disallowed.
Reject ==
    /\ pc = "idle"
    /\ \E x \in Interval : query_node(x.lo, x.hi) # Null
    /\ result' = FALSE
    /\ UNCHANGED <<root, node, pc, iv, cursor, above>>

Accept ==
    /\ pc = "idle"
    /\ \E x \in Interval : query_node(x.lo, x.hi) = Null /\ iv' = x
    /\ pc' = "descend" /\ cursor' = root /\ above' = Null
    /\ UNCHANGED <<root, node, result>>

\* The slip that leaves the maximum to the rotations.
DescendOnly ==
    /\ pc = "descend" /\ cursor # Null
    /\ above' = cursor
    /\ cursor' = IF iv.lo < cursor THEN node[cursor].lp ELSE node[cursor].rp
    /\ UNCHANGED <<root, node, pc, iv, result>>

Descend ==
    /\ pc = "descend" /\ cursor # Null
    /\ node' = [node EXCEPT ![cursor].st_max = Max({iv.hi, @})]
    /\ above' = cursor
    /\ cursor' = IF iv.lo < cursor THEN node[cursor].lp ELSE node[cursor].rp
    /\ UNCHANGED <<root, pc, iv, result>>

NewNode == [hi |-> iv.hi, st_max |-> iv.hi, lp |-> Null, rp |-> Null,
            prev |-> Null, next |-> Null, parent |-> above, height |-> 1]

\* The nodes with the new one, hung below `above`. Its neighbours in the thread
\* are taken to be its parent and, on either side, the _prev of its parent; its
\* own _prev and _next stay null.
Linked ==
    LET right == above # Null /\ iv.lo >= above
        side == IF above = Null THEN Null ELSE node[above].prev
        prev == IF right THEN above ELSE side
        next == IF right THEN side ELSE above
        linked(n) ==
            [node[n] EXCEPT !.lp = IF n = above /\ ~right THEN iv.lo ELSE @,
                            !.rp = IF n = above /\ right THEN iv.lo ELSE @,
                            !.next = IF n = prev THEN iv.lo ELSE @,
                            !.prev = IF n = next THEN iv.lo ELSE @]
    IN  [n \in DOMAIN node \cup {iv.lo} |-> IF n = iv.lo THEN NewNode ELSE linked(n)]

\* The caller sees the result when the tree has been rebalanced.
Link ==
    /\ pc = "descend" /\ cursor = Null
    /\ node' = Linked
    /\ root' = IF above = Null THEN iv.lo ELSE root
    /\ result' = TRUE
    /\ pc' = IF above = Null THEN "idle" ELSE "rebalance"
    /\ cursor' = above /\ above' = Null
    /\ UNCHANGED iv

\* do_rotation: top takes the place of base in nd, where base has been rotated.
Attached(nd, base, top) ==
    LET p == node[base].parent
        child == [nd EXCEPT ![top].parent = p]
        up == IF nd[p].lp = base THEN [nd[p] EXCEPT !.lp = top]
              ELSE [nd[p] EXCEPT !.rp = top]
    IN  IF base = root THEN [nd EXCEPT ![top].parent = Null]
        ELSE [child EXCEPT ![p] = Fixed(child, up)]

\* The slip that stops where nothing has to be rotated.
LevelStuck ==
    /\ pc = "rebalance" /\ balance_factor(node, cursor) \in -1 .. 1
    /\ node' = [node EXCEPT ![cursor].height =
            1 + Max({Height(node, node[cursor].lp), Height(node, node[cursor].rp)})]
    /\ UNCHANGED <<root, pc, iv, cursor, above, result>>

\* One iteration of rebalance without a rotation: the height of the node.
Level ==
    /\ pc = "rebalance" /\ balance_factor(node, cursor) \in -1 .. 1
    /\ node' = [node EXCEPT ![cursor].height =
            1 + Max({Height(node, node[cursor].lp), Height(node, node[cursor].rp)})]
    /\ cursor' = node[cursor].parent
    /\ pc' = IF cursor' = Null THEN "idle" ELSE pc
    /\ UNCHANGED <<root, iv, above, result>>

\* One iteration with a rotation, which also fixes that height.
Rotate ==
    LET base == cursor
        b == balance_factor(node, base)
    IN  /\ pc = "rebalance" /\ b \notin -1 .. 1
        /\ \E lean \in {Leaning(node, base)} :
            LET top == IF b > 1 THEN RTop(lean, base) ELSE LTop(lean, base)
                nd == IF b > 1 THEN r_rotate(lean, base) ELSE l_rotate(lean, base)
            IN  /\ node' = Attached(nd, base, top)
                /\ root' = IF base = root THEN top ELSE root
        /\ cursor' = IF base = root THEN Null ELSE node[base].parent
        /\ pc' = IF cursor' = Null THEN "idle" ELSE pc
        /\ UNCHANGED <<iv, above, result>>

Next == Reject \/ Accept \/ Descend \/ Link \/ Level \/ Rotate

\* A call of try_emplace that has begun goes on until it returns.
Spec == Init /\ [][Next]_vars /\ WF_vars(Descend \/ Link \/ Level \/ Rotate)

-----------------------------------------------------------------------------
(* Properties *)

\* The nodes of the tree below n, and the intervals in it.
Below ==
    LET sub[n \in DOMAIN node \cup {Null}] ==
            IF n = Null THEN {} ELSE {n} \cup sub[node[n].lp] \cup sub[node[n].rp]
    IN  sub

Stored == {[lo |-> n, hi |-> node[n].hi] : n \in Below[root]}

TrueHeight ==
    LET h[n \in DOMAIN node \cup {Null}] ==
            IF n = Null THEN 0 ELSE 1 + Max({h[node[n].lp], h[node[n].rp]})
    IN  h

\* Between insertions the links of the tree agree in both directions, nothing is
\* lost by a rotation, and the intervals lie in order.
SearchTree ==
    pc = "idle" =>
        /\ Below[root] = DOMAIN node
        /\ root # Null => node[root].parent = Null
        /\ \A n \in DOMAIN node :
                /\ \A c \in {node[n].lp, node[n].rp} \ {Null} : node[c].parent = n
                /\ \A m \in Below[node[n].lp] : node[m].hi <= n
                /\ \A m \in Below[node[n].rp] : node[n].hi <= m

\* Between insertions every cached value is the one of the subtree as it is, so
\* that queries and later rotations may rely on it.
CachesExact ==
    pc = "idle" => \A n \in DOMAIN node :
        /\ node[n].height = TrueHeight[n]
        /\ node[n].st_max = Max({node[m].hi : m \in Below[n]})

\* Between insertions no two subtrees of a node differ by more than one in
\* height: one pass of rebalance up the tree is enough.
Balanced ==
    pc = "idle" => \A n \in DOMAIN node :
        TrueHeight[node[n].lp] - TrueHeight[node[n].rp] \in -1 .. 1

\* A query descends one path, and yet misses no interval.
QueryExact ==
    pc = "idle" => \A q \in Interval :
        LET n == query_node(q.lo, q.hi)
            hits == {m \in DOMAIN node : Overlaps(node, m, q.lo, q.hi)}
        IN  IF hits = {} THEN n = Null ELSE n \in hits

\* The tree is a set of disjoint intervals. An insertion takes effect when its
\* node is linked; rebalancing is invisible.
Set == INSTANCE IntervalSet WITH stored <- Stored
IsIntervalSet == Set!Spec

\* rebalance reaches the root: an insertion returns.
InsertionEnds == (pc # "idle") ~> (pc = "idle")

\* What a rotation has to keep: order, links, cached values and balance.
TreeWellFormed == TypeOK /\ SearchTree /\ CachesExact /\ Balanced
=============================================================================
