----------------------------- MODULE IntervalSet -----------------------------
(***************************************************************************)
(* What a dinterval_tree promises: a set of disjoint intervals, with an    *)
(* inclusive lower and an exclusive upper bound, that takes a new interval *)
(* exactly when it overlaps none of those it has.                          *)
(***************************************************************************)
EXTENDS Integers

CONSTANT K     \* the bounds of intervals are 0 .. K

Interval == {iv \in [lo : 0 .. K, hi : 0 .. K] : iv.lo < iv.hi}

Overlap(a, b) == a.hi > b.lo /\ b.hi > a.lo

VARIABLES stored,    \* the intervals inserted
          result     \* what the last try_emplace returned

TypeOK == stored \subseteq Interval /\ result \in BOOLEAN

Init == stored = {} /\ result = TRUE

Try(iv) ==
    LET free == \A other \in stored : ~Overlap(iv, other)
    IN  /\ stored' = IF free THEN stored \cup {iv} ELSE stored
        /\ result' = free

Next == \E iv \in Interval : Try(iv)

Spec == Init /\ [][Next]_<<stored, result>>
=============================================================================
