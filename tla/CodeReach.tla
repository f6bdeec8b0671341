----------------------------- MODULE CodeReach -----------------------------
(***************************************************************************)
(* What run_graph_analysis promises, without blocks, stack or graph: it    *)
(* finds the instructions control can reach from the entry of the routine, *)
(* all of them and no others, one at a time and in any order, and stops.   *)
(***************************************************************************)
EXTENDS Gekko

VARIABLES code, seen, done

reachVars == <<code, seen, done>>

Init ==
    /\ IsProgram(code)
    /\ seen = {Entry}
    /\ done = FALSE

\* Everything control can go to is seen.
Closed == \A a \in seen : Succ(code, a) \subseteq seen

Discover ==
    /\ ~done
    /\ \E a \in seen : \E t \in Succ(code, a) : seen' = seen \cup {t}
    /\ UNCHANGED <<code, done>>

Finish ==
    /\ ~done
    /\ Closed
    /\ done' = TRUE
    /\ UNCHANGED <<code, seen>>

Next == Discover \/ Finish

\* Never anything unreachable, and all of it before the end ...
SafeSpec == Init /\ [][Next]_reachVars

\* ... which comes.
Spec == SafeSpec /\ WF_reachVars(Next)
=============================================================================
