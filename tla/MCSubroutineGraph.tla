-------------------------- MODULE MCSubroutineGraph --------------------------
(* Routines of six words with their entry at word 2: every routine of four
   words, one of them before the entry, and longer ones around a block that is
   split. *)
EXTENDS SubroutineGraph

Other == [op |-> "kOther", lk |-> FALSE, target |-> 0]
Return == [op |-> "kReturn", lk |-> FALSE, target |-> 0]
Branches(targets) == {[op |-> o, lk |-> FALSE, target |-> t] : o \in {"kB", "kBc"}, t \in targets}

\* Calls return, and two targets show which one is recorded.
Calls ==
    {[op |-> "kB", lk |-> TRUE, target |-> 0], [op |-> "kB", lk |-> TRUE, target |-> N - 1],
     [op |-> "kReturn", lk |-> TRUE, target |-> 0]}

Transfers(insts) == {i \in insts : EndsBlock(i) /\ i.op # "kBc"}

\* The words 1 to 3 are arbitrary, word 4 transfers control, nothing leads to the
\* others.
ShortRoutines ==
    LET insts == Branches(1 .. 4) \cup Calls \cup {Other, Return}
    IN  {[a \in Addr |-> IF a \in 1 .. 3 THEN body[a] ELSE IF a = 4 THEN last ELSE Return] :
            body \in [1 .. 3 -> insts], last \in Transfers(insts)}

\* The entry leads to word 0 and to a block of three words, which is scanned first
\* and which the branches in front of it are then free to split, twice if they like.
SplitRoutines ==
    {[a \in Addr |-> CASE a < 2 -> front[a]
                       [] a = 2 -> [op |-> "kBc", lk |-> FALSE, target |-> 0]
                       [] a \in {3, 4} -> Other
                       [] a = 5 -> last] :
        front \in [0 .. 1 -> Branches(Addr)], last \in Transfers(Branches(Addr) \cup {Return})}

MCPrograms == ShortRoutines \cup SplitRoutines
=============================================================================
