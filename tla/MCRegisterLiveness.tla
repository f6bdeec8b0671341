------------------------- MODULE MCRegisterLiveness -------------------------
(* Routines of three blocks, each of one or two instructions. *)
EXTENDS RegisterLiveness

\* One register of each kind: r3 is an argument and the result, r5 an argument
\* that calls destroy, r14 is kept by calls.
MCReg == {"r3", "r5", "r14"}
MCReturnSet == {"r3"}
MCParameterSet == {"r3", "r5"}
MCKilledByCall == {"r5"}
MCBlock == 1 .. 3

Reading(r) == [op |-> "other", reads |-> {r}, writes |-> {}]
Writing(r) == [op |-> "other", reads |-> {}, writes |-> {r}]
Updating(r) == [op |-> "other", reads |-> {r}, writes |-> {r}]
Calling == [op |-> "call", reads |-> {}, writes |-> {}]
Saving == [op |-> "abi", reads |-> {}, writes |-> {}]

\* Registers do not affect each other, so a routine uses one of them.
Bodies(r) ==
    {<<Updating(r)>>, <<Writing(r)>>, <<Calling>>, <<Saving>>,
     <<Reading(r), Writing(r)>>, <<Calling, Reading(r)>>}

\* A branch around a block, a loop with its test at the start and one with the
\* test at the end, a block that loops on itself, two exits, a loop with a
\* second way in.
Shapes ==
    {<<{2, 3}, {3}, {}>>, <<{2, 3}, {1}, {}>>, <<{2}, {1, 3}, {}>>,
     <<{2}, {2, 3}, {}>>, <<{2, 3}, {}, {}>>, <<{2, 3}, {3}, {2}>>}

MCRoutines ==
    UNION {{[succ |-> s, code |-> c, entry |-> 1] :
                s \in Shapes, c \in [Block -> Bodies(r)]} : r \in MCReg}
=============================================================================
