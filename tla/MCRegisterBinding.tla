-------------------------- MODULE MCRegisterBinding --------------------------
(* Routines of three blocks that use two registers at a time, and loops of   *)
(* those of MCRegisterLiveness that use one.                                 *)
EXTENDS RegisterBinding, MCRegisterLiveness

MCAbiRegs == {"r2"}
MCBindReg == MCReg \cup MCAbiRegs

Moving(from, to) == [op |-> "other", reads |-> {from}, writes |-> {to}]

MovingBodies ==
    {<<Moving("r3", "r14")>>, <<Moving("r14", "r3")>>, <<Moving("r2", "r2")>>,
     <<Moving("r14", "r14")>>, <<Writing("r14"), Calling>>, <<Calling, Moving("r3", "r14")>>,
     <<Writing("r3"), Moving("r3", "r14"), Writing("r3")>>,
     <<Writing("r5"), Calling, Reading("r5")>>, <<Reading("r5"), Writing("r14")>>}

\* A branch around a block, a loop with its test at the end, two exits, a loop
\* with a second way in.
MovingShapes == {<<{2, 3}, {3}, {}>>, <<{2}, {1, 3}, {}>>, <<{2, 3}, {}, {}>>, <<{2, 3}, {3}, {2}>>}

\* A loop with its test at the start, a block that loops on itself.
LoopShapes == {<<{2, 3}, {1}, {}>>, <<{2}, {2, 3}, {}>>}

MCBindRoutines ==
    {[succ |-> s, code |-> c, entry |-> 1] : s \in MovingShapes, c \in [Block -> MovingBodies]}
    \cup {r \in MCRoutines : r.succ \in LoopShapes}
=============================================================================
