-------------------------- MODULE RegisterLiveness --------------------------
(***************************************************************************)
(* run_liveness_analysis of src/ppc/RegisterLiveness.cc: for every         *)
(* instruction of a routine the registers that hold a value somebody wants.*)
(* A block is first evaluated on its own; registers left over at its end   *)
(* are guesses, propagated forward until nothing changes; guesses somebody *)
(* uses are turned into outputs, backward until nothing changes; the rest  *)
(* is cleared, and the registers nobody provides are the parameters.       *)
(*                                                                         *)
(* The code runs the three register classes side by side, each with its    *)
(* own changed and done flags, and never mixes them: this is one class. A  *)
(* sweep visits the blocks in depth-first order; here the order is open,   *)
(* so that what holds does not depend on it.                               *)
(***************************************************************************)
EXTENDS Integers, Sequences, FiniteSets

CONSTANTS Reg,                                    \* one register class
          ReturnSet, ParameterSet, KilledByCall,  \* kRegSets
          Block,                                  \* the real vertices
          Routines                                \* what may be analysed

\* kKilledByCallGpr is kCallerSavedGpr - kReturnSetGpr.
ASSUME RegSetAssumption ==
    /\ ReturnSet \subseteq Reg /\ ParameterSet \subseteq Reg
    /\ KilledByCall \subseteq Reg /\ KilledByCall \cap ReturnSet = {}

\* A call of a _savegpr or _restgpr routine is "abi", any other branch that
\* writes LR "call". The base register of a store counts as read.
Inst == [op : {"other", "call", "abi"}, reads : SUBSET Reg, writes : SUBSET Reg]

Use(i) == IF i.op = "other" THEN i.reads ELSE {}

\* An updating write is not a definition.
Def(i) == IF i.op = "other" THEN i.writes \ i.reads
          ELSE IF i.op = "call" THEN ReturnSet ELSE {}

Kill(i) == IF i.op = "call" THEN KilledByCall ELSE {}

\* What the code takes an instruction to need when it clears sections.
MayUse(i) == Use(i) \cup (IF i.op = "call" THEN ParameterSet ELSE {})

\* succ: the real successors. The builder links the blocks that have none, and
\* no others, to the terminal vertex.
IsRoutine(r) ==
    /\ r = [succ |-> r.succ, code |-> r.code, entry |-> r.entry]
    /\ r.succ \in [Block -> SUBSET Block]
    /\ r.code \in [Block -> Seq(Inst)]
    /\ \A b \in Block : r.code[b] # <<>>
    /\ r.entry \in Block

ASSUME RoutinesAssumption == \A r \in Routines : IsRoutine(r)

VARIABLES
    pc,         \* the cycle of run_liveness_analysis
    routine,
    todo,       \* the blocks this sweep has still to visit
    changed,    \* IterState
    live_in, live_out,     \* per instruction of each block
    input, output, overwrite, guess_out, propagated, routine_inputs,
    param       \* Subroutine::_gpr_param

summary == <<input, output, overwrite, guess_out, propagated>>
vars == <<pc, routine, todo, changed, live_in, live_out, input, output,
          overwrite, guess_out, propagated, routine_inputs, param>>

Code(b) == routine.code[b]
Succs(b) == routine.succ[b]
Preds(b) == {p \in Block : b \in Succs(p)}
IsExit(b) == Succs(b) = {}

TypeOK ==
    /\ pc \in {"local", "forward", "backward", "clear", "params", "done"}
    /\ IsRoutine(routine)
    /\ todo \subseteq Block /\ changed \in BOOLEAN
    /\ live_in \in [Block -> Seq(SUBSET Reg)]
    /\ live_out \in [Block -> Seq(SUBSET Reg)]
    /\ \A f \in {input, output, overwrite, guess_out, propagated} :
            f \in [Block -> SUBSET Reg]
    /\ routine_inputs \in [Block -> SUBSET ParameterSet]
    /\ param \subseteq ParameterSet
    /\ pc # "local" => \A b \in Block : /\ Len(live_in[b]) = Len(Code(b))
                                        /\ Len(live_out[b]) = Len(Code(b))

-----------------------------------------------------------------------------
(* One block on its own: c is its code *)

Overwrites(c) == UNION {Kill(c[i]) \cup Def(c[i]) : i \in 1 .. Len(c)}

\* Used before the block sets it.
Inputs(c) ==
    {r \in Reg : \E i \in 1 .. Len(c) :
        r \in Use(c[i]) /\ \A j \in 1 .. i : r \notin Kill(c[j]) \cup Def(c[j])}

\* Holding a value of this block after its first k instructions.
Held(c, k) ==
    {r \in Reg : \E i \in 1 .. k :
        r \in Use(c[i]) \cup Def(c[i]) /\ \A j \in i .. k : r \notin Kill(c[j])}

\* An instruction's own kill comes before its uses and definitions here.
Outputs(c) ==
    {r \in Reg : \E i \in 1 .. Len(c) :
        /\ r \in Use(c[i]) \cup Def(c[i])
        /\ \A j \in i + 1 .. Len(c) : r \notin Kill(c[j])}

\* The inputs not used by the first k instructions.
Pending(c, k) == {r \in Inputs(c) : \A i \in 1 .. k : r \notin Use(c[i])}

LiveAfter(c, k) == Held(c, k) \cup Pending(c, k)

\* The mask of clear_unused_sections when it has gone back over instruction k
\* of a block whose unwanted guesses are g.
Unused(c, g, k) ==
    {r \in Reg :
        \/ \E j \in k .. Len(c) :
              r \in Def(c[j]) /\ \A i \in k .. j : r \notin MayUse(c[i])
        \/ r \in g /\ \A i \in k .. Len(c) : r \notin MayUse(c[i])}

-----------------------------------------------------------------------------
(* The cycles *)

Empty == [b \in Block |-> {}]

Fresh ==
    /\ pc = "local"
    /\ todo = {} /\ changed = FALSE
    /\ live_in = [b \in Block |-> <<>>] /\ live_out = [b \in Block |-> <<>>]
    /\ input = Empty /\ output = Empty /\ overwrite = Empty
    /\ guess_out = Empty /\ propagated = Empty /\ routine_inputs = Empty
    /\ param = {}

Init == routine \in Routines /\ Fresh

\* Cycle 1. The blocks do not affect each other, so all of them at once.
EvalLivenessLocal ==
    /\ pc = "local"
    /\ live_in' = [b \in Block |->
            [k \in 1 .. Len(Code(b)) |-> LiveAfter(Code(b), k - 1)]]
    /\ live_out' = [b \in Block |->
            [k \in 1 .. Len(Code(b)) |-> LiveAfter(Code(b), k)]]
    /\ input' = [b \in Block |-> Inputs(Code(b))]
    /\ guess_out' = [b \in Block |-> Outputs(Code(b))]
    /\ overwrite' = [b \in Block |-> Overwrites(Code(b))]
    /\ pc' = "forward" /\ todo' = Block
    /\ UNCHANGED <<routine, changed, output, propagated, routine_inputs, param>>

\* The slip that takes "new registers" to mean new since the last sweep.
PassthroughNew(b) ==
    (UNION {guess_out[p] \cup propagated[p] : p \in Preds(b)})
        \ (overwrite[b] \cup input[b] \cup propagated[b])

\* What predecessors may hold and the block neither sets nor uses first.
Passthrough(b) ==
    (UNION {guess_out[p] \cup propagated[p] : p \in Preds(b)})
        \ (overwrite[b] \cup input[b])

\* Cycle 2, one block.
PropagateGuesses(b) ==
    /\ pc = "forward" /\ b \in todo
    /\ propagated' = [propagated EXCEPT ![b] = Passthrough(b)]
    /\ changed' = (changed \/ Passthrough(b) # propagated[b])
    /\ todo' = todo \ {b}
    /\ UNCHANGED <<pc, routine, live_in, live_out, input, output, overwrite,
                   guess_out, routine_inputs, param>>

\* The slip that forgets what a routine returns.
NeededOfSuccessors(b) == UNION {input[s] : s \in Succs(b)}

\* outedge_inputs.
NeededAfter(b) ==
    (UNION {input[s] : s \in Succs(b)}) \cup (IF IsExit(b) THEN ReturnSet ELSE {})

\* The slip that adds a passed register to the summary of the block only.
CarryThroughNothing(sections, b, regs) == sections

\* regs are live at every instruction of b.
CarryThrough(sections, b, regs) ==
    [sections EXCEPT ![b] = [k \in 1 .. Len(@) |-> @[k] \cup regs]]

\* Cycle 3, one block: wanted guesses become outputs, and a wanted register the
\* block passes on becomes its input as well.
BackpropagateOutputs(b) ==
    LET used_out == NeededAfter(b) \cap guess_out[b]
        used_pt == NeededAfter(b) \cap propagated[b]
    IN  /\ pc = "backward" /\ b \in todo
        /\ guess_out' = [guess_out EXCEPT ![b] = @ \ used_out]
        /\ propagated' = [propagated EXCEPT ![b] = @ \ used_pt]
        /\ output' = [output EXCEPT ![b] = @ \cup used_out \cup used_pt]
        /\ input' = [input EXCEPT ![b] = @ \cup used_pt]
        /\ live_in' = CarryThrough(live_in, b, used_pt)
        /\ live_out' = CarryThrough(live_out, b, used_pt)
        /\ changed' = (changed \/ used_pt # {})
        /\ todo' = todo \ {b}
        /\ UNCHANGED <<pc, routine, overwrite, routine_inputs, param>>

\* Both loops: another sweep as long as the last one changed something.
EndSweep(cycle, next) ==
    /\ pc = cycle /\ todo = {}
    /\ changed' = FALSE
    /\ IF changed THEN pc' = cycle /\ todo' = Block
       ELSE pc' = next /\ todo' = IF next = "backward" THEN Block ELSE {}
    /\ UNCHANGED <<routine, live_in, live_out, summary, routine_inputs, param>>

\* Cycle 4. Not a sweep either: the blocks do not affect each other.
ClearUnusedSections ==
    /\ pc = "clear"
    /\ live_in' = [b \in Block |-> [k \in 1 .. Len(live_in[b]) |->
            live_in[b][k] \ Unused(Code(b), guess_out[b], k)]]
    /\ live_out' = [b \in Block |-> [k \in 1 .. Len(live_out[b]) |->
            live_out[b][k] \ Unused(Code(b), guess_out[b], k + 1)]]
    /\ pc' = "params"
    /\ UNCHANGED <<routine, todo, changed, summary, routine_inputs, param>>

ProvidedTo(b) == UNION {output[p] : p \in Preds(b)}

\* The slip that takes whatever nobody provides for a parameter.
FindUnprovided(b) == input[b] \ ProvidedTo(b)

FoundParams(b) == (input[b] \ ProvidedTo(b)) \cap ParameterSet

\* Cycle 5.
FindRoutineParams ==
    /\ pc = "params"
    /\ routine_inputs' = [b \in Block |->
            routine_inputs[b] \cup FoundParams(b)]
    /\ param' = param \cup (UNION {routine_inputs'[b] : b \in Block})
    /\ pc' = "done"
    /\ UNCHANGED <<routine, todo, changed, live_in, live_out, summary>>

Next ==
    \/ EvalLivenessLocal
    \/ \E b \in Block : PropagateGuesses(b)
    \/ EndSweep("forward", "backward")
    \/ \E b \in Block : BackpropagateOutputs(b)
    \/ EndSweep("backward", "clear")
    \/ ClearUnusedSections
    \/ FindRoutineParams

\* The analysis is one call: it goes on until it returns.
Spec == Init /\ [][Next]_vars /\ WF_vars(Next)

-----------------------------------------------------------------------------
(* Properties *)

Analysed == pc \in {"params", "done"}

\* The sections of a block agree with each other and with its summary once the
\* analysis is over: between two instructions there is one answer, the block
\* starts with its inputs and ends with its outputs. compute_block_binds opens
\* a temporary where a section starts and closes it where the section ends, and
\* takes the ones to connect across an edge from the summary.
SectionsAgree ==
    /\ \A b \in Block : \A k \in 1 .. Len(live_in[b]) - 1 :
            live_in[b][k + 1] = live_out[b][k]
    /\ Analysed => \A b \in Block : /\ live_in[b][1] = input[b]
                                    /\ live_out[b][Len(Code(b))] = output[b]

\* No section that is used is cleared: a register an instruction reads is live
\* there, unless a call before it in the block destroyed the value. (The
\* translator dereferences query_temp of each operand without a test.)
UsesAreLive ==
    Analysed => \A b \in Block : \A k \in 1 .. Len(Code(b)) : \A r \in Use(Code(b)[k]) :
        \/ r \in live_in[b][k]
        \/ \E i \in 1 .. k - 1 :
              /\ r \in Kill(Code(b)[i])
              /\ \A j \in i + 1 .. k - 1 : r \notin Def(Code(b)[j]) \cup Use(Code(b)[j])

\* What can be reached from those in `from` along `edges`: the least set of nodes
\* that holds them and, with the start of an edge, its end.
Reached(nodes, from, edges) ==
    {x \in nodes : \A S \in SUBSET nodes :
        (from \subseteq S /\ \A e \in edges : e[1] \in S => e[2] \in S) => x \in S}

Transparent(r) == {b \in Block : r \notin Overwrites(Code(b)) \cup Inputs(Code(b))}

\* Where r may hold a value of this routine at the end of a block: a block sets
\* or uses it and it survives, along a path, to there.
Holding(r) ==
    Reached(Block, {b \in Block : r \in Held(Code(b), Len(Code(b)))},
            {e \in Block \X Transparent(r) : e[2] \in Succs(e[1])})

\* Where somebody wants the value r has at the start of a block: the block uses
\* it, or it comes from this routine and is passed on to such a block or to the
\* caller.
Carrying(r) == LET holding == Holding(r)
               IN  {b \in Transparent(r) : Preds(b) \cap holding # {}}
Returned(r) == {b \in Block : IsExit(b) /\ r \in ReturnSet}
Wanting(r) ==
    LET carrying == Carrying(r)
    IN  Reached(Block,
                {b \in Block : r \in Inputs(Code(b))} \cup (carrying \cap Returned(r)),
                {e \in Block \X carrying : e[1] \in Succs(e[2])})

\* The two fixpoint loops compute what the paths of the graph say, whatever the
\* order the blocks are visited in: the inputs of a block are the registers
\* wanted at its start, its outputs those it holds at its end and wanted there.
LivenessExact ==
    pc \in {"clear", "params", "done"} => \A r \in Reg :
        LET holding == Holding(r)
            wanting == Wanting(r)
        IN  \A b \in Block :
              /\ r \in input[b] <=> b \in wanting
              /\ r \in output[b] <=>
                   b \in holding /\ (b \in Returned(r) \/ Succs(b) \cap wanting # {})

\* Neither loop takes back what it did: the first one only adds passed
\* registers, the second one only turns guesses into inputs and outputs. This is
\* why they end.
NeverTakenBack ==
    [][/\ pc = "forward" => \A b \in Block : propagated[b] \subseteq propagated'[b]
       /\ \A b \in Block : input[b] \subseteq input'[b] /\ output[b] \subseteq output'[b]
      ]_vars

\* A parameter of the routine is used by a block that gets it from no block
\* before: no path brings a value of this routine there.
ParamsNeverProvided ==
    \A r \in param : \E b \in Block :
        r \in Inputs(Code(b)) /\ Preds(b) \cap Holding(r) = {}

\* The analysis returns.
Terminates == <>(pc = "done")

\* Where r may be found as the caller left it, at the start of a block.
FromCaller(r) ==
    Reached(Block, {routine.entry},
            {e \in Transparent(r) \X Block : e[2] \in Succs(e[1])})

\* "Collect register-bound routine parameters" (RegisterLiveness.cc:340): every
\* argument register the routine may use with the value its caller gave it is
\* one. Code that sets the register on one path only is a counterexample, because
\* the block where the paths meet is provided with it.
ParamsComplete ==
    pc = "done" => \A r \in ParameterSet :
        (\E b \in FromCaller(r) : r \in Inputs(Code(b))) => r \in param

\* The blocks where a call may find the value r has at their start.
CallArgument(r) ==
    {b \in Block : \E k \in 1 .. Len(Code(b)) :
        /\ Code(b)[k].op = "call"
        /\ \A i \in 1 .. k - 1 : r \notin Kill(Code(b)[i]) \cup Def(Code(b)[i])}

\* "Clear out regions where a register is effectively dead"
\* (RegisterLiveness.cc:333): no register is cleared whose value a call in a
\* later block takes as an argument. clear_unused_sections keeps arguments for
\* calls in the same block, but a call is no use to the blocks before.
ClearedIsDead ==
    Analysed => \A r \in ParameterSet : \A b \in Block :
        (/\ r \in Held(Code(b), Len(Code(b)))
         /\ \E s \in Succs(b) : s \in CallArgument(r))
            => r \in live_out[b][Len(Code(b))]

\* The result is that of the paths: blocks, instructions and parameters.
LivenessFaithful == LivenessExact /\ UsesAreLive /\ ParamsNeverProvided
=============================================================================
