----------------------- MODULE GekkoTranslatorProofs -----------------------
(***************************************************************************)
(* What TLAPS proves of the passes from the graph to the IR, for every     *)
(* routine: of the liveness analysis, of the binding of registers to       *)
(* temporaries on its result, and of the analysis of the stack and the     *)
(* translation, which take the answers of both.                            *)
(***************************************************************************)
EXTENDS GekkoTranslator, PpcDisasmProofs, WellFoundedInduction

-----------------------------------------------------------------------------
(* The code of one block *)

\* Sets of registers are sets of registers.
LEMMA LocalTypes ==
    ASSUME NEW c \in Seq(Inst)
    PROVE  /\ Overwrites(c) \subseteq Reg /\ Inputs(c) \subseteq Reg
           /\ Outputs(c) \subseteq Reg
           /\ \A k : LiveAfter(c, k) \subseteq Reg
<1>1. \A i \in 1 .. Len(c) : Kill(c[i]) \cup Def(c[i]) \subseteq Reg
    <2> TAKE i \in 1 .. Len(c)
    <2>1. c[i] \in Inst  OBVIOUS
    <2> QED  BY <2>1, RegSetAssumption DEF Kill, Def, Inst
<1>2. Overwrites(c) \subseteq Reg  BY <1>1 DEF Overwrites
<1> QED  BY <1>2 DEF Inputs, Outputs, LiveAfter, Held, Pending

\* No instruction kills what it uses or defines.
LEMMA KillApart ==
    ASSUME NEW i \in Inst
    PROVE  Kill(i) \cap (Use(i) \cup Def(i)) = {}
BY RegSetAssumption DEF Kill, Use, Def, Inst

\* What a block leaves behind it has used first or set.
LEMMA OutputsSeen ==
    ASSUME NEW c \in Seq(Inst)
    PROVE  Outputs(c) \subseteq Inputs(c) \cup Overwrites(c)
<1> SUFFICES ASSUME NEW r \in Outputs(c), r \notin Overwrites(c)
             PROVE  r \in Inputs(c)
    OBVIOUS
<1>1. \A j \in 1 .. Len(c) : r \notin Kill(c[j]) \cup Def(c[j])
    BY DEF Overwrites
<1>2. PICK i \in 1 .. Len(c) : r \in Use(c[i]) \cup Def(c[i])  BY DEF Outputs
<1>3. r \in Reg  BY DEF Outputs
<1>4. r \in Use(c[i])  BY <1>1, <1>2
<1> QED  BY <1>1, <1>3, <1>4 DEF Inputs

\* What the block holds after its last instruction is what it leaves behind.
LEMMA HeldAtEnd ==
    ASSUME NEW c \in Seq(Inst)
    PROVE  Held(c, Len(c)) = Outputs(c)
<1>1. ASSUME NEW r \in Reg, NEW i \in 1 .. Len(c), r \in Use(c[i]) \cup Def(c[i])
      PROVE  (\A j \in i .. Len(c) : r \notin Kill(c[j]))
                <=> (\A j \in i + 1 .. Len(c) : r \notin Kill(c[j]))
    <2>1. c[i] \in Inst  OBVIOUS
    <2>2. r \notin Kill(c[i])  BY <1>1, <2>1, KillApart
    <2>3. i .. Len(c) = {i} \cup (i + 1 .. Len(c))  OBVIOUS
    <2> QED  BY <2>2, <2>3, Zenon
<1> QED  BY <1>1, Zenon DEF Held, Outputs

\* Before the first instruction the inputs are live, after the last one what
\* the block leaves behind.
LEMMA LiveAtEnds ==
    ASSUME NEW c \in Seq(Inst)
    PROVE  LiveAfter(c, 0) = Inputs(c) /\ LiveAfter(c, Len(c)) = Outputs(c)
<1>1. Held(c, 0) = {}  BY DEF Held
<1>2. Pending(c, 0) = Inputs(c)  BY DEF Pending
<1>3. Pending(c, Len(c)) = {}  BY DEF Pending, Inputs
<1> QED  BY <1>1, <1>2, <1>3, HeldAtEnd DEF LiveAfter

\* An input is not cleared at the start of its block.
LEMMA InputsKept ==
    ASSUME NEW c \in Seq(Inst), NEW g, NEW r \in Inputs(c)
    PROVE  r \notin Unused(c, g, 1)
<1>1. PICK i \in 1 .. Len(c) :
        r \in Use(c[i]) /\ \A j \in 1 .. i : r \notin Kill(c[j]) \cup Def(c[j])
    BY DEF Inputs
<1>2. r \in MayUse(c[i])  BY <1>1 DEF MayUse
<1>3. ASSUME NEW j \in 1 .. Len(c), r \in Def(c[j]),
             \A k \in 1 .. j : r \notin MayUse(c[k])
      PROVE  FALSE
    <2>1. i <= j \/ j <= i  OBVIOUS
    <2> QED  BY <1>1, <1>2, <1>3, <2>1
<1> QED  BY <1>2, <1>3 DEF Unused

\* Nor is a register the block does not touch, unless it is an unwanted guess.
LEMMA UntouchedKept ==
    ASSUME NEW c \in Seq(Inst), NEW g, NEW k \in 1 .. Len(c) + 1, NEW r,
           r \notin Overwrites(c), r \notin g
    PROVE  r \notin Unused(c, g, k)
<1>1. \A j \in k .. Len(c) : r \notin Def(c[j])  BY DEF Overwrites
<1> QED  BY <1>1 DEF Unused

\* At the end of the block nothing but the guesses is cleared.
LEMMA UnusedAtEnd ==
    ASSUME NEW c \in Seq(Inst), NEW g \in SUBSET Reg
    PROVE  Unused(c, g, Len(c) + 1) = g
BY DEF Unused

-----------------------------------------------------------------------------
(* The inductive invariant *)

AtLocal == pc = "local" => /\ input = Empty /\ output = Empty
                           /\ propagated = Empty /\ todo = {}

Filling == pc \in {"forward", "backward", "clear"}

\* The registers passed through a block because somebody wants them.
Passed(b) == input[b] \ Inputs(Code(b))

\* What the summary of a block is in terms of its code and the passed registers.
Summary ==
    pc # "local" => \A b \in Block :
        /\ overwrite[b] = Overwrites(Code(b))
        /\ Inputs(Code(b)) \subseteq input[b]
        /\ Passed(b) \cap overwrite[b] = {}
        /\ propagated[b] \cap (overwrite[b] \cup Inputs(Code(b))) = {}
        /\ guess_out[b] \cup output[b] = Outputs(Code(b)) \cup Passed(b)
        /\ guess_out[b] \cap output[b] = {}
        /\ guess_out[b] \subseteq Outputs(Code(b))

\* Where the sections are until they are cleared.
Sections ==
    Filling => \A b \in Block : \A k \in 1 .. Len(Code(b)) :
        /\ live_in[b][k] = LiveAfter(Code(b), k - 1) \cup Passed(b)
        /\ live_out[b][k] = LiveAfter(Code(b), k) \cup Passed(b)

\* The forward loop is on its way up.
Rising ==
    pc = "forward" => \A b \in Block : propagated[b] \subseteq Passthrough(b)

IInv == TypeOK /\ AtLocal /\ Summary /\ Sections /\ Rising /\ SectionsAgree

-----------------------------------------------------------------------------
(* Every action keeps it *)

LEMMA CodeType ==
    ASSUME IsRoutine(routine), NEW b \in Block
    PROVE  Code(b) \in Seq(Inst) /\ Len(Code(b)) \in Nat \ {0}
<1>1. routine.code \in [Block -> Seq(Inst)] /\ routine.code[b] # <<>>
    BY DEF IsRoutine
<1> QED  BY <1>1 DEF Code

LEMMA InitIInv == Init => IInv
<1> SUFFICES ASSUME Init PROVE IInv  OBVIOUS
<1>1. IsRoutine(routine)  BY RoutinesAssumption DEF Init
<1>2. <<>> \in Seq(SUBSET Reg)  OBVIOUS
<1>3. TypeOK  BY <1>1, <1>2 DEF Init, Fresh, TypeOK, Empty
<1>4. AtLocal /\ Summary /\ Sections /\ Rising
    BY DEF Init, Fresh, AtLocal, Summary, Sections, Rising, Filling
<1>5. SectionsAgree  BY DEF Init, Fresh, SectionsAgree, Analysed
<1> QED  BY <1>3, <1>4, <1>5 DEF IInv

LEMMA EvalLivenessLocalIInv == IInv /\ EvalLivenessLocal => IInv'
<1> SUFFICES ASSUME IInv, EvalLivenessLocal PROVE IInv'  OBVIOUS
<1>1. IsRoutine(routine) /\ routine' = routine /\ pc' = "forward"
    BY DEF IInv, TypeOK, EvalLivenessLocal
<1>2. \A b \in Block : Code(b)' = Code(b)  BY <1>1 DEF Code
<1>3. ASSUME NEW b \in Block
      PROVE  /\ Inputs(Code(b)) \subseteq Reg /\ Outputs(Code(b)) \subseteq Reg
             /\ Overwrites(Code(b)) \subseteq Reg
             /\ \A k : LiveAfter(Code(b), k) \subseteq Reg
             /\ Len(Code(b)) \in Nat
    BY <1>1, CodeType, LocalTypes
<1>4. /\ live_in' \in [Block -> Seq(SUBSET Reg)]
      /\ live_out' \in [Block -> Seq(SUBSET Reg)]
      /\ \A b \in Block : /\ Len(live_in'[b]) = Len(Code(b))
                          /\ Len(live_out'[b]) = Len(Code(b))
    <2>1. ASSUME NEW n \in Nat, NEW F(_), \A k : F(k) \subseteq Reg
          PROVE  /\ [k \in 1 .. n |-> F(k)] \in Seq(SUBSET Reg)
                 /\ Len([k \in 1 .. n |-> F(k)]) = n
        BY <2>1
    <2>2. ASSUME NEW b \in Block
          PROVE  /\ live_in'[b] \in Seq(SUBSET Reg) /\ Len(live_in'[b]) = Len(Code(b))
                 /\ live_out'[b] \in Seq(SUBSET Reg) /\ Len(live_out'[b]) = Len(Code(b))
        BY <1>3, <2>1 DEF EvalLivenessLocal
    <2>3. live_in' = [b \in Block |-> live_in'[b]] /\ live_out' = [b \in Block |-> live_out'[b]]
        BY DEF EvalLivenessLocal
    <2> QED  BY <2>2, <2>3
<1>5. TypeOK'
    <2>1. /\ input' \in [Block -> SUBSET Reg] /\ guess_out' \in [Block -> SUBSET Reg]
          /\ overwrite' \in [Block -> SUBSET Reg]
        BY <1>3 DEF EvalLivenessLocal
    <2>2. /\ output' = output /\ propagated' = propagated /\ changed' = changed
          /\ routine_inputs' = routine_inputs /\ param' = param /\ todo' = Block
        BY DEF EvalLivenessLocal
    <2> QED  BY <1>1, <1>2, <1>4, <2>1, <2>2 DEF IInv, TypeOK
<1>6. ASSUME NEW b \in Block
      PROVE  /\ overwrite'[b] = Overwrites(Code(b)) /\ input'[b] = Inputs(Code(b))
             /\ Passed(b)' = {} /\ propagated'[b] = {} /\ output'[b] = {}
             /\ guess_out'[b] = Outputs(Code(b))
    BY <1>2 DEF EvalLivenessLocal, IInv, AtLocal, Empty, Passed
<1>7. AtLocal'  BY <1>1 DEF AtLocal
<1>8. Summary'  BY <1>2, <1>6 DEF Summary
<1>9. Sections'
    <2>1. \A b \in Block : \A k \in 1 .. Len(Code(b)) :
            /\ live_in'[b][k] = LiveAfter(Code(b), k - 1)
            /\ live_out'[b][k] = LiveAfter(Code(b), k)
        BY DEF EvalLivenessLocal
    <2> QED  BY <1>2, <1>6, <2>1 DEF Sections
<1>10. Rising'  BY <1>6 DEF Rising
<1>11. SectionsAgree'
    <2>1. ASSUME NEW b \in Block, NEW k \in 1 .. Len(Code(b)) - 1
          PROVE  live_in'[b][k + 1] = live_out'[b][k]
        <3>1. k \in 1 .. Len(Code(b)) /\ k + 1 \in 1 .. Len(Code(b)) /\ (k + 1) - 1 = k
            BY <1>3
        <3>2. /\ live_out'[b][k] = LiveAfter(Code(b), k)
              /\ live_in'[b][k + 1] = LiveAfter(Code(b), (k + 1) - 1)
            BY <3>1 DEF EvalLivenessLocal
        <3> QED  BY <3>1, <3>2
    <2> QED  BY <1>1, <1>4, <2>1 DEF SectionsAgree, Analysed
<1> QED  BY <1>5, <1>7, <1>8, <1>9, <1>10, <1>11 DEF IInv

\* Steps that leave the sections, the summary and the routine alone.
LEMMA SameSections ==
    ASSUME UNCHANGED <<routine, live_in, live_out>>
    PROVE  /\ Sections /\ Filling /\ UNCHANGED input => Sections'
           /\ SectionsAgree /\ ~Analysed' => SectionsAgree'
<1>1. \A b \in Block : Code(b)' = Code(b)  BY DEF Code
<1>2. UNCHANGED input => \A b \in Block : Passed(b)' = Passed(b)
    BY <1>1 DEF Passed
<1>3. ASSUME Sections, Filling, UNCHANGED input
      PROVE  Sections'
    BY <1>1, <1>2, <1>3 DEF Sections
<1>4. ASSUME SectionsAgree, ~Analysed'
      PROVE  SectionsAgree'
    BY <1>4 DEF SectionsAgree
<1> QED  BY <1>3, <1>4

LEMMA PropagateGuessesIInv ==
    ASSUME IInv, NEW b \in Block, PropagateGuesses(b)
    PROVE  IInv' /\ \A a \in Block : propagated[a] \subseteq propagated'[a]
<1>1. /\ routine' = routine /\ pc = "forward" /\ pc' = "forward"
      /\ UNCHANGED <<live_in, live_out, input, output, overwrite, guess_out,
                     routine_inputs, param>>
      /\ todo' \subseteq todo /\ changed' \in BOOLEAN
    BY DEF PropagateGuesses, IInv, TypeOK
<1>2. \A a \in Block : Code(a)' = Code(a) /\ Preds(a)' = Preds(a)
    BY <1>1 DEF Code, Preds, Succs
<1>3. propagated' = [propagated EXCEPT ![b] = Passthrough(b)]
    BY DEF PropagateGuesses
<1>4. ASSUME NEW a \in Block
      PROVE  Passthrough(a) \subseteq Reg
    BY DEF Passthrough, Preds, IInv, TypeOK
<1>5. TypeOK'
    <2>1. propagated' \in [Block -> SUBSET Reg]  BY <1>3, <1>4 DEF IInv, TypeOK
    <2> QED  BY <1>1, <1>2, <2>1 DEF IInv, TypeOK
<1>6. \A a \in Block : propagated[a] \subseteq propagated'[a]
    BY <1>1, <1>3 DEF IInv, Rising, TypeOK
<1>7. Rising'
    <2>1. ASSUME NEW a \in Block
          PROVE  Passthrough(a) \subseteq Passthrough(a)'
        <3>1. \A p \in Preds(a) : p \in Block  BY DEF Preds
        <3> QED  BY <1>1, <1>2, <1>6, <3>1 DEF Passthrough
    <2>2. \A a \in Block : propagated'[a] \subseteq Passthrough(a)
        BY <1>1, <1>3 DEF IInv, Rising, TypeOK
    <2> QED  BY <2>1, <2>2 DEF Rising
<1>8. Summary'
    <2>1. \A a \in Block : Passed(a)' = Passed(a)  BY <1>1, <1>2 DEF Passed
    <2>2. Passthrough(b) \cap (overwrite[b] \cup Inputs(Code(b))) = {}
        BY <1>1 DEF Passthrough, IInv, Summary
    <2>3. \A a \in Block : propagated'[a] \cap (overwrite[a] \cup Inputs(Code(a))) = {}
        BY <1>1, <1>3, <2>2 DEF IInv, Summary, TypeOK
    <2> QED  BY <1>1, <1>2, <2>1, <2>3 DEF IInv, Summary
<1>9. Sections'
    BY <1>1, SameSections DEF IInv, Filling
<1>10. SectionsAgree'  BY <1>1, SameSections DEF IInv, Analysed
<1>11. AtLocal'  BY <1>1 DEF AtLocal
<1> QED  BY <1>5, <1>6, <1>7, <1>8, <1>9, <1>10, <1>11 DEF IInv

LEMMA EndSweepIInv ==
    ASSUME IInv,
           EndSweep("forward", "backward") \/ EndSweep("backward", "clear")
    PROVE  IInv'
<1>1. /\ UNCHANGED <<routine, live_in, live_out, summary, routine_inputs, param>>
      /\ pc \in {"forward", "backward"} /\ pc' \in {"forward", "backward", "clear"}
      /\ pc' = "forward" => pc = "forward"
      /\ todo' \subseteq Block /\ changed' = FALSE
    BY DEF EndSweep
<1>2. \A a \in Block : Code(a)' = Code(a) /\ Preds(a)' = Preds(a)
    BY <1>1 DEF Code, Preds, Succs
<1>3. \A a \in Block : Passed(a)' = Passed(a) /\ Passthrough(a)' = Passthrough(a)
    BY <1>1, <1>2 DEF Passed, Passthrough, summary
<1>4. TypeOK'  BY <1>1, <1>2 DEF IInv, TypeOK, summary
<1>5. AtLocal'  BY <1>1 DEF AtLocal
<1>6. Summary'  BY <1>1, <1>2, <1>3 DEF IInv, Summary, summary
<1>7. Sections'  BY <1>1, SameSections DEF IInv, Filling, summary
<1>8. Rising'  BY <1>1, <1>3 DEF IInv, Rising, summary
<1>9. SectionsAgree'  BY <1>1, SameSections DEF IInv, Analysed
<1> QED  BY <1>4, <1>5, <1>6, <1>7, <1>8, <1>9 DEF IInv

\* CarryThrough adds to every section of one block and changes no length.
LEMMA CarryThroughType ==
    ASSUME NEW s \in [Block -> Seq(SUBSET Reg)], NEW b \in Block,
           NEW regs \in SUBSET Reg
    PROVE  /\ CarryThrough(s, b, regs) \in [Block -> Seq(SUBSET Reg)]
           /\ \A a \in Block : /\ Len(CarryThrough(s, b, regs)[a]) = Len(s[a])
                               /\ a # b => CarryThrough(s, b, regs)[a] = s[a]
           /\ \A k \in 1 .. Len(s[b]) : CarryThrough(s, b, regs)[b][k] = s[b][k] \cup regs
<1> DEFINE t == [k \in 1 .. Len(s[b]) |-> s[b][k] \cup regs]
<1>1. CarryThrough(s, b, regs) = [s EXCEPT ![b] = t]  BY DEF CarryThrough
<1>2. s[b] \in Seq(SUBSET Reg) /\ Len(s[b]) \in Nat  OBVIOUS
<1>3. \A k \in 1 .. Len(s[b]) : s[b][k] \in SUBSET Reg  BY <1>2
<1>4. \A k \in 1 .. Len(s[b]) : s[b][k] \cup regs \in SUBSET Reg  BY <1>3
<1>5. t \in Seq(SUBSET Reg) /\ Len(t) = Len(s[b])
      /\ \A k \in 1 .. Len(s[b]) : t[k] = s[b][k] \cup regs
    BY <1>2, <1>4
<1> HIDE DEF t
<1> QED  BY <1>1, <1>5

LEMMA BackpropagateOutputsIInv ==
    ASSUME IInv, NEW b \in Block, BackpropagateOutputs(b)
    PROVE  /\ IInv'
           /\ \A a \in Block : input[a] \subseteq input'[a] /\ output[a] \subseteq output'[a]
<1> DEFINE uo == NeededAfter(b) \cap guess_out[b]
           up == NeededAfter(b) \cap propagated[b]
<1>1. /\ routine' = routine /\ pc = "backward" /\ pc' = "backward"
      /\ overwrite' = overwrite /\ routine_inputs' = routine_inputs /\ param' = param
      /\ todo' \subseteq todo /\ changed' \in BOOLEAN
    BY DEF BackpropagateOutputs, IInv, TypeOK
<1>2. /\ guess_out' = [guess_out EXCEPT ![b] = @ \ uo]
      /\ propagated' = [propagated EXCEPT ![b] = @ \ up]
      /\ output' = [output EXCEPT ![b] = @ \cup uo \cup up]
      /\ input' = [input EXCEPT ![b] = @ \cup up]
      /\ live_in' = CarryThrough(live_in, b, up)
      /\ live_out' = CarryThrough(live_out, b, up)
    BY DEF BackpropagateOutputs
<1>3. uo \subseteq guess_out[b] /\ up \subseteq propagated[b]
      /\ uo \in SUBSET Reg /\ up \in SUBSET Reg
    BY DEF IInv, TypeOK
<1>4. \A a \in Block : Code(a)' = Code(a)  BY <1>1 DEF Code
<1> HIDE DEF uo, up
<1>5. /\ guess_out'[b] = guess_out[b] \ uo /\ propagated'[b] = propagated[b] \ up
      /\ output'[b] = output[b] \cup uo \cup up /\ input'[b] = input[b] \cup up
      /\ \A a \in Block \ {b} :
            /\ guess_out'[a] = guess_out[a] /\ propagated'[a] = propagated[a]
            /\ output'[a] = output[a] /\ input'[a] = input[a]
    BY <1>2 DEF IInv, TypeOK
<1>6. up \cap (overwrite[b] \cup Inputs(Code(b))) = {}
    BY <1>1, <1>3 DEF IInv, Summary
<1>7. up \cap guess_out[b] = {}
    <2>1. Code(b) \in Seq(Inst)  BY CodeType DEF IInv, TypeOK
    <2>2. guess_out[b] \subseteq Inputs(Code(b)) \cup overwrite[b]
        BY <1>1, <2>1, OutputsSeen DEF IInv, Summary
    <2> QED  BY <1>6, <2>2
<1>8. Passed(b)' = Passed(b) \cup up /\ \A a \in Block \ {b} : Passed(a)' = Passed(a)
    BY <1>4, <1>5, <1>6 DEF Passed
<1>9. /\ live_in' \in [Block -> Seq(SUBSET Reg)]
      /\ live_out' \in [Block -> Seq(SUBSET Reg)]
      /\ \A a \in Block : /\ Len(live_in'[a]) = Len(Code(a))
                          /\ Len(live_out'[a]) = Len(Code(a))
                          /\ a # b => live_in'[a] = live_in[a] /\ live_out'[a] = live_out[a]
      /\ \A k \in 1 .. Len(Code(b)) : /\ live_in'[b][k] = live_in[b][k] \cup up
                                      /\ live_out'[b][k] = live_out[b][k] \cup up
    <2>1. live_in \in [Block -> Seq(SUBSET Reg)] /\ live_out \in [Block -> Seq(SUBSET Reg)]
        BY DEF IInv, TypeOK
    <2>2. \A a \in Block : Len(live_in[a]) = Len(Code(a)) /\ Len(live_out[a]) = Len(Code(a))
        BY <1>1 DEF IInv, TypeOK
    <2> DEFINE Adds(s, t) ==
            /\ t \in [Block -> Seq(SUBSET Reg)]
            /\ \A a \in Block : Len(t[a]) = Len(s[a]) /\ (a # b => t[a] = s[a])
            /\ \A k \in 1 .. Len(s[b]) : t[b][k] = s[b][k] \cup up
    <2>3. ASSUME NEW s \in [Block -> Seq(SUBSET Reg)]
          PROVE  Adds(s, CarryThrough(s, b, up))
        BY <1>3, CarryThroughType
    <2>4. Adds(live_in, live_in') /\ Adds(live_out, live_out')
        <3> HIDE DEF Adds
        <3> QED  BY <1>2, <2>1, <2>3
    <2> QED  BY <2>2, <2>3, <2>4
<1>10. TypeOK'
    <2>1. /\ input' \in [Block -> SUBSET Reg] /\ output' \in [Block -> SUBSET Reg]
          /\ guess_out' \in [Block -> SUBSET Reg]
          /\ propagated' \in [Block -> SUBSET Reg]
        BY <1>2, <1>3 DEF IInv, TypeOK
    <2> QED  BY <1>1, <1>4, <1>9, <2>1 DEF IInv, TypeOK
<1>11. AtLocal' /\ Rising'  BY <1>1 DEF AtLocal, Rising
<1>12. Summary'
    <2>1. ASSUME NEW a \in Block
          PROVE  /\ overwrite[a] = Overwrites(Code(a))
                 /\ Inputs(Code(a)) \subseteq input[a]
                 /\ Passed(a) \cap overwrite[a] = {}
                 /\ propagated[a] \cap (overwrite[a] \cup Inputs(Code(a))) = {}
                 /\ guess_out[a] \cup output[a] = Outputs(Code(a)) \cup Passed(a)
                 /\ guess_out[a] \cap output[a] = {}
                 /\ guess_out[a] \subseteq Outputs(Code(a))
        BY <1>1 DEF IInv, Summary
    <2>2. ASSUME NEW a \in Block
          PROVE  /\ overwrite'[a] = Overwrites(Code(a))
                 /\ Inputs(Code(a)) \subseteq input'[a]
                 /\ Passed(a)' \cap overwrite'[a] = {}
                 /\ propagated'[a] \cap (overwrite'[a] \cup Inputs(Code(a))) = {}
                 /\ guess_out'[a] \cup output'[a] = Outputs(Code(a)) \cup Passed(a)'
                 /\ guess_out'[a] \cap output'[a] = {}
                 /\ guess_out'[a] \subseteq Outputs(Code(a))
        <3>1. CASE a = b  BY <1>1, <1>3, <1>5, <1>6, <1>7, <1>8, <2>1, <3>1
        <3>2. CASE a # b  BY <1>1, <1>5, <1>8, <2>1, <3>2
        <3> QED  BY <3>1, <3>2
    <2> QED  BY <1>4, <2>2 DEF Summary
<1>13. Sections'
    <2>1. ASSUME NEW a \in Block, NEW k \in 1 .. Len(Code(a))
          PROVE  /\ live_in'[a][k] = LiveAfter(Code(a), k - 1) \cup Passed(a)'
                 /\ live_out'[a][k] = LiveAfter(Code(a), k) \cup Passed(a)'
        <3>1. /\ live_in[a][k] = LiveAfter(Code(a), k - 1) \cup Passed(a)
              /\ live_out[a][k] = LiveAfter(Code(a), k) \cup Passed(a)
            BY <1>1 DEF IInv, Sections, Filling
        <3>2. CASE a = b  BY <1>8, <1>9, <3>1, <3>2
        <3>3. CASE a # b  BY <1>8, <1>9, <3>1, <3>3
        <3> QED  BY <3>2, <3>3
    <2> QED  BY <1>4, <2>1 DEF Sections
<1>14. SectionsAgree'
    <2>1. ASSUME NEW a \in Block, NEW k \in 1 .. Len(Code(a)) - 1
          PROVE  live_in'[a][k + 1] = live_out'[a][k]
        <3>1. Len(Code(a)) \in Nat /\ Len(live_in[a]) = Len(Code(a))
            BY <1>1, CodeType DEF IInv, TypeOK
        <3>2. k \in 1 .. Len(Code(a)) /\ k + 1 \in 1 .. Len(Code(a))  BY <3>1
        <3>3. live_in[a][k + 1] = live_out[a][k]
            BY <3>1 DEF IInv, SectionsAgree
        <3>4. CASE a = b  BY <1>9, <3>2, <3>3, <3>4
        <3>5. CASE a # b  BY <1>9, <3>3, <3>5
        <3> QED  BY <3>4, <3>5
    <2> QED  BY <1>1, <1>9, <2>1 DEF SectionsAgree, Analysed
<1>15. \A a \in Block : input[a] \subseteq input'[a] /\ output[a] \subseteq output'[a]
    BY <1>5
<1> QED  BY <1>10, <1>11, <1>12, <1>13, <1>14, <1>15 DEF IInv

LEMMA ClearUnusedSectionsIInv == IInv /\ ClearUnusedSections => IInv'
<1> SUFFICES ASSUME IInv, ClearUnusedSections PROVE IInv'  OBVIOUS
<1>1. /\ pc = "clear" /\ pc' = "params"
      /\ UNCHANGED <<routine, todo, changed, summary, routine_inputs, param>>
    BY DEF ClearUnusedSections
<1>2. \A b \in Block : Code(b)' = Code(b)  BY <1>1 DEF Code
<1>3. \A b \in Block : Passed(b)' = Passed(b)  BY <1>1, <1>2 DEF Passed, summary
<1> DEFINE n(b) == Len(Code(b))
           cleared(s, b, d) ==
                [k \in 1 .. Len(s[b]) |-> s[b][k] \ Unused(Code(b), guess_out[b], k + d)]
<1>4. ASSUME NEW s \in [Block -> Seq(SUBSET Reg)], NEW b \in Block, NEW d \in Nat,
             Len(s[b]) = n(b)
      PROVE  /\ cleared(s, b, d) \in Seq(SUBSET Reg) /\ Len(cleared(s, b, d)) = n(b)
             /\ \A k \in 1 .. n(b) :
                    cleared(s, b, d)[k] = s[b][k] \ Unused(Code(b), guess_out[b], k + d)
    <2>1. s[b] \in Seq(SUBSET Reg) /\ Len(s[b]) \in Nat  OBVIOUS
    <2>2. \A k \in 1 .. Len(s[b]) : s[b][k] \in SUBSET Reg  BY <2>1
    <2>3. \A k \in 1 .. Len(s[b]) :
            s[b][k] \ Unused(Code(b), guess_out[b], k + d) \in SUBSET Reg
        BY <2>2
    <2> QED  BY <1>4, <2>1, <2>3
<1>5. /\ live_in' = [b \in Block |-> cleared(live_in, b, 0)]
      /\ live_out' = [b \in Block |-> cleared(live_out, b, 1)]
    <2>1. \A b \in Block : \A k \in 1 .. Len(live_in[b]) : k + 0 = k  OBVIOUS
    <2>2. \A b \in Block : cleared(live_in, b, 0) =
            [k \in 1 .. Len(live_in[b]) |-> live_in[b][k] \ Unused(Code(b), guess_out[b], k)]
        BY <2>1, Zenon
    <2> QED  BY <2>2 DEF ClearUnusedSections
<1>6. ASSUME NEW b \in Block
      PROVE  /\ live_in'[b] \in Seq(SUBSET Reg) /\ Len(live_in'[b]) = n(b)
             /\ live_out'[b] \in Seq(SUBSET Reg) /\ Len(live_out'[b]) = n(b)
             /\ \A k \in 1 .. n(b) :
                    /\ live_in'[b][k] = live_in[b][k] \ Unused(Code(b), guess_out[b], k)
                    /\ live_out'[b][k] =
                            live_out[b][k] \ Unused(Code(b), guess_out[b], k + 1)
    <2>1. /\ live_in \in [Block -> Seq(SUBSET Reg)] /\ Len(live_in[b]) = n(b)
          /\ live_out \in [Block -> Seq(SUBSET Reg)] /\ Len(live_out[b]) = n(b)
        BY <1>1 DEF IInv, TypeOK
    <2>2. live_in'[b] = cleared(live_in, b, 0) /\ live_out'[b] = cleared(live_out, b, 1)
        BY <1>5
    <2>3. \A k \in 1 .. n(b) : k + 0 = k  OBVIOUS
    <2> HIDE DEF cleared, n
    <2> QED  BY <1>4, <2>1, <2>2, <2>3
<1> HIDE DEF cleared
<1>7. TypeOK'
    <2>1. live_in' \in [Block -> Seq(SUBSET Reg)] /\ live_out' \in [Block -> Seq(SUBSET Reg)]
        BY <1>5, <1>6
    <2> QED  BY <1>1, <1>2, <1>6, <2>1 DEF IInv, TypeOK, summary
<1>8. AtLocal' /\ Rising' /\ Sections'  BY <1>1 DEF AtLocal, Rising, Sections, Filling
<1>9. Summary'  BY <1>1, <1>2, <1>3 DEF IInv, Summary, summary
<1>10. SectionsAgree'
    <2>1. ASSUME NEW b \in Block
          PROVE  Code(b) \in Seq(Inst) /\ n(b) \in Nat /\ n(b) >= 1
        BY CodeType DEF IInv, TypeOK
    <2>2. ASSUME NEW b \in Block, NEW k \in 1 .. n(b) - 1
          PROVE  live_in'[b][k + 1] = live_out'[b][k]
        <3>1. k \in 1 .. n(b) /\ k + 1 \in 1 .. n(b)  BY <2>1
        <3>2. live_in[b][k + 1] = live_out[b][k]
            BY <1>1 DEF IInv, SectionsAgree, TypeOK
        <3>3. live_out'[b][k] = live_out[b][k] \ Unused(Code(b), guess_out[b], k + 1)
            BY <1>6, <3>1
        <3>4. ASSUME NEW j \in 1 .. n(b)
              PROVE  live_in'[b][j] = live_in[b][j] \ Unused(Code(b), guess_out[b], j)
            BY <1>6
        <3>5. live_in'[b][k + 1] = live_in[b][k + 1] \ Unused(Code(b), guess_out[b], k + 1)
            BY <3>1, <3>4, Zenon
        <3> QED  BY <3>2, <3>3, <3>5, Zenon
    <2>3. ASSUME NEW b \in Block
          PROVE  live_in'[b][1] = input[b]
        <3>1. Passed(b) \cap Overwrites(Code(b)) = {} /\ Passed(b) \cap Inputs(Code(b)) = {}
              /\ Passed(b) \cap guess_out[b] = {}
              /\ Inputs(Code(b)) \cup Passed(b) = input[b]
            BY <1>1, <2>1, OutputsSeen DEF IInv, Summary, Passed
        <3>2. live_in[b][1] = Inputs(Code(b)) \cup Passed(b)
            <4>1. live_in[b][1] = LiveAfter(Code(b), 1 - 1) \cup Passed(b)
                BY <1>1, <2>1 DEF IInv, Sections, Filling
            <4>2. 1 - 1 = 0  OBVIOUS
            <4> QED  BY <2>1, <4>1, <4>2, LiveAtEnds
        <3>3. \A r \in Inputs(Code(b)) \cup Passed(b) :
                r \notin Unused(Code(b), guess_out[b], 1)
            <4>1. 1 \in 1 .. n(b) + 1  BY <2>1
            <4> QED  BY <2>1, <3>1, <4>1, InputsKept, UntouchedKept
        <3>4. live_in'[b][1] = live_in[b][1] \ Unused(Code(b), guess_out[b], 1)
            BY <1>6, <2>1
        <3> QED  BY <3>1, <3>2, <3>3, <3>4
    <2>4. ASSUME NEW b \in Block
          PROVE  live_out'[b][n(b)] = output[b]
        <3>1. live_out[b][n(b)] = Outputs(Code(b)) \cup Passed(b)
            <4>1. live_out[b][n(b)] = LiveAfter(Code(b), n(b)) \cup Passed(b)
                BY <1>1, <2>1 DEF IInv, Sections, Filling
            <4> QED  BY <2>1, <4>1, LiveAtEnds
        <3>2. live_out'[b][n(b)] = live_out[b][n(b)] \ guess_out[b]
            <4>1. guess_out[b] \in SUBSET Reg  BY DEF IInv, TypeOK
            <4> QED  BY <1>6, <2>1, <4>1, UnusedAtEnd
        <3>3. /\ guess_out[b] \cup output[b] = Outputs(Code(b)) \cup Passed(b)
              /\ guess_out[b] \cap output[b] = {}
            BY <1>1 DEF IInv, Summary
        <3> QED  BY <3>1, <3>2, <3>3
    <2> QED  BY <1>1, <1>2, <1>6, <2>2, <2>3, <2>4 DEF SectionsAgree, summary
<1> QED  BY <1>7, <1>8, <1>9, <1>10 DEF IInv

LEMMA FindRoutineParamsIInv == IInv /\ FindRoutineParams => IInv'
<1> SUFFICES ASSUME IInv, FindRoutineParams PROVE IInv'  OBVIOUS
<1>1. /\ pc = "params" /\ pc' = "done"
      /\ UNCHANGED <<routine, todo, changed, live_in, live_out, summary>>
    BY DEF FindRoutineParams
<1>2. \A b \in Block : Code(b)' = Code(b)  BY <1>1 DEF Code
<1>3. \A b \in Block : Passed(b)' = Passed(b)  BY <1>1, <1>2 DEF Passed, summary
<1>4. TypeOK'
    <2>1. \A b \in Block : FoundParams(b) \in SUBSET ParameterSet  BY DEF FoundParams
    <2>2. routine_inputs' \in [Block -> SUBSET ParameterSet]
        BY <2>1 DEF FindRoutineParams, IInv, TypeOK
    <2>3. param' \subseteq ParameterSet
        BY <2>2 DEF FindRoutineParams, IInv, TypeOK
    <2> QED  BY <1>1, <1>2, <2>2, <2>3 DEF IInv, TypeOK, summary
<1>5. AtLocal' /\ Rising' /\ Sections'  BY <1>1 DEF AtLocal, Rising, Sections, Filling
<1>6. Summary'  BY <1>1, <1>2, <1>3 DEF IInv, Summary, summary
<1>7. SectionsAgree'  BY <1>1, <1>2 DEF IInv, SectionsAgree, Analysed, summary
<1> QED  BY <1>4, <1>5, <1>6, <1>7 DEF IInv

LEMMA StutterIInv == IInv /\ UNCHANGED vars => IInv'
<1> SUFFICES ASSUME IInv, UNCHANGED vars PROVE IInv'  OBVIOUS
<1>1. \A b \in Block : Code(b)' = Code(b) /\ Preds(b)' = Preds(b)
    BY DEF vars, Code, Preds, Succs
<1>2. \A b \in Block : Passed(b)' = Passed(b) /\ Passthrough(b)' = Passthrough(b)
    BY <1>1 DEF vars, Passed, Passthrough
<1>3. TypeOK'  BY <1>1 DEF IInv, vars, TypeOK
<1>4. AtLocal' /\ Summary' /\ Sections' /\ Rising'
    BY <1>1, <1>2 DEF IInv, vars, AtLocal, Summary, Sections, Rising, Filling
<1>5. SectionsAgree'  BY <1>1 DEF IInv, vars, SectionsAgree, Analysed
<1> QED  BY <1>3, <1>4, <1>5 DEF IInv

LEMMA NextIInv == IInv /\ [Next]_vars => IInv'
BY EvalLivenessLocalIInv, PropagateGuessesIInv, EndSweepIInv,
   BackpropagateOutputsIInv, ClearUnusedSectionsIInv, FindRoutineParamsIInv,
   StutterIInv DEF Next

-----------------------------------------------------------------------------
(* The invariant of the two fixpoint loops *)

\* The forward loop has nothing to do yet with what is wanted.
NothingPassed == pc = "forward" => \A b \in Block : input[b] = Inputs(Code(b)) /\ output[b] = {}

\* It never goes beyond what the paths say ...
CarriedOnly == pc = "forward" => \A b \in Block : \A r \in propagated[b] : b \in Carrying(r)

\* ... and a block visited in a sweep that has changed nothing is as it should be.
ForwardSettled ==
    pc = "forward" /\ ~changed => \A b \in Block \ todo : propagated[b] = Passthrough(b)

\* From then on the registers that may be passed through a block are divided into
\* those that are and those nobody has asked for.
CarriedAll ==
    pc \notin {"local", "forward"} => \A b \in Block :
        propagated[b] \cup Passed(b) = {r \in Reg : b \in Carrying(r)}

\* r is wanted after b.
WantedAfter(b, r) == b \in Returned(r) \/ Succs(b) \cap Wanting(r) # {}

\* Nor does the backward loop go beyond what the paths say ...
WantedOnly ==
    pc # "local" => \A b \in Block :
        /\ \A r \in input[b] : b \in Wanting(r)
        /\ \A r \in output[b] : b \in Holding(r) /\ WantedAfter(b, r)

\* ... and what it has settled stays settled.
Settled(b) == NeededAfter(b) \cap (guess_out[b] \cup propagated[b]) = {}

BackwardSettled ==
    /\ pc = "backward" /\ ~changed => \A b \in Block \ todo : Settled(b)
    /\ pc \in {"clear", "params", "done"} => \A b \in Block : Settled(b)

\* The parameters are inputs nobody provides.
ParamsFound ==
    /\ pc # "done" => param = {} /\ routine_inputs = Empty
    /\ \A r \in param : \E b \in Block : r \in input[b] \ ProvidedTo(b)

FixInv == /\ NothingPassed /\ CarriedOnly /\ ForwardSettled /\ CarriedAll
          /\ WantedOnly /\ BackwardSettled /\ ParamsFound

\* What Reached is: it holds the start, is closed, and is in every closed set.
LEMMA ReachedLeast ==
    ASSUME NEW nodes, NEW from, NEW edges,
           from \subseteq nodes, edges \subseteq nodes \X nodes
    PROVE  /\ Reached(nodes, from, edges) \subseteq nodes
           /\ from \subseteq Reached(nodes, from, edges)
           /\ \A x, y \in nodes : x \in Reached(nodes, from, edges) /\ <<x, y>> \in edges
                                    => y \in Reached(nodes, from, edges)
           /\ \A S \in SUBSET nodes :
                (from \subseteq S /\ \A x, y \in nodes : <<x, y>> \in edges /\ x \in S => y \in S)
                    => Reached(nodes, from, edges) \subseteq S
<1>1. ASSUME NEW x \in nodes, NEW y \in nodes, <<x, y>> \in edges,
             x \in Reached(nodes, from, edges)
      PROVE  y \in Reached(nodes, from, edges)
    <2> SUFFICES ASSUME NEW S \in SUBSET nodes, from \subseteq S,
                        \A e \in edges : e[1] \in S => e[2] \in S
                 PROVE  y \in S
        BY DEF Reached
    <2>1. x \in S  BY <1>1 DEF Reached
    <2>2. <<x, y>>[1] \in S => <<x, y>>[2] \in S  BY <1>1
    <2> QED  BY <2>1, <2>2
<1>2. ASSUME NEW S \in SUBSET nodes, from \subseteq S,
             \A x, y \in nodes : <<x, y>> \in edges /\ x \in S => y \in S
      PROVE  Reached(nodes, from, edges) \subseteq S
    <2>1. ASSUME NEW e \in edges, e[1] \in S
          PROVE  e[2] \in S
        <3>1. e = <<e[1], e[2]>> /\ e[1] \in nodes /\ e[2] \in nodes  OBVIOUS
        <3> QED  BY <1>2, <2>1, <3>1
    <2> QED  BY <1>2, <2>1 DEF Reached
<1>3. Reached(nodes, from, edges) \subseteq nodes /\ from \subseteq Reached(nodes, from, edges)
    BY DEF Reached
<1> QED  BY <1>1, <1>2, <1>3

\* The paths of the routine do not depend on what the analysis does.
LEMMA SamePaths ==
    ASSUME UNCHANGED routine
    PROVE  /\ \A b : /\ Code(b)' = Code(b) /\ Succs(b)' = Succs(b) /\ Preds(b)' = Preds(b)
                     /\ IsExit(b)' = IsExit(b)
           /\ \A r : /\ Transparent(r)' = Transparent(r) /\ Holding(r)' = Holding(r)
                     /\ Carrying(r)' = Carrying(r) /\ Wanting(r)' = Wanting(r)
                     /\ Returned(r)' = Returned(r)
           /\ \A b, r : WantedAfter(b, r)' = WantedAfter(b, r)
BY DEF Code, Succs, Preds, IsExit, Transparent, Holding, Carrying, Wanting,
       Returned, WantedAfter, Reached

\* A block holds r at its end if it leaves it behind or passes it on, and these
\* are the least blocks.
LEMMA HoldingLeast ==
    ASSUME IsRoutine(routine), NEW r \in Reg
    PROVE  /\ Holding(r) \subseteq Block /\ Carrying(r) \subseteq Transparent(r)
           /\ \A b \in Block : b \in Holding(r) <=> r \in Outputs(Code(b)) \/ b \in Carrying(r)
           /\ \A S \in SUBSET Block :
                (/\ \A b \in Block : r \in Outputs(Code(b)) => b \in S
                 /\ \A b \in Transparent(r) : Preds(b) \cap S # {} => b \in S)
                    => Holding(r) \subseteq S
<1> DEFINE leaving == {b \in Block : r \in Held(Code(b), Len(Code(b)))}
           along == {e \in Block \X Transparent(r) : e[2] \in Succs(e[1])}
<1>1. \A b \in Block : b \in leaving <=> r \in Outputs(Code(b))  BY CodeType, HeldAtEnd
<1>2. \A a, b \in Block : <<a, b>> \in along <=> b \in Transparent(r) /\ a \in Preds(b)
    BY DEF Preds
<1>3. leaving \subseteq Block /\ along \subseteq Block \X Block  BY DEF Transparent
<1>4. Holding(r) = Reached(Block, leaving, along)  BY DEF Holding
<1> HIDE DEF leaving, along
<1>5. /\ Holding(r) \subseteq Block /\ leaving \subseteq Holding(r)
      /\ \A a, b \in Block : a \in Holding(r) /\ <<a, b>> \in along => b \in Holding(r)
      /\ \A S \in SUBSET Block :
            (leaving \subseteq S /\ \A a, b \in Block : <<a, b>> \in along /\ a \in S => b \in S)
                => Holding(r) \subseteq S
    BY <1>3, <1>4, ReachedLeast
<1>6. Transparent(r) \subseteq Block /\ Carrying(r) \subseteq Transparent(r)
    BY DEF Carrying, Transparent
<1>7. ASSUME NEW S \in SUBSET Block,
             \A b \in Block : r \in Outputs(Code(b)) => b \in S,
             \A b \in Transparent(r) : Preds(b) \cap S # {} => b \in S
      PROVE  Holding(r) \subseteq S
    <2>1. leaving \subseteq S  BY <1>1, <1>3, <1>7
    <2>2. \A a, b \in Block : <<a, b>> \in along /\ a \in S => b \in S  BY <1>2, <1>7
    <2> QED  BY <1>5, <2>1, <2>2
<1>8. ASSUME NEW b \in Carrying(r)
      PROVE  b \in Holding(r)
    <2>1. PICK a \in Preds(b) : a \in Holding(r)  BY DEF Carrying
    <2> QED  BY <1>2, <1>5, <1>6, <2>1
<1>9. Holding(r) \subseteq leaving \cup Carrying(r)
    <2> DEFINE S == leaving \cup Carrying(r)
    <2>1. S \in SUBSET Block /\ S \subseteq Holding(r)  BY <1>3, <1>5, <1>6, <1>8
    <2>2. \A b \in Transparent(r) : Preds(b) \cap S # {} => b \in S
        BY <2>1 DEF Carrying
    <2> QED  BY <1>1, <1>7, <2>1, <2>2
<1> QED  BY <1>1, <1>5, <1>6, <1>7, <1>8, <1>9

\* r is wanted where a block starts that uses it or that passes it on to where it
\* is wanted, and these are the least blocks.
LEMMA WantingLeast ==
    ASSUME IsRoutine(routine), NEW r \in Reg
    PROVE  /\ \A b \in Block : r \in Inputs(Code(b)) => b \in Wanting(r)
           /\ \A b \in Carrying(r) : WantedAfter(b, r) => b \in Wanting(r)
           /\ \A S \in SUBSET Block :
                (/\ \A b \in Block : r \in Inputs(Code(b)) => b \in S
                 /\ \A b \in Carrying(r) : b \in Returned(r) \/ Succs(b) \cap S # {} => b \in S)
                    => Wanting(r) \subseteq S
<1> DEFINE using == {b \in Block : r \in Inputs(Code(b))} \cup (Carrying(r) \cap Returned(r))
           along == {e \in Block \X Carrying(r) : e[1] \in Succs(e[2])}
<1>1. Carrying(r) \subseteq Block  BY DEF Carrying, Transparent
<1>2. \A a, b \in Block : <<a, b>> \in along <=> b \in Carrying(r) /\ a \in Succs(b)
    OBVIOUS
<1>3. using \subseteq Block /\ along \subseteq Block \X Block  BY <1>1
<1>4. Wanting(r) = Reached(Block, using, along)  BY DEF Wanting
<1>5. \A b \in Block : b \in using <=> r \in Inputs(Code(b)) \/ b \in Carrying(r) \cap Returned(r)
    OBVIOUS
<1>6. \A b \in Block : Succs(b) \subseteq Block  BY DEF IsRoutine, Succs
<1> HIDE DEF using, along
<1>7. /\ Wanting(r) \subseteq Block /\ using \subseteq Wanting(r)
      /\ \A a, b \in Block : a \in Wanting(r) /\ <<a, b>> \in along => b \in Wanting(r)
      /\ \A S \in SUBSET Block :
            (using \subseteq S /\ \A a, b \in Block : <<a, b>> \in along /\ a \in S => b \in S)
                => Wanting(r) \subseteq S
    BY <1>3, <1>4, ReachedLeast
<1>8. ASSUME NEW b \in Carrying(r), WantedAfter(b, r)
      PROVE  b \in Wanting(r)
    BY <1>1, <1>2, <1>5, <1>6, <1>7, <1>8 DEF WantedAfter
<1>9. ASSUME NEW S \in SUBSET Block,
             \A b \in Block : r \in Inputs(Code(b)) => b \in S,
             \A b \in Carrying(r) : b \in Returned(r) \/ Succs(b) \cap S # {} => b \in S
      PROVE  Wanting(r) \subseteq S
    <2>1. using \subseteq S  BY <1>3, <1>5, <1>9
    <2>2. \A a, b \in Block : <<a, b>> \in along /\ a \in S => b \in S  BY <1>2, <1>9
    <2> QED  BY <1>7, <2>1, <2>2
<1> QED  BY <1>5, <1>7, <1>8, <1>9

\* The summary of a block while nothing has been asked for yet.
LEMMA ForwardSummary ==
    ASSUME IInv, FixInv, pc = "forward", NEW b \in Block
    PROVE  guess_out[b] = Outputs(Code(b)) /\ Passed(b) = {} /\ input[b] = Inputs(Code(b))
BY DEF IInv, Summary, FixInv, NothingPassed, Passed

\* What predecessors may hold and the block passes on, the paths say it carries.
LEMMA PassthroughCarried ==
    ASSUME IInv, FixInv, pc = "forward", NEW b \in Block, NEW r \in Passthrough(b)
    PROVE  r \in Reg /\ b \in Carrying(r)
<1>1. PICK p \in Preds(b) : r \in guess_out[p] \cup propagated[p]  BY DEF Passthrough
<1>2. p \in Block  BY DEF Preds
<1>3. r \in Reg  BY <1>1, <1>2 DEF IInv, TypeOK
<1>4. p \in Holding(r)
    <2>1. r \in Outputs(Code(p)) \/ p \in Carrying(r)
        BY <1>1, <1>2, ForwardSummary DEF FixInv, CarriedOnly
    <2>2. IsRoutine(routine)  BY DEF IInv, TypeOK
    <2> QED  BY <1>2, <1>3, <2>1, <2>2, HoldingLeast
<1>5. r \notin Overwrites(Code(b)) \cup Inputs(Code(b))
    BY ForwardSummary DEF Passthrough, IInv, Summary
<1> QED  BY <1>1, <1>3, <1>4, <1>5 DEF Carrying, Transparent

\* When a sweep changes nothing the registers passed on are those the paths say.
LEMMA ForwardFixpoint ==
    ASSUME IInv, FixInv, pc = "forward", ~changed, todo = {}, NEW b \in Block
    PROVE  propagated[b] = {r \in Reg : b \in Carrying(r)}
<1>1. IsRoutine(routine)  BY DEF IInv, TypeOK
<1>2. \A a \in Block : propagated[a] = Passthrough(a)  BY DEF FixInv, ForwardSettled
<1>3. ASSUME NEW r \in Reg, b \in Carrying(r)
      PROVE  r \in propagated[b]
    <2> DEFINE S == {a \in Block : r \in guess_out[a] \cup propagated[a]}
    <2>1. ASSUME NEW a \in Transparent(r), Preds(a) \cap S # {}
          PROVE  r \in Passthrough(a)
        <3>1. a \in Block /\ r \notin Overwrites(Code(a)) \cup Inputs(Code(a))
            BY DEF Transparent
        <3>2. r \notin overwrite[a] \cup input[a]
            BY <3>1, ForwardSummary DEF IInv, Summary
        <3> QED  BY <2>1, <3>2 DEF Passthrough
    <2>2. \A a \in Block : r \in Outputs(Code(a)) => a \in S  BY ForwardSummary
    <2>3. \A a \in Transparent(r) : Preds(a) \cap S # {} => a \in S
        BY <1>2, <2>1 DEF Transparent
    <2>4. S \in SUBSET Block  OBVIOUS
    <2> HIDE DEF S
    <2>5. Holding(r) \subseteq S  BY <1>1, <2>2, <2>3, <2>4, HoldingLeast
    <2> QED  BY <1>2, <1>3, <2>1, <2>5 DEF Carrying
<1>4. \A r \in propagated[b] : r \in Reg /\ b \in Carrying(r)
    BY <1>2, PassthroughCarried
<1> QED  BY <1>3, <1>4

\* What somebody asks for after b, the paths say is wanted there.
LEMMA NeededIsWanted ==
    ASSUME IInv, FixInv, pc # "local", NEW b \in Block, NEW r \in NeededAfter(b)
    PROVE  r \in Reg /\ WantedAfter(b, r)
<1>1. CASE IsExit(b) /\ r \in ReturnSet
    BY <1>1, RegSetAssumption DEF WantedAfter, Returned
<1>2. CASE \E s \in Succs(b) : r \in input[s]
    <2>1. PICK s \in Succs(b) : r \in input[s]  BY <1>2
    <2>2. s \in Block  BY DEF IInv, TypeOK, IsRoutine, Succs
    <2>3. r \in Reg  BY <2>1, <2>2 DEF IInv, TypeOK
    <2>4. s \in Wanting(r)  BY <2>1, <2>2 DEF FixInv, WantedOnly
    <2> QED  BY <2>1, <2>3, <2>4 DEF WantedAfter
<1> QED  BY <1>1, <1>2 DEF NeededAfter

\* When a sweep changes nothing nobody wants what is still a guess.
LEMMA BackwardFixpoint ==
    ASSUME IInv, FixInv, pc \in {"clear", "params", "done"}
    PROVE  LivenessExact
<1>1. IsRoutine(routine)  BY DEF IInv, TypeOK
<1>2. ASSUME NEW b \in Block
      PROVE  /\ NeededAfter(b) \cap (guess_out[b] \cup propagated[b]) = {}
             /\ propagated[b] \cup Passed(b) = {r \in Reg : b \in Carrying(r)}
             /\ Inputs(Code(b)) \subseteq input[b]
             /\ guess_out[b] \cup output[b] = Outputs(Code(b)) \cup Passed(b)
             /\ input[b] \subseteq Reg /\ output[b] \subseteq Reg
    BY DEF FixInv, BackwardSettled, CarriedAll, Settled, IInv, Summary, TypeOK
<1>3. ASSUME NEW r \in Reg
      PROVE  Wanting(r) \subseteq {b \in Block : r \in input[b]}
    <2> DEFINE S == {b \in Block : r \in input[b]}
    <2>1. ASSUME NEW b \in Carrying(r), b \in Returned(r) \/ Succs(b) \cap S # {}
          PROVE  b \in S
        <3>1. b \in Block  BY DEF Carrying, Transparent
        <3>2. r \in NeededAfter(b)  BY <2>1 DEF NeededAfter, Returned
        <3>3. r \in Passed(b)  BY <1>2, <3>1, <3>2
        <3> QED  BY <3>1, <3>3 DEF Passed
    <2>2. \A b \in Block : r \in Inputs(Code(b)) => b \in S  BY <1>2
    <2>3. S \in SUBSET Block  OBVIOUS
    <2> HIDE DEF S
    <2>4. Wanting(r) \subseteq S  BY <1>1, <2>1, <2>2, <2>3, WantingLeast
    <2> QED  BY <2>4 DEF S
<1>4. ASSUME NEW b \in Block
      PROVE  input[b] = {r \in Reg : b \in Wanting(r)}
    BY <1>2, <1>3 DEF FixInv, WantedOnly
<1>5. ASSUME NEW b \in Block, NEW r \in Reg, b \in Holding(r), WantedAfter(b, r)
      PROVE  r \in output[b]
    <2>1. r \in NeededAfter(b)
        <3>1. Succs(b) \subseteq Block  BY <1>1 DEF IsRoutine, Succs
        <3> QED  BY <1>4, <1>5, <3>1 DEF NeededAfter, WantedAfter, Returned
    <2>2. r \in Outputs(Code(b)) \/ b \in Carrying(r)  BY <1>1, <1>5, HoldingLeast
    <2> QED  BY <1>2, <2>1, <2>2
<1>6. ASSUME NEW b \in Block
      PROVE  output[b] = {r \in Reg : b \in Holding(r) /\ WantedAfter(b, r)}
    BY <1>2, <1>5 DEF FixInv, WantedOnly
<1> QED  BY <1>4, <1>6 DEF LivenessExact, WantedAfter

LEMMA InitFixInv == Init => FixInv
BY DEF Init, Fresh, Empty, FixInv, NothingPassed, CarriedOnly, ForwardSettled, CarriedAll,
       WantedOnly, BackwardSettled, ParamsFound

LEMMA EvalLivenessLocalFixInv == IInv /\ FixInv /\ EvalLivenessLocal => FixInv'
<1> SUFFICES ASSUME IInv, FixInv, EvalLivenessLocal PROVE FixInv'  OBVIOUS
<1>1. /\ pc = "local" /\ pc' = "forward" /\ todo' = Block
      /\ UNCHANGED <<routine, changed, output, propagated, routine_inputs, param>>
      /\ output = Empty /\ propagated = Empty /\ IsRoutine(routine)
    BY DEF EvalLivenessLocal, IInv, AtLocal, TypeOK
<1>2. \A b \in Block : input'[b] = Inputs(Code(b)) /\ output'[b] = {} /\ propagated'[b] = {}
    BY <1>1 DEF EvalLivenessLocal, Empty
<1>3. param' = {} /\ routine_inputs' = Empty  BY <1>1 DEF FixInv, ParamsFound
<1>4. NothingPassed' /\ CarriedOnly'  BY <1>1, <1>2, SamePaths DEF NothingPassed, CarriedOnly
<1>5. WantedOnly'
    <2>1. ASSUME NEW b \in Block, NEW r \in input'[b]
          PROVE  b \in Wanting(r)
        <3>1. r \in Inputs(Code(b)) /\ r \in Reg  BY <1>2 DEF Inputs
        <3> QED  BY <1>1, <3>1, WantingLeast
    <2>2. \A b \in Block : \A r \in input'[b] : b \in Wanting(r)'  BY <1>1, <2>1, SamePaths
    <2> QED  BY <1>2, <2>2 DEF WantedOnly
<1>6. ForwardSettled' /\ CarriedAll' /\ BackwardSettled'
    BY <1>1 DEF ForwardSettled, CarriedAll, BackwardSettled
<1>7. ParamsFound'  BY <1>1, <1>3 DEF ParamsFound
<1> QED  BY <1>4, <1>5, <1>6, <1>7 DEF FixInv

LEMMA PropagateGuessesFixInv ==
    ASSUME IInv, FixInv, NEW b \in Block, PropagateGuesses(b)
    PROVE  FixInv'
<1>1. /\ pc = "forward" /\ pc' = "forward" /\ todo' = todo \ {b}
      /\ propagated' = [propagated EXCEPT ![b] = Passthrough(b)]
      /\ changed' = (changed \/ Passthrough(b) # propagated[b])
      /\ UNCHANGED <<routine, input, output, overwrite, guess_out, routine_inputs, param>>
      /\ propagated \in [Block -> SUBSET Reg]
    BY DEF PropagateGuesses, IInv, TypeOK
<1>2. NothingPassed'  BY <1>1, SamePaths DEF FixInv, NothingPassed
<1>3. CarriedOnly'
    <2>1. ASSUME NEW a \in Block, NEW r \in propagated'[a]
          PROVE  a \in Carrying(r)
        <3>1. CASE a = b  BY <1>1, <3>1, PassthroughCarried
        <3>2. CASE a # b  BY <1>1, <3>2 DEF FixInv, CarriedOnly
        <3> QED  BY <3>1, <3>2
    <2> QED  BY <1>1, <2>1, SamePaths DEF CarriedOnly
<1>4. ForwardSettled'
    <2> SUFFICES ASSUME ~changed', NEW a \in Block \ todo'
                 PROVE  propagated'[a] = Passthrough(a)'
        BY DEF ForwardSettled
    <2>1. ~changed /\ Passthrough(b) = propagated[b] /\ propagated' = propagated
        BY <1>1
    <2>2. Passthrough(a)' = Passthrough(a)
        BY <1>1, <2>1, SamePaths DEF Passthrough
    <2>3. a = b \/ a \in Block \ todo  BY <1>1
    <2> QED  BY <1>1, <2>1, <2>2, <2>3 DEF FixInv, ForwardSettled
<1>5. WantedOnly'  BY <1>1, SamePaths DEF FixInv, WantedOnly
<1>6. CarriedAll' /\ BackwardSettled'  BY <1>1 DEF CarriedAll, BackwardSettled
<1>7. ParamsFound'  BY <1>1 DEF FixInv, ParamsFound
<1> QED  BY <1>2, <1>3, <1>4, <1>5, <1>6, <1>7 DEF FixInv

\* Steps that leave the summary alone.
LEMMA SameSummary ==
    ASSUME UNCHANGED <<routine, summary>>
    PROVE  /\ \A b \in Block : Passed(b)' = Passed(b) /\ Settled(b)' = Settled(b)
           /\ WantedOnly /\ pc # "local" => WantedOnly'
<1>1. \A b \in Block : Passed(b)' = Passed(b) /\ Settled(b)' = Settled(b)
    BY SamePaths DEF Passed, Settled, NeededAfter, summary
<1>2. ASSUME WantedOnly, pc # "local"
      PROVE  WantedOnly'
    BY <1>2, SamePaths DEF WantedOnly, summary
<1> QED  BY <1>1, <1>2

LEMMA EndSweepFixInv ==
    ASSUME IInv, FixInv,
           EndSweep("forward", "backward") \/ EndSweep("backward", "clear")
    PROVE  FixInv'
<1>1. /\ UNCHANGED <<routine, live_in, live_out, summary, routine_inputs, param>>
      /\ pc \in {"forward", "backward"} /\ pc' \in {"forward", "backward", "clear"}
      /\ pc' = "forward" => pc = "forward" /\ todo' = Block
      /\ pc' = "backward" => todo' = Block
      /\ pc = "forward" /\ pc' # "forward" => ~changed /\ todo = {}
      /\ pc' = "clear" => pc = "backward" /\ ~changed /\ todo = {}
    BY DEF EndSweep
<1>2. NothingPassed' /\ CarriedOnly'
    BY <1>1, SamePaths DEF FixInv, NothingPassed, CarriedOnly, summary
<1>3. ForwardSettled'  BY <1>1 DEF ForwardSettled
<1>4. CarriedAll'
    <2> SUFFICES ASSUME pc' # "forward", NEW b \in Block
                 PROVE  propagated[b] \cup Passed(b) = {r \in Reg : b \in Carrying(r)}
        BY <1>1, SameSummary, SamePaths DEF CarriedAll, summary
    <2>1. CASE pc = "forward"
        BY <1>1, <2>1, ForwardFixpoint, ForwardSummary
    <2>2. CASE pc # "forward"  BY <1>1, <2>2 DEF FixInv, CarriedAll
    <2> QED  BY <2>1, <2>2
<1>5. WantedOnly'  BY <1>1, SameSummary DEF FixInv
<1>6. BackwardSettled'  BY <1>1, SameSummary DEF FixInv, BackwardSettled
<1>7. ParamsFound'  BY <1>1 DEF FixInv, ParamsFound
<1> QED  BY <1>2, <1>3, <1>4, <1>5, <1>6, <1>7 DEF FixInv

LEMMA BackpropagateOutputsFixInv ==
    ASSUME IInv, FixInv, NEW b \in Block, BackpropagateOutputs(b)
    PROVE  FixInv'
<1> DEFINE uo == NeededAfter(b) \cap guess_out[b]
           up == NeededAfter(b) \cap propagated[b]
<1>1. /\ pc = "backward" /\ pc' = "backward" /\ todo' = todo \ {b}
      /\ UNCHANGED <<routine, overwrite, routine_inputs, param>>
      /\ changed' = (changed \/ up # {})
    BY DEF BackpropagateOutputs
<1>2. /\ guess_out'[b] = guess_out[b] \ uo /\ propagated'[b] = propagated[b] \ up
      /\ output'[b] = output[b] \cup uo \cup up /\ input'[b] = input[b] \cup up
      /\ \A a \in Block \ {b} :
            /\ guess_out'[a] = guess_out[a] /\ propagated'[a] = propagated[a]
            /\ output'[a] = output[a] /\ input'[a] = input[a]
      /\ up = {} => input' = input
    BY DEF BackpropagateOutputs, IInv, TypeOK
<1>3. uo \subseteq guess_out[b] /\ up \subseteq propagated[b]
      /\ uo \subseteq NeededAfter(b) /\ up \subseteq NeededAfter(b)
    OBVIOUS
<1>4. IsRoutine(routine)  BY DEF IInv, TypeOK
<1>5. \A r \in uo \cup up : r \in Reg /\ WantedAfter(b, r)
    BY <1>1, <1>3, NeededIsWanted
<1>6. \A r \in up : b \in Carrying(r)  BY <1>1, <1>3 DEF FixInv, CarriedAll
<1>7. \A r \in uo : r \in Outputs(Code(b))  BY <1>1, <1>3 DEF IInv, Summary
<1>8. \A r \in up : r \notin Inputs(Code(b))
    BY <1>1, <1>3 DEF IInv, Summary
<1>9. NothingPassed' /\ CarriedOnly' /\ ForwardSettled'
    BY <1>1 DEF NothingPassed, CarriedOnly, ForwardSettled
<1>10. CarriedAll'
    <2>1. ASSUME NEW a \in Block
          PROVE  propagated'[a] \cup Passed(a)' = propagated[a] \cup Passed(a)
        <3>1. Passed(a)' = input'[a] \ Inputs(Code(a))  BY <1>1, SamePaths DEF Passed
        <3>2. CASE a = b  BY <1>2, <1>3, <1>8, <3>1, <3>2 DEF Passed
        <3>3. CASE a # b  BY <1>2, <3>1, <3>3 DEF Passed
        <3> QED  BY <3>2, <3>3
    <2> QED  BY <1>1, <2>1, SamePaths DEF FixInv, CarriedAll
<1>11. WantedOnly'
    <2>1. ASSUME NEW a \in Block, NEW r \in input'[a]
          PROVE  a \in Wanting(r)
        <3>1. CASE r \in input[a]  BY <1>1, <3>1 DEF FixInv, WantedOnly
        <3>2. CASE r \notin input[a]
            <4>1. a = b /\ r \in up  BY <1>2, <3>2
            <4> QED  BY <1>4, <1>5, <1>6, <4>1, WantingLeast
        <3> QED  BY <3>1, <3>2
    <2>2. ASSUME NEW a \in Block, NEW r \in output'[a]
          PROVE  a \in Holding(r) /\ WantedAfter(a, r)
        <3>1. CASE r \in output[a]  BY <1>1, <3>1 DEF FixInv, WantedOnly
        <3>2. CASE r \notin output[a]
            <4>1. a = b /\ r \in uo \cup up  BY <1>2, <3>2
            <4> QED  BY <1>4, <1>5, <1>6, <1>7, <4>1, HoldingLeast
        <3> QED  BY <3>1, <3>2
    <2> QED  BY <1>1, <2>1, <2>2, SamePaths DEF WantedOnly
<1>12. BackwardSettled'
    <2> SUFFICES ASSUME ~changed', NEW a \in Block \ todo'
                 PROVE  Settled(a)'
        BY <1>1 DEF BackwardSettled
    <2>1. ~changed /\ up = {} /\ input' = input  BY <1>1, <1>2
    <2>2. NeededAfter(a)' = NeededAfter(a)
        BY <1>1, <2>1, SamePaths DEF NeededAfter
    <2>3. CASE a = b  BY <1>2, <2>1, <2>2, <2>3 DEF Settled
    <2>4. CASE a # b
        <3>1. Settled(a)  BY <1>1, <2>1, <2>4 DEF FixInv, BackwardSettled
        <3> QED  BY <1>2, <2>2, <2>4, <3>1 DEF Settled
    <2> QED  BY <2>3, <2>4
<1>13. ParamsFound'
    BY <1>1 DEF FixInv, ParamsFound
<1> QED  BY <1>9, <1>10, <1>11, <1>12, <1>13 DEF FixInv

LEMMA LastStepsFixInv ==
    ASSUME IInv, FixInv, ClearUnusedSections \/ FindRoutineParams \/ UNCHANGED vars
    PROVE  FixInv'
<1>1. /\ UNCHANGED <<routine, todo, changed, summary>>
      /\ pc' = pc \/ (pc \in {"clear", "params"} /\ pc' \in {"params", "done"})
    BY DEF ClearUnusedSections, FindRoutineParams, vars, summary
<1>2. NothingPassed' /\ CarriedOnly'
    BY <1>1, SamePaths DEF FixInv, NothingPassed, CarriedOnly, summary
<1>3. ForwardSettled'
    <2>1. \A b \in Block : Passthrough(b)' = Passthrough(b)
        BY <1>1, SamePaths DEF Passthrough, summary
    <2> QED  BY <1>1, <2>1 DEF FixInv, ForwardSettled, summary
<1>4. CarriedAll'
    BY <1>1, SamePaths, SameSummary DEF FixInv, CarriedAll, summary
<1>5. WantedOnly'  BY <1>1, SamePaths DEF FixInv, WantedOnly, summary
<1>6. BackwardSettled'  BY <1>1, SameSummary DEF FixInv, BackwardSettled
<1>7. ParamsFound'
    <2>1. \A b \in Block : ProvidedTo(b)' = ProvidedTo(b) /\ FoundParams(b)' = FoundParams(b)
        BY <1>1, SamePaths DEF ProvidedTo, FoundParams, summary
    <2>2. CASE ClearUnusedSections \/ UNCHANGED vars
        <3>1. /\ UNCHANGED <<routine_inputs, param, input>>
              /\ pc' = pc \/ (pc = "clear" /\ pc' = "params")
            BY <2>2 DEF ClearUnusedSections, vars, summary
        <3> QED  BY <2>1, <3>1 DEF FixInv, ParamsFound
    <2>3. CASE FindRoutineParams
        <3>1. pc' = "done" /\ routine_inputs = Empty /\ param = {} /\ input' = input
            BY <2>3 DEF FindRoutineParams, FixInv, ParamsFound, summary
        <3>2. \A b \in Block : routine_inputs'[b] = FoundParams(b)
            BY <2>3, <3>1 DEF FindRoutineParams, Empty
        <3>3. param' = UNION {routine_inputs'[b] : b \in Block}
            BY <2>3, <3>1 DEF FindRoutineParams
        <3>4. \A r \in param' : \E b \in Block : r \in input[b] \ ProvidedTo(b)
            BY <3>2, <3>3 DEF FoundParams
        <3> QED  BY <2>1, <3>1, <3>4 DEF ParamsFound
    <2> QED  BY <2>2, <2>3
<1> QED  BY <1>2, <1>3, <1>4, <1>5, <1>6, <1>7 DEF FixInv

LEMMA NextFixInv == IInv /\ FixInv /\ [Next]_vars => FixInv'
BY EvalLivenessLocalFixInv, PropagateGuessesFixInv, EndSweepFixInv,
   BackpropagateOutputsFixInv, LastStepsFixInv DEF Next

\* A parameter is used first by a block that no block provides with it: had it been
\* passed to there, the block before would have it among its outputs.
LEMMA FoundNeverProvided == IInv /\ FixInv => ParamsNeverProvided
<1> SUFFICES ASSUME IInv, FixInv, NEW r \in param
             PROVE  \E b \in Block : r \in Inputs(Code(b)) /\ Preds(b) \cap Holding(r) = {}
    BY DEF ParamsNeverProvided
<1>1. PICK b \in Block : r \in input[b] \ ProvidedTo(b)  BY DEF FixInv, ParamsFound
<1>2. pc = "done"  BY DEF FixInv, ParamsFound
<1>3. IsRoutine(routine) /\ r \in Reg  BY RegSetAssumption DEF IInv, TypeOK
<1>4. LivenessExact  BY <1>2, BackwardFixpoint
<1>5. b \in Wanting(r)  BY <1>1, <1>2, <1>3, <1>4 DEF LivenessExact
<1>6. Preds(b) \cap Holding(r) = {}
    <2> SUFFICES ASSUME NEW p \in Preds(b), p \in Holding(r) PROVE FALSE  OBVIOUS
    <2>1. p \in Block /\ b \in Succs(p)  BY DEF Preds
    <2>2. r \in output[p]  BY <1>2, <1>3, <1>4, <1>5, <2>1 DEF LivenessExact
    <2> QED  BY <1>1, <2>2 DEF ProvidedTo
<1>7. r \in Inputs(Code(b))
    <2> SUFFICES ASSUME r \notin Inputs(Code(b)) PROVE FALSE  OBVIOUS
    <2>1. r \in Passed(b)  BY <1>1 DEF Passed
    <2>2. b \in Carrying(r)  BY <1>2, <2>1 DEF FixInv, CarriedAll
    <2> QED  BY <1>6, <2>2 DEF Carrying
<1> QED  BY <1>6, <1>7

-----------------------------------------------------------------------------
(* The theorems *)

\* Everything above holds all along.
THEOREM InductiveInvariant == Spec => []IInv
BY InitIInv, NextIInv, PTL DEF Spec

\* The state of the analysis has the type it should: sections as long as the
\* code, sets of registers of the class, parameters among the argument registers.
THEOREM TypeCorrect == Spec => []TypeOK
<1>1. IInv => TypeOK  BY DEF IInv
<1> QED  BY <1>1, InductiveInvariant, PTL

\* The sections of a block agree with each other and, at the end, with the
\* summary the blocks are connected by: what compute_block_binds takes for
\* granted when it turns sections into temporaries.
THEOREM SectionsAlwaysAgree == Spec => []SectionsAgree
<1>1. IInv => SectionsAgree  BY DEF IInv
<1> QED  BY <1>1, InductiveInvariant, PTL

\* Neither fixpoint loop takes back what it did, in whatever order it visits the
\* blocks: with finitely many registers and blocks both end.
THEOREM NothingTakenBack == Spec => NeverTakenBack
<1> DEFINE A == /\ pc = "forward" => \A b \in Block : propagated[b] \subseteq propagated'[b]
                /\ \A b \in Block : input[b] \subseteq input'[b] /\ output[b] \subseteq output'[b]
<1>1. ASSUME IInv, Next
      PROVE  A
    <2>1. CASE EvalLivenessLocal
        <3>1. pc = "local" /\ output' = output /\ input = Empty
            BY <1>1, <2>1 DEF EvalLivenessLocal, IInv, AtLocal
        <3> QED  BY <3>1 DEF Empty
    <2>2. ASSUME NEW b \in Block, PropagateGuesses(b)
          PROVE  A
        BY <1>1, <2>2, PropagateGuessesIInv DEF PropagateGuesses
    <2>3. CASE EndSweep("forward", "backward") \/ EndSweep("backward", "clear")
        BY <2>3 DEF EndSweep, summary
    <2>4. ASSUME NEW b \in Block, BackpropagateOutputs(b)
          PROVE  A
        BY <1>1, <2>4, BackpropagateOutputsIInv DEF BackpropagateOutputs
    <2>5. CASE ClearUnusedSections  BY <2>5 DEF ClearUnusedSections, summary
    <2>6. CASE FindRoutineParams  BY <2>6 DEF FindRoutineParams, summary
    <2> QED  BY <1>1, <2>1, <2>2, <2>3, <2>4, <2>5, <2>6 DEF Next
<1>2. IInv /\ [Next]_vars => [A]_vars  BY <1>1
<1> QED  BY <1>2, InductiveInvariant, PTL DEF Spec, NeverTakenBack

\* The two fixpoint loops compute what the paths of the graph say, for every graph
\* and in whatever order the blocks are visited: inputs are the registers wanted
\* at the start of a block, outputs those held and wanted at its end, and a
\* parameter is used first by a block no value of this routine can reach.
THEOREM LoopsFollowPaths == Spec => [](LivenessExact /\ ParamsNeverProvided)
<1>1. Init => IInv /\ FixInv  BY InitIInv, InitFixInv
<1>2. IInv /\ FixInv /\ [Next]_vars => IInv' /\ FixInv'  BY NextIInv, NextFixInv
<1>3. IInv /\ FixInv => LivenessExact /\ ParamsNeverProvided
    <2>1. ~(pc \in {"clear", "params", "done"}) => LivenessExact  BY DEF LivenessExact
    <2> QED  BY <2>1, BackwardFixpoint, FoundNeverProvided
<1> QED  BY <1>1, <1>2, <1>3, PTL DEF Spec

-----------------------------------------------------------------------------
(* Numbers *)

LEMMA Least ==
    ASSUME NEW S, S \subseteq Nat, S # {}
    PROVE  \E n \in S : \A m \in S : n <= m
<1> DEFINE R == {p \in Nat \X Nat : p[1] < p[2]}
<1>1. R = OpToRel(<, Nat)  BY Zenon DEF OpToRel
<1>2. IsWellFoundedOn(R, Nat)  BY <1>1, NatLessThanWellFounded, Zenon
<1>3. PICK n \in S : \A m \in S : ~(<<m, n>> \in R)
    <2> HIDE DEF R
    <2> QED  BY <1>2, WFMin
<1>4. ASSUME NEW m \in S
      PROVE  n <= m
    <2>1. m \in Nat /\ n \in Nat  OBVIOUS
    <2>2. m < n => <<m, n>> \in R  BY <2>1, Zenon
    <2> QED  BY <1>3, <2>1, <2>2
<1> QED  BY <1>4

LEMMA Greatest ==
    ASSUME NEW n \in Nat, NEW S, S \subseteq 1 .. n, S # {}
    PROVE  \E m \in S : \A k \in S : k <= m
<1> DEFINE T == {n - k : k \in S}
<1>1. T \subseteq Nat /\ T # {}  OBVIOUS
<1>2. PICK i \in T : \A j \in T : i <= j
    <2> HIDE DEF T
    <2> QED  BY <1>1, Least
<1>3. PICK m \in S : i = n - m  OBVIOUS
<1>4. ASSUME NEW k \in S
      PROVE  k <= m
    <2>1. n - m <= n - k  BY <1>2, <1>3
    <2>2. k \in Int /\ m \in Int  OBVIOUS
    <2> QED  BY <2>1, <2>2
<1> QED  BY <1>4

-----------------------------------------------------------------------------
(* What is left of the sections once they are cleared *)

Cleared ==
    Analysed => \A b \in Block : \A k \in 1 .. Len(Code(b)) :
        live_in[b][k] = (LiveAfter(Code(b), k - 1) \cup Passed(b))
                            \ Unused(Code(b), guess_out[b], k)

LEMMA NextCleared == IInv /\ Cleared /\ [Next]_vars => Cleared'
<1> SUFFICES ASSUME IInv, Cleared, [Next]_vars, Analysed' PROVE Cleared'
    BY DEF Cleared
<1>1. CASE ClearUnusedSections
    <2>1. pc = "clear" /\ UNCHANGED <<routine, summary>>
        BY <1>1 DEF ClearUnusedSections
    <2>2. \A b \in Block : Code(b)' = Code(b) /\ Passed(b)' = Passed(b)
        BY <2>1 DEF Code, Passed, summary
    <2>3. ASSUME NEW b \in Block, NEW k \in 1 .. Len(Code(b))
          PROVE  live_in'[b][k] = (LiveAfter(Code(b), k - 1) \cup Passed(b))
                                      \ Unused(Code(b), guess_out[b], k)
        <3>1. Len(live_in[b]) = Len(Code(b))  BY <2>1 DEF IInv, TypeOK
        <3>2. live_in'[b][k] = live_in[b][k] \ Unused(Code(b), guess_out[b], k)
            BY <1>1, <3>1 DEF ClearUnusedSections
        <3>3. live_in[b][k] = LiveAfter(Code(b), k - 1) \cup Passed(b)
            BY <2>1 DEF IInv, Sections, Filling
        <3> QED  BY <3>2, <3>3
    <2> QED  BY <2>1, <2>2, <2>3 DEF Cleared, summary
<1>2. CASE FindRoutineParams \/ UNCHANGED vars
    <2>1. Analysed /\ UNCHANGED <<routine, summary, live_in>>
        BY <1>2 DEF FindRoutineParams, vars, summary, Analysed
    <2>2. \A b \in Block : Code(b)' = Code(b) /\ Passed(b)' = Passed(b)
        BY <2>1 DEF Code, Passed, summary
    <2> QED  BY <2>1, <2>2 DEF Cleared, summary
<1>3. CASE \/ EvalLivenessLocal
           \/ \E b \in Block : PropagateGuesses(b) \/ BackpropagateOutputs(b)
           \/ EndSweep("forward", "backward") \/ EndSweep("backward", "clear")
    <2>1. ~Analysed'
        BY <1>3 DEF EvalLivenessLocal, PropagateGuesses, BackpropagateOutputs,
                    EndSweep, Analysed
    <2> QED  BY <2>1
<1> QED  BY <1>1, <1>2, <1>3 DEF Next

\* An instruction neither kills nor defines what it uses.
LEMMA UseApart ==
    ASSUME NEW i \in Inst
    PROVE  Use(i) \cap (Kill(i) \cup Def(i)) = {}
BY DEF Kill, Use, Def, Inst

\* A register is live where it is read, unless a call destroyed it.
LEMMA ReadsLive ==
    ASSUME IInv, Cleared, Analysed,
           NEW b \in Block, NEW k \in 1 .. Len(Code(b)), NEW r \in Use(Code(b)[k])
    PROVE  r \in live_in[b][k] \/ Destroyed(b, k, r)
<1> DEFINE c == Code(b)
           T == {i \in 1 .. k - 1 : r \in Kill(c[i]) \cup Def(c[i]) \cup Use(c[i])}
<1>1. c \in Seq(Inst) /\ Len(c) \in Nat \ {0}  BY CodeType DEF IInv, TypeOK
<1> HIDE DEF c
<1>2. \A i \in 1 .. Len(c) : c[i] \in Inst  BY <1>1
<1>3. k \in 1 .. Len(c) /\ k \in Nat /\ r \in Use(c[k])  BY <1>1 DEF c
<1>4. r \in Reg  BY <1>2, <1>3 DEF Use, Inst
<1>5. r \notin Unused(c, guess_out[b], k)
    <2>1. r \in MayUse(c[k])  BY <1>3 DEF MayUse
    <2>2. \A j \in k .. Len(c) : k \in k .. j  BY <1>1, <1>3
    <2>3. k \in k .. Len(c)  BY <1>1, <1>3
    <2> QED  BY <2>1, <2>2, <2>3 DEF Unused
<1>6. live_in[b][k] = (LiveAfter(c, k - 1) \cup Passed(b)) \ Unused(c, guess_out[b], k)
    BY DEF Cleared, c
<1>7. CASE T = {}
    <2>1. \A j \in 1 .. k : r \notin Kill(c[j]) \cup Def(c[j])
        <3>1. r \notin Kill(c[k]) \cup Def(c[k])  BY <1>2, <1>3, UseApart
        <3>2. \A j \in 1 .. k - 1 : r \notin Kill(c[j]) \cup Def(c[j])  BY <1>7
        <3>3. 1 .. k = (1 .. k - 1) \cup {k}  BY <1>3
        <3> QED  BY <3>1, <3>2, <3>3, Zenon
    <2>2. r \in Inputs(c)  BY <1>3, <1>4, <2>1 DEF Inputs
    <2>3. r \in Pending(c, k - 1)  BY <1>7, <2>2 DEF Pending
    <2> QED  BY <1>5, <1>6, <2>3 DEF LiveAfter
<1>8. CASE T # {}
    <2>1. k - 1 \in Nat /\ T \subseteq 1 .. k - 1  BY <1>3
    <2>2. PICK i \in T : \A j \in T : j <= i
        <3> HIDE DEF T
        <3> QED  BY <1>8, <2>1, Greatest
    <2>3. i \in 1 .. k - 1 /\ i \in 1 .. Len(c)  BY <1>1, <1>3
    <2>4. \A j \in i + 1 .. k - 1 : r \notin Kill(c[j]) \cup Def(c[j]) \cup Use(c[j])
        <3>1. \A j \in i + 1 .. k - 1 : j \in 1 .. k - 1 /\ ~(j <= i)  BY <2>3, <1>3
        <3> QED  BY <2>2, <3>1
    <2>5. CASE r \in Kill(c[i])
        <3>1. Destroyed(b, k, r)  BY <2>3, <2>4, <2>5 DEF Destroyed, c
        <3> QED  BY <3>1
    <2>6. CASE r \notin Kill(c[i])
        <3>1. r \in Use(c[i]) \cup Def(c[i])  BY <2>6
        <3>2. i .. k - 1 = {i} \cup (i + 1 .. k - 1)  BY <1>3, <2>3
        <3>3. \A j \in i .. k - 1 : r \notin Kill(c[j])
            BY <2>4, <2>6, <3>2, Zenon
        <3>4. r \in Held(c, k - 1)  BY <1>4, <2>3, <3>1, <3>3 DEF Held
        <3> QED  BY <1>5, <1>6, <3>4 DEF LiveAfter
    <2> QED  BY <2>5, <2>6
<1> QED  BY <1>7, <1>8

-----------------------------------------------------------------------------
(* The temporaries of one block *)

Live(b, k) == live_in[b][k] \cup live_out[b][k]

LEMMA SectionsType ==
    ASSUME IInv, Analysed, NEW b \in Block
    PROVE  /\ Len(Code(b)) \in Nat \ {0}
           /\ \A k \in 1 .. Len(Code(b)) : Live(b, k) \subseteq Reg
           /\ \A k \in 1 .. Len(Code(b)) - 1 : live_in[b][k + 1] = live_out[b][k]
           /\ live_out[b][Len(Code(b))] = output[b]
<1>1. Len(Code(b)) \in Nat \ {0}  BY CodeType DEF IInv, TypeOK
<1>2. /\ live_in[b] \in Seq(SUBSET Reg) /\ live_out[b] \in Seq(SUBSET Reg)
      /\ Len(live_in[b]) = Len(Code(b)) /\ Len(live_out[b]) = Len(Code(b))
    BY DEF IInv, TypeOK, Analysed
<1>3. \A k \in 1 .. Len(Code(b)) : live_in[b][k] \in SUBSET Reg /\ live_out[b][k] \in SUBSET Reg
    BY <1>1, <1>2
<1> QED  BY <1>1, <1>2, <1>3 DEF Live, IInv, SectionsAgree

\* A region begins where its register was last made live, or with the block.
LEMMA RgnBeginType ==
    ASSUME NEW b, NEW r, NEW k \in Nat \ {0}
    PROVE  /\ RgnBegin(b, r, k) \in 1 .. k
           /\ RgnBegin(b, r, k) # 1 => r \notin live_in[b][RgnBegin(b, r, k)]
           /\ \A j \in 1 .. k :
                r \in live_out[b][j] \ live_in[b][j] => j <= RgnBegin(b, r, k)
<1> DEFINE S == {1} \cup {j \in 1 .. k : r \in live_out[b][j] \ live_in[b][j]}
<1>1. S \subseteq 1 .. k /\ S # {}  OBVIOUS
<1>2. PICK m \in S : \A j \in S : j <= m
    <2> HIDE DEF S
    <2> QED  BY <1>1, Greatest
<1>3. Max(S) \in S /\ \A j \in S : j <= Max(S)
    <2>1. \A j \in S : m >= j  BY <1>1, <1>2
    <2>2. Max(S) \in S /\ \A j \in S : Max(S) >= j
        <3> HIDE DEF S
        <3> QED  BY <2>1, Zenon DEF Max
    <2> QED  BY <1>1, <2>2
<1>4. RgnBegin(b, r, k) = Max(S)  BY DEF RgnBegin
<1> QED  BY <1>1, <1>3, <1>4

\* From its beginning up to instruction k the register is live throughout.
LEMMA RegionLive ==
    ASSUME IInv, Analysed, NEW b \in Block, NEW k \in 1 .. Len(Code(b)),
           NEW r \in Live(b, k)
    PROVE  \A j \in RgnBegin(b, r, k) .. k - 1 : r \in live_out[b][j]
<1> DEFINE lo == RgnBegin(b, r, k)
           B == {j \in lo .. k - 1 : r \notin live_out[b][j]}
<1>1. Len(Code(b)) \in Nat \ {0} /\ k \in Nat \ {0} /\ k <= Len(Code(b))
    BY SectionsType
<1>2. /\ lo \in 1 .. k
      /\ \A j \in 1 .. k : r \in live_out[b][j] \ live_in[b][j] => j <= lo
    BY <1>1, RgnBeginType
<1>3. \A i \in 1 .. k - 1 : live_in[b][i + 1] = live_out[b][i]
    BY <1>1, SectionsType
<1> HIDE DEF lo
<1>4. SUFFICES ASSUME B # {} PROVE FALSE  BY DEF lo
<1>5. B \subseteq 1 .. k  BY <1>1, <1>2
<1>6. PICK j \in B : \A i \in B : i <= j
    <2> HIDE DEF B
    <2> QED  BY <1>1, <1>4, <1>5, Greatest
<1>7. /\ j \in 1 .. k - 1 /\ lo <= j /\ r \notin live_out[b][j]
      /\ j + 1 \in 1 .. k /\ j + 1 > lo
    BY <1>1, <1>2
<1>8. r \notin live_in[b][j + 1]  BY <1>3, <1>7
<1>9. r \notin live_out[b][j + 1]  BY <1>2, <1>7, <1>8
<1>10. j + 1 # k  BY <1>8, <1>9 DEF Live
<1>11. j + 1 \in B  BY <1>1, <1>2, <1>7, <1>9, <1>10
<1> QED  BY <1>6, <1>7, <1>11

BoundTemps(b) == Closed(b) \cup Open(b) \cup UnusedTemps(b)

\* Where a temporary of block b lies: live from one instruction to the next
\* throughout, and not beyond either end, inside the block.
Extent(t, b) ==
    /\ IsBlockTemp(t) /\ t.block = b
    /\ \A j \in t.lo .. t.hi - 1 : t.reg \in live_out[b][j]
    /\ t.lo # 1 => t.reg \notin live_in[b][t.lo]
    /\ t.hi # Len(Code(b)) => t.reg \notin live_out[b][t.hi]

LEMMA RegionExtent ==
    ASSUME IInv, Analysed, NEW b \in Block, NEW k \in 1 .. Len(Code(b)),
           NEW r \in Live(b, k) \ AbiRegs,
           k # Len(Code(b)) => r \notin live_out[b][k]
    PROVE  Extent(Region(b, r, k), b)
<1>1. Len(Code(b)) \in Nat \ {0} /\ k \in Nat \ {0} /\ r \in Reg
    BY SectionsType
<1>2. /\ RgnBegin(b, r, k) \in 1 .. k
      /\ RgnBegin(b, r, k) # 1 => r \notin live_in[b][RgnBegin(b, r, k)]
    BY <1>1, RgnBeginType
<1>3. \A j \in RgnBegin(b, r, k) .. k - 1 : r \in live_out[b][j]  BY RegionLive
<1>4. IsBlockTemp(Region(b, r, k))  BY <1>1, <1>2 DEF IsBlockTemp, Region
<1> QED  BY <1>2, <1>3, <1>4 DEF Extent, Region

LEMMA BoundTempsExtent ==
    ASSUME IInv, Analysed, NEW b \in Block, NEW t \in BoundTemps(b)
    PROVE  Extent(t, b)
<1>1. Len(Code(b)) \in Nat \ {0}  BY SectionsType
<1>2. CASE t \in Closed(b)
    <2>1. PICK r \in Reg \ AbiRegs, k \in 1 .. Len(Code(b)) :
            t = Region(b, r, k) /\ r \in live_in[b][k] \ live_out[b][k]
        BY <1>2 DEF Closed
    <2> QED  BY <2>1, RegionExtent DEF Live
<1>3. CASE t \in Open(b)
    <2>1. PICK r \in output[b] \ AbiRegs : t = Region(b, r, Len(Code(b)))
        BY <1>3 DEF Open
    <2>2. r \in Live(b, Len(Code(b)))  BY <2>1, SectionsType DEF Live
    <2> QED  BY <1>1, <2>1, <2>2, RegionExtent
<1>4. CASE t \in UnusedTemps(b)
    <2>1. PICK r \in Reg \ AbiRegs, k \in 1 .. Len(Code(b)) :
            /\ t = [block |-> b, reg |-> r, lo |-> k, hi |-> k]
            /\ r \notin live_in[b][k] \cup live_out[b][k]
        BY <1>4 DEF UnusedTemps
    <2> QED  BY <1>1, <2>1 DEF Extent, IsBlockTemp
<1> QED  BY <1>2, <1>3, <1>4 DEF BoundTemps

\* Two temporaries of one register do not overlap.
LEMMA ExtentsApart ==
    ASSUME IInv, Analysed, NEW b \in Block, NEW s, NEW t,
           Extent(s, b), Extent(t, b), s.reg = t.reg,
           s.hi >= t.lo, t.hi >= s.lo
    PROVE  s = t
<1>1. /\ s.hi \in Nat /\ s.lo \in Nat /\ t.hi \in Nat /\ t.lo \in Nat
      /\ 1 <= s.lo /\ s.lo <= s.hi /\ s.hi <= Len(Code(b))
      /\ 1 <= t.lo /\ t.lo <= t.hi /\ t.hi <= Len(Code(b))
      /\ Len(Code(b)) \in Nat
    BY SectionsType DEF Extent, IsBlockTemp
<1>2. ~(s.hi < t.hi)  BY <1>1 DEF Extent
<1>3. ~(t.hi < s.hi)  BY <1>1 DEF Extent
<1>4. s.hi = t.hi  BY <1>1, <1>2, <1>3
<1>5. \A k \in 2 .. Len(Code(b)) : live_in[b][k] = live_out[b][k - 1]
    <2> TAKE k \in 2 .. Len(Code(b))
    <2>1. k - 1 \in 1 .. Len(Code(b)) - 1 /\ (k - 1) + 1 = k  BY <1>1
    <2> QED  BY <2>1, SectionsType
<1>6. ~(s.lo < t.lo)
    <2> SUFFICES ASSUME s.lo < t.lo PROVE FALSE  OBVIOUS
    <2>1. t.lo \in 2 .. Len(Code(b)) /\ t.lo # 1 /\ t.lo - 1 \in s.lo .. s.hi - 1  BY <1>1, <1>4
    <2>2. t.reg \in live_out[b][t.lo - 1] /\ t.reg \notin live_in[b][t.lo]
        BY <2>1 DEF Extent
    <2> QED  BY <1>5, <2>1, <2>2
<1>7. ~(t.lo < s.lo)
    <2> SUFFICES ASSUME t.lo < s.lo PROVE FALSE  OBVIOUS
    <2>1. s.lo \in 2 .. Len(Code(b)) /\ s.lo # 1 /\ s.lo - 1 \in t.lo .. t.hi - 1  BY <1>1, <1>4
    <2>2. s.reg \in live_out[b][s.lo - 1] /\ s.reg \notin live_in[b][s.lo]
        BY <2>1 DEF Extent
    <2> QED  BY <1>5, <2>1, <2>2
<1>8. s.lo = t.lo  BY <1>1, <1>6, <1>7
<1> QED  BY <1>4, <1>8 DEF Extent, IsBlockTemp

\* A temporary covers every instruction around which its register is live.
LEMMA LiveCovered ==
    ASSUME IInv, Analysed, NEW b \in Block, NEW k \in 1 .. Len(Code(b)),
           NEW r \in Live(b, k) \ AbiRegs
    PROVE  \E t \in BoundTemps(b) :
                t.block = b /\ t.reg = r /\ t.lo <= k /\ k <= t.hi
<1> DEFINE n == Len(Code(b))
           E == {j \in k .. n : r \notin live_out[b][j]}
<1>1. /\ n \in Nat \ {0} /\ k \in Nat \ {0} /\ k <= n /\ r \in Reg
      /\ live_out[b][n] = output[b]
    BY SectionsType
<1>2. \A j \in 2 .. n : live_in[b][j] = live_out[b][j - 1]
    <2> TAKE j \in 2 .. n
    <2>1. j - 1 \in 1 .. n - 1 /\ (j - 1) + 1 = j  BY <1>1
    <2> QED  BY <2>1, SectionsType
<1> HIDE DEF n
<1>3. ASSUME NEW h \in k .. n, \A j \in k .. h - 1 : r \in live_out[b][j]
      PROVE  RgnBegin(b, r, h) \in 1 .. h /\ RgnBegin(b, r, h) <= k
    <2>1. h \in Nat \ {0}  BY <1>1
    <2>2. /\ RgnBegin(b, r, h) \in 1 .. h
          /\ RgnBegin(b, r, h) # 1 => r \notin live_in[b][RgnBegin(b, r, h)]
        BY <2>1, RgnBeginType
    <2>3. RgnBegin(b, r, h) > k => FALSE
        <3> SUFFICES ASSUME RgnBegin(b, r, h) > k PROVE FALSE  OBVIOUS
        <3>1. /\ RgnBegin(b, r, h) # 1 /\ RgnBegin(b, r, h) \in 2 .. n
              /\ RgnBegin(b, r, h) - 1 \in k .. h - 1
            BY <1>1, <2>1, <2>2
        <3> QED  BY <1>2, <1>3, <2>2, <3>1
    <2> QED  BY <1>1, <2>1, <2>2, <2>3
<1>4. CASE E = {}
    <2>1. \A j \in k .. n : r \in live_out[b][j]  BY <1>4
    <2>2. n \in k .. n /\ k .. n - 1 \subseteq k .. n  BY <1>1
    <2>3. Region(b, r, n) \in Open(b)  BY <1>1, <2>1, <2>2 DEF Open, n
    <2>4. RgnBegin(b, r, n) <= k  BY <1>3, <2>1, <2>2
    <2> QED  BY <1>1, <2>3, <2>4 DEF BoundTemps, Region
<1>5. CASE E # {}
    <2>1. PICK h \in E : \A j \in E : h <= j
        <3>1. E \subseteq Nat  BY <1>1
        <3> HIDE DEF E
        <3> QED  BY <1>5, <3>1, Least
    <2>2. h \in k .. n /\ h \in 1 .. n /\ r \notin live_out[b][h]  BY <1>1
    <2>3. \A j \in k .. h - 1 : r \in live_out[b][j]
        <3>1. \A j \in k .. h - 1 : j \in k .. n /\ ~(h <= j)  BY <1>1, <2>2
        <3> QED  BY <2>1, <3>1
    <2>4. r \in live_in[b][h]
        <3>1. CASE h = k  BY <2>2, <3>1 DEF Live
        <3>2. CASE h # k
            <4>1. h \in 2 .. n /\ h - 1 \in k .. h - 1  BY <1>1, <2>2, <3>2
            <4> QED  BY <1>2, <2>3, <4>1
        <3> QED  BY <3>1, <3>2
    <2>5. Region(b, r, h) \in Closed(b)
        <3>1. <<r, h>> \in {x \in (Reg \ AbiRegs) \X (1 .. Len(Code(b))) :
                                x[1] \in live_in[b][x[2]] \ live_out[b][x[2]]}
            BY <1>1, <2>2, <2>4 DEF n
        <3>2. <<r, h>>[1] = r /\ <<r, h>>[2] = h  OBVIOUS
        <3> HIDE DEF E
        <3> QED  BY <3>1, <3>2 DEF Closed
    <2>6. RgnBegin(b, r, h) <= k  BY <1>3, <2>2, <2>3
    <2> QED  BY <1>1, <2>2, <2>5, <2>6 DEF BoundTemps, Region
<1> QED  BY <1>4, <1>5

-----------------------------------------------------------------------------
(* The inductive invariant *)

\* The temporaries are those of the blocks bound so far, which are none before
\* the analysis is done and all of them once the unions have started.
Bound ==
    /\ block_temps = UNION {BoundTemps(b) : b \in Block \ unbound}
    /\ pc # "done" => unbound = Block
    /\ stage # "blocks" => unbound = {}

BInv == IInv /\ Cleared /\ BindTypeOK /\ Bound

LEMMA InitBInv == BindInit => BInv
<1> SUFFICES ASSUME BindInit PROVE BInv  OBVIOUS
<1>1. IInv  BY InitIInv DEF BindInit
<1>2. pc = "local"  BY DEF BindInit, Init, Fresh
<1>3. Cleared  BY <1>2 DEF Cleared, Analysed
<1>4. /\ stage = "blocks" /\ unbound = Block
      /\ block_temps = {} /\ is_param = {} /\ is_ret = {}
      /\ forwarding_list = [v \in Block |-> {}]
      /\ root = [t \in {} |-> t] /\ gtemp = [t \in {} |-> t]
    BY DEF BindInit, Unbound
<1>5. BindTypeOK
    <2>1. root \in [block_temps -> block_temps]  BY <1>4
    <2>2. DOMAIN gtemp = {} /\ gtemp \in [DOMAIN gtemp -> block_temps]  BY <1>4
    <2> QED  BY <1>4, <2>1, <2>2 DEF BindTypeOK
<1>6. Bound  BY <1>4 DEF Bound
<1> QED  BY <1>1, <1>3, <1>5, <1>6 DEF BInv

\* The analysis changes nothing the binding has done, for it has done nothing.
LEMMA AnalysisBInv ==
    ASSUME BInv, [Next]_vars, UNCHANGED bindVars
    PROVE  BInv'
<1>1. IInv' /\ Cleared'  BY NextIInv, NextCleared DEF BInv
<1>2. routine' = routine
    BY DEF Next, vars, EvalLivenessLocal, PropagateGuesses, EndSweep,
           BackpropagateOutputs, ClearUnusedSections, FindRoutineParams
<1>3. \A t : IsBlockTemp(t)' = IsBlockTemp(t)  BY <1>2 DEF IsBlockTemp, Code
<1>4. BindTypeOK'  BY <1>3 DEF BInv, BindTypeOK, bindVars
<1>5. Bound'
    <2>1. CASE pc = "done"
        <3>1. UNCHANGED vars
            BY <2>1 DEF Next, EvalLivenessLocal, PropagateGuesses, EndSweep,
                        BackpropagateOutputs, ClearUnusedSections, FindRoutineParams
        <3>2. \A b : BoundTemps(b)' = BoundTemps(b)
            BY <3>1 DEF vars, BoundTemps, Closed, Open, UnusedTemps, Region,
                        RgnBegin, Code
        <3> QED  BY <3>1, <3>2 DEF BInv, Bound, bindVars, vars
    <2>2. CASE pc # "done"
        <3>1. unbound = Block /\ block_temps = {}  BY <2>2 DEF BInv, Bound
        <3> QED  BY <3>1 DEF BInv, Bound, bindVars
    <2> QED  BY <2>1, <2>2
<1> QED  BY <1>1, <1>4, <1>5 DEF BInv

\* Steps of the binding leave the analysis alone.
LEMMA AnalysisKept ==
    ASSUME BInv, UNCHANGED vars
    PROVE  /\ IInv' /\ Cleared'
           /\ \A t : IsBlockTemp(t)' = IsBlockTemp(t)
           /\ \A b : BoundTemps(b)' = BoundTemps(b)
<1>1. IInv' /\ Cleared'  BY NextIInv, NextCleared DEF BInv
<1>2. \A t : IsBlockTemp(t)' = IsBlockTemp(t)  BY DEF IsBlockTemp, Code, vars
<1>3. \A b : BoundTemps(b)' = BoundTemps(b)
    BY DEF vars, BoundTemps, Closed, Open, UnusedTemps, Region, RgnBegin, Code
<1> QED  BY <1>1, <1>2, <1>3

LEMMA ComputeBlockBindsBInv ==
    ASSUME BInv, pc = "done", UNCHANGED vars, NEW b \in Block, ComputeBlockBinds(b)
    PROVE  BInv'
<1> DEFINE new == BoundTemps(b)
<1>1. /\ stage = "blocks" /\ b \in unbound /\ unbound' = unbound \ {b}
      /\ block_temps' = block_temps \cup new
      /\ root' = [t \in block_temps \cup new |-> IF t \in new THEN t ELSE root[t]]
      /\ is_param' = is_param \cup FirstOf(b, routine_inputs[b])
      /\ is_ret' = is_ret \cup {t \in Open(b) : IsExit(b) /\ t.reg \in ReturnSet}
      /\ forwarding_list' = Published(b)
      /\ stage' = stage /\ gtemp' = gtemp
    BY DEF ComputeBlockBinds, BoundTemps
<1>2. /\ \A t \in block_temps : IsBlockTemp(t)
      /\ is_param \subseteq block_temps /\ is_ret \subseteq block_temps
      /\ forwarding_list \in [Block -> SUBSET block_temps]
      /\ root \in [block_temps -> block_temps]
      /\ gtemp \in [DOMAIN gtemp -> block_temps]
      /\ unbound \subseteq Block
    BY DEF BInv, BindTypeOK
<1>3. \A t \in new : IsBlockTemp(t)
    BY BoundTempsExtent DEF Extent, BInv, Analysed
<1>4. Open(b) \subseteq new /\ \A regs : FirstOf(b, regs) \subseteq new
    BY DEF BoundTemps, FirstOf
<1> HIDE DEF new
<1>5. /\ is_param' \subseteq block_temps' /\ is_ret' \subseteq block_temps'
    BY <1>1, <1>2, <1>4
<1>6. forwarding_list' \in [Block -> SUBSET block_temps']
    <2>1. ASSUME NEW v \in Block
          PROVE  forwarding_list[v] \cup (IF v = b THEN Open(b) ELSE {})
                    \cup (IF v \in Preds(b) THEN FirstOf(b, input[b]) ELSE {})
                        \in SUBSET block_temps'
        BY <1>1, <1>2, <1>4
    <2> QED  BY <1>1, <2>1 DEF Published
<1>7. root' \in [block_temps' -> block_temps']  BY <1>1, <1>2
<1>8. gtemp' \in [DOMAIN gtemp' -> block_temps']  BY <1>1, <1>2
<1>9. \A t \in block_temps' : IsBlockTemp(t)'  BY <1>1, <1>2, <1>3, AnalysisKept
<1>10. BindTypeOK'
    BY <1>1, <1>2, <1>5, <1>6, <1>7, <1>8, <1>9 DEF BindTypeOK
<1>11. Bound'
    <2>1. Block \ unbound' = (Block \ unbound) \cup {b}  BY <1>1
    <2>2. block_temps' = UNION {BoundTemps(a) : a \in Block \ unbound'}
        BY <1>1, <2>1 DEF BInv, Bound, new
    <2>3. \A a : BoundTemps(a)' = BoundTemps(a)  BY AnalysisKept
    <2>4. block_temps' = UNION {BoundTemps(a)' : a \in Block \ unbound'}
        BY <2>2, <2>3
    <2> QED  BY <1>1, <2>4 DEF Bound, vars
<1> QED  BY <1>10, <1>11, AnalysisKept DEF BInv

LEMMA UniteBInv ==
    ASSUME BInv, UNCHANGED vars, NEW v \in Block, NEW reg \in Reg, Unite(v, reg)
    PROVE  BInv'
<1> DEFINE reps == {representative(t) : t \in Group(v, reg)}
<1>1. PICK rep \in reps :
        /\ root' = [t \in block_temps |-> IF root[t] \in reps THEN rep ELSE root[t]]
        /\ is_param' = Flagged(is_param, reps, rep)
        /\ is_ret' = Flagged(is_ret, reps, rep)
    BY DEF Unite
<1>2. /\ forwarding_list' = [forwarding_list EXCEPT ![v] = @ \ Group(v, reg)]
      /\ UNCHANGED <<stage, unbound, block_temps, gtemp>> /\ stage = "unite"
    BY DEF Unite
<1>3. /\ \A t \in block_temps : IsBlockTemp(t)
      /\ is_param \subseteq block_temps /\ is_ret \subseteq block_temps
      /\ forwarding_list \in [Block -> SUBSET block_temps]
      /\ root \in [block_temps -> block_temps]
      /\ gtemp \in [DOMAIN gtemp -> block_temps]
      /\ unbound \subseteq Block
    BY DEF BInv, BindTypeOK
<1>4. rep \in block_temps
    <2>1. PICK t \in Group(v, reg) : rep = root[t]  BY DEF representative
    <2>2. t \in block_temps  BY <1>3, <2>1 DEF Group
    <2> QED  BY <1>3, <2>1, <2>2
<1> HIDE DEF reps
<1>5. root' \in [block_temps' -> block_temps']  BY <1>1, <1>2, <1>3, <1>4
<1>6. is_param' \subseteq block_temps' /\ is_ret' \subseteq block_temps'
    BY <1>1, <1>2, <1>3, <1>4 DEF Flagged
<1>7. forwarding_list' \in [Block -> SUBSET block_temps']  BY <1>2, <1>3
<1>8. BindTypeOK'
    BY <1>2, <1>3, <1>5, <1>6, <1>7, AnalysisKept DEF BindTypeOK
<1>9. Bound'
    <2>1. \A a : BoundTemps(a)' = BoundTemps(a)  BY AnalysisKept
    <2> QED  BY <1>2, <2>1 DEF BInv, Bound, vars
<1> QED  BY <1>8, <1>9, AnalysisKept DEF BInv

LEMMA StagesBInv ==
    ASSUME BInv, UNCHANGED vars, StartUnite \/ Collect
    PROVE  BInv'
<1>1. /\ UNCHANGED <<unbound, block_temps, is_param, is_ret, forwarding_list, root>>
      /\ unbound' = {} /\ stage' \in {"unite", "collected"}
    BY DEF StartUnite, Collect, BInv, Bound
<1>2. /\ gtemp' \in [DOMAIN gtemp' -> block_temps]
      /\ stage' = "collected" => DOMAIN gtemp' = block_temps
    <2>1. CASE StartUnite  BY <2>1 DEF StartUnite, BInv, BindTypeOK
    <2>2. CASE Collect
        <3>1. gtemp' = [t \in block_temps |-> root[t]]
            BY <2>2 DEF Collect, representative
        <3>2. root \in [block_temps -> block_temps]  BY DEF BInv, BindTypeOK
        <3> QED  BY <3>1, <3>2
    <2> QED  BY <2>1, <2>2
<1>3. BindTypeOK'  BY <1>1, <1>2, AnalysisKept DEF BInv, BindTypeOK
<1>4. Bound'
    <2>1. \A a : BoundTemps(a)' = BoundTemps(a)  BY AnalysisKept
    <2>2. unbound' = unbound  BY <1>1
    <2> QED  BY <1>1, <2>1, <2>2 DEF BInv, Bound, vars
<1> QED  BY <1>3, <1>4, AnalysisKept DEF BInv

LEMMA NextBInv == BInv /\ [BindNext]_allVars => BInv'
<1> SUFFICES ASSUME BInv, [BindNext]_allVars PROVE BInv'  OBVIOUS
<1>1. CASE Next /\ UNCHANGED bindVars  BY <1>1, AnalysisBInv
<1>2. ASSUME NEW b \in Block, pc = "done", UNCHANGED vars, ComputeBlockBinds(b)
      PROVE  BInv'
    BY <1>2, ComputeBlockBindsBInv
<1>3. ASSUME NEW v \in Block, NEW reg \in Reg, UNCHANGED vars, Unite(v, reg)
      PROVE  BInv'
    BY <1>3, UniteBInv
<1>4. CASE UNCHANGED vars /\ (StartUnite \/ Collect)  BY <1>4, StagesBInv
<1>5. CASE UNCHANGED allVars
    <2>1. UNCHANGED vars /\ UNCHANGED bindVars  BY <1>5 DEF allVars
    <2> QED  BY <2>1, AnalysisBInv
<1> QED  BY <1>1, <1>2, <1>3, <1>4, <1>5 DEF BindNext

-----------------------------------------------------------------------------
(* What follows from it *)

LEMMA TempsExtent ==
    ASSUME BInv, NEW t \in block_temps
    PROVE  pc = "done" /\ t.block \in Block /\ Extent(t, t.block)
<1>1. PICK b \in Block \ unbound : t \in BoundTemps(b)  BY DEF BInv, Bound
<1>2. pc = "done" /\ Analysed  BY <1>1 DEF BInv, Bound, Analysed
<1>3. Extent(t, b)  BY <1>1, <1>2, BoundTempsExtent DEF BInv
<1> QED  BY <1>1, <1>2, <1>3 DEF Extent

LEMMA BInvRegionsApart == BInv => RegionsApart
<1> SUFFICES ASSUME BInv, NEW s \in block_temps, NEW t \in block_temps,
                    s # t, s.block = t.block, s.reg = t.reg
             PROVE  s.hi < t.lo \/ t.hi < s.lo
    BY DEF RegionsApart
<1>1. /\ Extent(s, t.block) /\ Extent(t, t.block) /\ t.block \in Block /\ Analysed
      /\ IInv
    BY TempsExtent DEF BInv, Analysed
<1>2. s.hi \in Int /\ s.lo \in Int /\ t.hi \in Int /\ t.lo \in Int
    BY <1>1 DEF Extent, IsBlockTemp
<1> QED  BY <1>1, <1>2, ExtentsApart

\* Exactly one temporary where the register is live, and for a value nobody wants.
LEMMA OneTemp ==
    ASSUME BInv, Collected, NEW b \in Block, NEW k \in 1 .. Len(Code(b)),
           NEW r \in Reg \ AbiRegs, r \in Live(b, k) \/ r \in Def(Code(b)[k])
    PROVE  Cardinality(TempsAt(b, k, r)) = 1
<1> DEFINE C == {t \in block_temps : t.block = b /\ t.reg = r /\ t.lo <= k /\ k <= t.hi}
<1>1. /\ unbound = {} /\ pc = "done" /\ Analysed /\ IInv
      /\ gtemp \in [block_temps -> block_temps]
    BY DEF BInv, Bound, BindTypeOK, Collected, Analysed
<1>2. BoundTemps(b) \subseteq block_temps  BY <1>1 DEF BInv, Bound
<1>3. Len(Code(b)) \in Nat \ {0}  BY <1>1, SectionsType
<1>4. \E t \in C : TRUE
    <2>1. CASE r \in Live(b, k)  BY <1>1, <1>2, <2>1, LiveCovered
    <2>2. CASE r \notin Live(b, k)
        <3> DEFINE u == [block |-> b, reg |-> r, lo |-> k, hi |-> k]
        <3>1. <<r, k>> \in {x \in (Reg \ AbiRegs) \X (1 .. Len(Code(b))) :
                    x[1] \in Def(Code(b)[x[2]]) \ (live_in[b][x[2]] \cup live_out[b][x[2]])}
            BY <2>2 DEF Live
        <3>2. <<r, k>>[1] = r /\ <<r, k>>[2] = k  OBVIOUS
        <3>3. u \in UnusedTemps(b)  BY <3>1, <3>2 DEF UnusedTemps
        <3>4. u \in C  BY <1>2, <1>3, <3>3 DEF BoundTemps
        <3> QED  BY <3>4
    <2> QED  BY <2>1, <2>2
<1>5. PICK t \in C : TRUE  BY <1>4
<1>6. \A s \in C : s = t
    <2> SUFFICES ASSUME NEW s \in C, s # t PROVE FALSE  OBVIOUS
    <2>1. s.hi < t.lo \/ t.hi < s.lo  BY <1>5, BInvRegionsApart DEF RegionsApart
    <2>2. s.hi \in Int /\ s.lo \in Int /\ t.hi \in Int /\ t.lo \in Int
        BY <1>5, TempsExtent DEF Extent, IsBlockTemp
    <2> QED  BY <1>3, <1>5, <2>1, <2>2
<1>7. C = {t}  BY <1>5, <1>6
<1>8. TempsAt(b, k, r) = {gtemp[s] : s \in C}  BY DEF TempsAt
<1> HIDE DEF C
<1>9. TempsAt(b, k, r) = {gtemp[t]}  BY <1>7, <1>8
<1> QED  BY <1>9, FS_Singleton

LEMMA BInvOperandsBound == BInv => OperandsBound
<1> SUFFICES ASSUME BInv, Collected, NEW b \in Block, NEW k \in 1 .. Len(Code(b))
             PROVE  /\ \A r \in Def(Code(b)[k]) \ AbiRegs : Cardinality(TempsAt(b, k, r)) = 1
                    /\ \A r \in Use(Code(b)[k]) \ AbiRegs :
                          Cardinality(TempsAt(b, k, r)) = 1 \/ Destroyed(b, k, r)
    BY DEF OperandsBound
<1>1. pc = "done" /\ Analysed /\ IInv /\ Cleared
    BY DEF BInv, Bound, BindTypeOK, Collected, Analysed
<1>2. Code(b)[k] \in Inst  BY <1>1, CodeType DEF IInv, TypeOK
<1>3. Def(Code(b)[k]) \subseteq Reg /\ Use(Code(b)[k]) \subseteq Reg
    BY <1>2, RegSetAssumption DEF Def, Use, Inst
<1>4. \A r \in Def(Code(b)[k]) \ AbiRegs : Cardinality(TempsAt(b, k, r)) = 1
    BY <1>3, OneTemp
<1>5. ASSUME NEW r \in Use(Code(b)[k]) \ AbiRegs, ~Destroyed(b, k, r)
      PROVE  Cardinality(TempsAt(b, k, r)) = 1
    <2>1. r \in live_in[b][k]  BY <1>1, <1>5, ReadsLive
    <2> QED  BY <1>3, <2>1, OneTemp DEF Live
<1> QED  BY <1>4, <1>5

-----------------------------------------------------------------------------
(* The ends of a block *)

\* A value nobody wants is not live at its instruction.
LEMMA UnusedApart ==
    ASSUME NEW b \in Block, NEW t \in UnusedTemps(b)
    PROVE  t.lo = t.hi /\ t.reg \notin Live(b, t.lo)
<1>1. PICK r \in Reg \ AbiRegs, k \in 1 .. Len(Code(b)) :
        /\ t = [block |-> b, reg |-> r, lo |-> k, hi |-> k]
        /\ r \notin live_in[b][k] \cup live_out[b][k]
    BY DEF UnusedTemps
<1> QED  BY <1>1 DEF Live

\* The temporaries of the registers live at the end of a block are those that
\* reach its end.
LEMMA OpenIsEnd ==
    ASSUME IInv, Analysed, NEW b \in Block
    PROVE  Open(b) = {t \in BoundTemps(b) : t.hi = Len(Code(b)) /\ t.reg \in output[b]}
<1>1. Len(Code(b)) \in Nat \ {0} /\ live_out[b][Len(Code(b))] = output[b]
    BY SectionsType
<1>2. ASSUME NEW t \in Open(b)
      PROVE  t \in BoundTemps(b) /\ t.hi = Len(Code(b)) /\ t.reg \in output[b]
    BY DEF Open, Region, BoundTemps
<1>3. ASSUME NEW t \in BoundTemps(b), t.hi = Len(Code(b)), t.reg \in output[b]
      PROVE  t \in Open(b)
    <2>1. t \notin UnusedTemps(b)  BY <1>1, <1>3, UnusedApart DEF Live
    <2>2. t \notin Closed(b)
        <3> SUFFICES ASSUME t \in Closed(b) PROVE FALSE  OBVIOUS
        <3>1. PICK r \in Reg \ AbiRegs, k \in 1 .. Len(Code(b)) :
                t = Region(b, r, k) /\ r \notin live_out[b][k]
            BY DEF Closed
        <3> QED  BY <1>1, <1>3, <3>1 DEF Region
    <2> QED  BY <2>1, <2>2 DEF BoundTemps
<1> QED  BY <1>2, <1>3

\* Of the inputs of a block, the first temporary that ends is the one that begins
\* where the block does.
LEMMA FirstIsStart ==
    ASSUME IInv, Analysed, NEW b \in Block, NEW regs, regs \subseteq input[b]
    PROVE  FirstOf(b, regs) = {t \in BoundTemps(b) : t.lo = 1 /\ t.reg \in regs}
<1>1. Len(Code(b)) \in Nat \ {0} /\ 1 \in 1 .. Len(Code(b))  BY SectionsType
<1>2. live_in[b][1] = input[b]  BY DEF IInv, SectionsAgree
<1>3. ASSUME NEW t \in BoundTemps(b)
      PROVE  /\ Extent(t, b) /\ t.reg \in Reg \ AbiRegs
             /\ t.lo \in Nat /\ t.hi \in Nat /\ 1 <= t.lo /\ t.lo <= t.hi
    <2>1. Extent(t, b)  BY BoundTempsExtent
    <2>2. IsBlockTemp(t) /\ t.block = b  BY <2>1 DEF Extent
    <2>3. t.hi \in 1 .. Len(Code(b)) /\ t.lo \in 1 .. t.hi /\ t.reg \in Reg \ AbiRegs
        BY <2>2 DEF IsBlockTemp
    <2> QED  BY <1>1, <2>1, <2>3
<1>4. ASSUME NEW t \in BoundTemps(b), t.lo = 1, t.reg \in input[b]
      PROVE  t \in Closed(b) \cup Open(b)
    BY <1>2, <1>4, UnusedApart DEF Live, BoundTemps
<1>5. ASSUME NEW t \in FirstOf(b, regs)
      PROVE  t \in BoundTemps(b) /\ t.lo = 1 /\ t.reg \in regs
    <2>1. /\ t \in BoundTemps(b) /\ t.reg \in regs
          /\ \A s \in Closed(b) \cup Open(b) : s.reg = t.reg => t.hi <= s.hi
        BY DEF FirstOf, BoundTemps
    <2>2. t.reg \in Live(b, 1) \ AbiRegs  BY <1>2, <1>3, <2>1 DEF Live
    <2>3. PICK u \in BoundTemps(b) :
            u.block = b /\ u.reg = t.reg /\ u.lo <= 1 /\ 1 <= u.hi
        BY <1>1, <2>2, LiveCovered
    <2>4. u.lo = 1  BY <1>3, <2>3
    <2>5. t.hi <= u.hi  BY <1>4, <2>1, <2>3, <2>4
    <2>6. t = u
        <3>1. /\ Extent(t, b) /\ Extent(u, b) /\ t.hi >= u.lo /\ u.hi >= t.lo
            BY <1>3, <2>1, <2>4, <2>5
        <3> QED  BY <2>3, <3>1, ExtentsApart
    <2> QED  BY <2>1, <2>4, <2>6
<1>6. ASSUME NEW t \in BoundTemps(b), t.lo = 1, t.reg \in regs
      PROVE  t \in FirstOf(b, regs)
    <2>1. ASSUME NEW s \in Closed(b) \cup Open(b), s.reg = t.reg, ~(t.hi <= s.hi)
          PROVE  FALSE
        <3>1. s \in BoundTemps(b)  BY DEF BoundTemps
        <3>2. /\ Extent(s, b) /\ Extent(t, b) /\ s.hi >= t.lo /\ t.hi >= s.lo
            BY <1>3, <1>6, <2>1, <3>1
        <3>3. s = t  BY <2>1, <3>2, ExtentsApart
        <3> QED  BY <1>3, <2>1, <3>3
    <2> QED  BY <1>4, <1>6, <2>1 DEF FirstOf
<1> QED  BY <1>5, <1>6

\* What the lists are given is what meets the end of a block.
LEMMA PublishedMeets ==
    ASSUME IInv, Analysed, NEW b \in Block, NEW v \in Block
    PROVE  (IF v = b THEN Open(b) ELSE {})
                \cup (IF v \in Preds(b) THEN FirstOf(b, input[b]) ELSE {})
            = {t \in BoundTemps(b) : MeetsEndOf(v, t)}
<1>1. \A t \in BoundTemps(b) : t.block = b  BY BoundTempsExtent DEF Extent
<1>2. live_out[b][Len(Code(b))] = output[b] /\ live_in[b][1] = input[b]
    BY SectionsType DEF IInv, SectionsAgree
<1>3. ASSUME NEW t \in BoundTemps(b)
      PROVE  MeetsEndOf(v, t) <=> \/ v = b /\ t \in Open(b)
                                  \/ v \in Preds(b) /\ t \in FirstOf(b, input[b])
    BY <1>1, <1>2, OpenIsEnd, FirstIsStart DEF MeetsEndOf
<1>4. Open(b) \subseteq BoundTemps(b) /\ FirstOf(b, input[b]) \subseteq BoundTemps(b)
    BY DEF BoundTemps, FirstOf
<1> QED  BY <1>3, <1>4

-----------------------------------------------------------------------------
(* Chains of block ends *)

\* What t is connected to: itself, what touches that, and nothing that a set closed
\* under touching leaves out.
LEMMA ConnectedLeast ==
    ASSUME NEW t \in block_temps
    PROVE  /\ t \in Connected(t)
           /\ \A s \in Connected(t) : s \in block_temps /\ s.reg = t.reg
           /\ \A s \in Connected(t), u \in block_temps : Touching(s, u) => u \in Connected(t)
           /\ \A S \in SUBSET block_temps :
                (t \in S /\ \A s \in S, u \in block_temps : Touching(s, u) => u \in S)
                    => Connected(t) \subseteq S
<1> DEFINE same == {s \in block_temps : s.reg = t.reg}
           along == {e \in same \X same : Touching(e[1], e[2])}
<1>1. Connected(t) = Reached(same, {t}, along)  BY DEF Connected
<1>2. {t} \subseteq same /\ along \subseteq same \X same  OBVIOUS
<1>3. \A s, u \in same : <<s, u>> \in along <=> Touching(s, u)  OBVIOUS
<1>4. \A s \in same : s \in block_temps /\ s.reg = t.reg  OBVIOUS
<1>5. \A s \in block_temps : s.reg = t.reg => s \in same  OBVIOUS
<1> HIDE DEF same, along
<1>6. /\ Connected(t) \subseteq same /\ {t} \subseteq Connected(t)
      /\ \A s, u \in same : s \in Connected(t) /\ <<s, u>> \in along => u \in Connected(t)
      /\ \A S \in SUBSET same :
            ({t} \subseteq S /\ \A s, u \in same : <<s, u>> \in along /\ s \in S => u \in S)
                => Connected(t) \subseteq S
    BY <1>1, <1>2, ReachedLeast
<1>7. ASSUME NEW s \in Connected(t), NEW u \in block_temps, Touching(s, u)
      PROVE  u \in Connected(t)
    BY <1>3, <1>4, <1>5, <1>6, <1>7 DEF Touching
<1>8. ASSUME NEW S \in SUBSET block_temps, t \in S,
             \A s \in S, u \in block_temps : Touching(s, u) => u \in S
      PROVE  Connected(t) \subseteq S
    <2> DEFINE R == S \cap same
    <2>1. R \in SUBSET same /\ {t} \subseteq R  BY <1>2, <1>8
    <2>2. \A s, u \in same : <<s, u>> \in along /\ s \in R => u \in R
        BY <1>3, <1>4, <1>8
    <2>3. R \subseteq S  OBVIOUS
    <2> HIDE DEF R
    <2> QED  BY <1>6, <2>1, <2>2, <2>3
<1> QED  BY <1>4, <1>6, <1>7, <1>8

\* It is an equivalence.
LEMMA ConnectedSame ==
    ASSUME NEW t \in block_temps, NEW s \in Connected(t)
    PROVE  s \in block_temps /\ Connected(s) = Connected(t)
<1>1. \A x, y : Touching(x, y) => Touching(y, x)  BY DEF Touching
<1>2. ASSUME NEW x \in block_temps, NEW y \in Connected(x)
      PROVE  y \in block_temps /\ Connected(y) \subseteq Connected(x)
    <2>1. y \in block_temps /\ Connected(x) \in SUBSET block_temps  BY ConnectedLeast
    <2> QED  BY <2>1, ConnectedLeast
<1>3. t \in Connected(s)
    <2> DEFINE S == {x \in block_temps : t \in Connected(x)}
    <2>1. S \in SUBSET block_temps /\ t \in S  BY ConnectedLeast
    <2>2. ASSUME NEW x \in S, NEW u \in block_temps, Touching(x, u)
          PROVE  u \in S
        <3>1. x \in block_temps /\ t \in Connected(x)  OBVIOUS
        <3>2. u \in Connected(u)  BY ConnectedLeast
        <3>3. x \in Connected(u)  BY <1>1, <2>2, <3>1, <3>2, ConnectedLeast
        <3>4. t \in Connected(u)  BY <1>2, <3>1, <3>3
        <3> QED  BY <3>4
    <2> HIDE DEF S
    <2>3. Connected(t) \subseteq S  BY <2>1, <2>2, ConnectedLeast
    <2> QED  BY <2>3 DEF S
<1> QED  BY <1>2, <1>3

-----------------------------------------------------------------------------
(* Where a value stays live *)

\* One temporary covers all of a stretch where its register is live throughout.
LEMMA Span ==
    ASSUME IInv, Analysed, NEW b \in Block, NEW hi \in 1 .. Len(Code(b)),
           NEW lo \in 1 .. hi, NEW r \in Live(b, hi) \ AbiRegs,
           \A j \in lo .. hi - 1 : r \in live_out[b][j]
    PROVE  \E t \in BoundTemps(b) :
                t.block = b /\ t.reg = r /\ t.lo <= lo /\ hi <= t.hi
<1>1. PICK t \in BoundTemps(b) : t.block = b /\ t.reg = r /\ t.lo <= hi /\ hi <= t.hi
    BY LiveCovered
<1>2. Extent(t, b)  BY BoundTempsExtent
<1>3. /\ t.lo \in Nat /\ lo \in Nat /\ hi \in Nat /\ 1 <= lo
      /\ hi <= Len(Code(b)) /\ Len(Code(b)) \in Nat
    BY <1>2, SectionsType DEF Extent, IsBlockTemp
<1>4. ~(t.lo > lo)
    <2> SUFFICES ASSUME t.lo > lo PROVE FALSE  OBVIOUS
    <2>1. t.lo - 1 \in lo .. hi - 1 /\ t.lo - 1 \in 1 .. Len(Code(b)) - 1
          /\ t.lo # 1 /\ (t.lo - 1) + 1 = t.lo
        BY <1>1, <1>3
    <2>2. live_in[b][(t.lo - 1) + 1] = live_out[b][t.lo - 1]  BY <2>1, SectionsType
    <2> QED  BY <1>1, <1>2, <2>1, <2>2 DEF Extent
<1> QED  BY <1>1, <1>3, <1>4

\* Nothing is cleared on the way to an instruction that reads it.
LEMMA KeptUntilUsed ==
    ASSUME NEW c, NEW g, NEW n \in Nat, Len(c) = n, NEW k \in 1 .. n, NEW m \in k .. n,
           NEW r \in Use(c[m]), \A j \in k .. m - 1 : r \notin Def(c[j])
    PROVE  r \notin Unused(c, g, k)
<1>1. r \in MayUse(c[m])  BY DEF MayUse
<1>2. ASSUME NEW j \in k .. n, r \in Def(c[j]), \A i \in k .. j : r \notin MayUse(c[i])
      PROVE  FALSE
    <2>1. j \in k .. m - 1 \/ m \in k .. j  OBVIOUS
    <2> QED  BY <1>1, <1>2, <2>1
<1> QED  BY <1>1, <1>2 DEF Unused

\* Nor is what the block leaves behind and does not set again.
LEMMA KeptToTheEnd ==
    ASSUME NEW c, NEW g, NEW k, NEW r, r \notin g,
           \A j \in k .. Len(c) : r \notin Def(c[j])
    PROVE  r \notin Unused(c, g, k)
BY DEF Unused

\* A register the first instructions leave alone is live after them if the block
\* uses it first.
LEMMA InputLive ==
    ASSUME NEW c \in Seq(Inst), NEW k \in 0 .. Len(c), NEW r \in Inputs(c),
           \A j \in 1 .. k : r \notin Kill(c[j])
    PROVE  r \in LiveAfter(c, k)
<1>1. CASE \E i \in 1 .. k : r \in Use(c[i])
    <2>1. PICK i \in 1 .. k : r \in Use(c[i])  BY <1>1
    <2>2. \A j \in i .. k : r \notin Kill(c[j])  OBVIOUS
    <2>3. r \in Held(c, k)  BY <2>1, <2>2 DEF Held, Inputs
    <2> QED  BY <2>3 DEF LiveAfter
<1>2. CASE \A i \in 1 .. k : r \notin Use(c[i])  BY <1>2 DEF LiveAfter, Pending
<1> QED  BY <1>1, <1>2

\* The sections of a block, after and before an instruction, before the clearing
\* and what it took away.
LEMMA SectionAfter ==
    ASSUME IInv, Cleared, Analysed, NEW b \in Block, NEW j \in 1 .. Len(Code(b)) - 1
    PROVE  live_out[b][j] = (LiveAfter(Code(b), j) \cup Passed(b))
                                \ Unused(Code(b), guess_out[b], j + 1)
<1>1. Len(Code(b)) \in Nat \ {0}  BY SectionsType
<1>2. j + 1 \in 1 .. Len(Code(b)) /\ (j + 1) - 1 = j  BY <1>1
<1>3. live_in[b][j + 1] = live_out[b][j]  BY SectionsType
<1>4. \A k \in 1 .. Len(Code(b)) :
        live_in[b][k] = (LiveAfter(Code(b), k - 1) \cup Passed(b))
                            \ Unused(Code(b), guess_out[b], k)
    BY DEF Cleared
<1>5. live_in[b][j + 1] = (LiveAfter(Code(b), (j + 1) - 1) \cup Passed(b))
                            \ Unused(Code(b), guess_out[b], j + 1)
    BY <1>2, <1>4, Zenon
<1> QED  BY <1>2, <1>3, <1>5

\* A value is held from the instruction that computes it on.
LEMMA SetIsHeld ==
    ASSUME NEW c \in Seq(Inst), NEW k \in 1 .. Len(c), NEW j \in k .. Len(c),
           NEW r \in Def(c[k]), \A i \in k + 1 .. j : r \notin Kill(c[i])
    PROVE  r \in LiveAfter(c, j)
<1>1. c[k] \in Inst  OBVIOUS
<1>2. r \in Reg /\ r \notin Kill(c[k])  BY <1>1, KillApart, RegSetAssumption DEF Def, Inst
<1>3. k .. j = {k} \cup (k + 1 .. j) /\ k \in 1 .. j  OBVIOUS
<1>4. \A i \in k .. j : r \notin Kill(c[i])  BY <1>2, <1>3, Zenon
<1>5. r \in Held(c, j)  BY <1>2, <1>3, <1>4 DEF Held
<1> QED  BY <1>5 DEF LiveAfter

\* Live from where it is computed to where the same block reads it.
LEMMA LiveUntilUse ==
    ASSUME IInv, Cleared, Analysed, NEW b \in Block, NEW k \in 1 .. Len(Code(b)),
           NEW m \in k + 1 .. Len(Code(b)), NEW r \in Def(Code(b)[k]),
           r \in Use(Code(b)[m]), Unchanged(b, k + 1 .. m - 1, r)
    PROVE  \A j \in k .. m - 1 : r \in live_out[b][j]
<1> DEFINE c == Code(b)
<1>1. c \in Seq(Inst) /\ Len(c) \in Nat \ {0}  BY CodeType DEF IInv, TypeOK
<1> SUFFICES ASSUME NEW j \in k .. m - 1 PROVE r \in live_out[b][j]  OBVIOUS
<1>2. /\ j \in 1 .. Len(c) - 1 /\ j \in k .. Len(c) /\ j + 1 \in 1 .. Len(c)
      /\ m \in j + 1 .. Len(c)
    BY <1>1
<1>3. \A i \in k + 1 .. m - 1 : r \notin Kill(c[i]) \cup Def(c[i])  BY DEF Unchanged
<1>4. r \in LiveAfter(c, j)
    <2>1. \A i \in k + 1 .. j : r \notin Kill(c[i])  BY <1>1, <1>3
    <2> QED  BY <1>1, <1>2, <2>1, SetIsHeld
<1>5. r \notin Unused(c, guess_out[b], j + 1)
    <2>1. \A i \in j + 1 .. m - 1 : r \notin Def(c[i])  BY <1>1, <1>3
    <2> HIDE DEF c
    <2> QED  BY <1>1, <1>2, <2>1, KeptUntilUsed DEF c
<1> QED  BY <1>2, <1>4, <1>5, SectionAfter

\* Live from the start of the block that reads it before it is set again.
LEMMA LiveFromStart ==
    ASSUME IInv, Cleared, Analysed, NEW d \in Block, NEW m \in 1 .. Len(Code(d)),
           NEW r \in Use(Code(d)[m]), Unchanged(d, 1 .. m - 1, r)
    PROVE  /\ r \in Inputs(Code(d)) /\ r \in live_in[d][m]
           /\ \A j \in 1 .. m - 1 : r \in live_out[d][j]
<1> DEFINE c == Code(d)
<1>1. c \in Seq(Inst) /\ Len(c) \in Nat \ {0}  BY CodeType DEF IInv, TypeOK
<1>2. c[m] \in Inst  BY <1>1
<1>3. r \in Reg /\ r \notin Kill(c[m]) \cup Def(c[m])
    BY <1>2, UseApart DEF Use, Inst
<1>4. \A i \in 1 .. m - 1 : r \notin Kill(c[i]) \cup Def(c[i])  BY DEF Unchanged
<1>5. \A i \in 1 .. m : r \notin Kill(c[i]) \cup Def(c[i])
    <2>1. 1 .. m = (1 .. m - 1) \cup {m}  OBVIOUS
    <2> QED  BY <1>3, <1>4, <2>1, Zenon
<1>6. r \in Inputs(c)  BY <1>3, <1>5 DEF Inputs
<1>7. ASSUME NEW j \in 1 .. m
      PROVE  r \in (LiveAfter(c, j - 1) \cup Passed(d)) \ Unused(c, guess_out[d], j)
    <2>1. j - 1 \in 0 .. Len(c) /\ j \in 1 .. Len(c) /\ m \in j .. Len(c)  BY <1>1
    <2>2. \A i \in 1 .. j - 1 : r \notin Kill(c[i])  BY <1>4
    <2>3. \A i \in j .. m - 1 : r \notin Def(c[i])  BY <1>4
    <2> HIDE DEF c
    <2>4. r \in LiveAfter(c, j - 1)  BY <1>1, <1>6, <2>1, <2>2, InputLive
    <2>5. r \notin Unused(c, guess_out[d], j)
        BY <1>1, <2>1, <2>3, KeptUntilUsed DEF c
    <2> QED  BY <2>4, <2>5
<1>8. r \in live_in[d][m]
    <2>1. m \in 1 .. m  BY <1>1
    <2>2. r \in (LiveAfter(c, m - 1) \cup Passed(d)) \ Unused(c, guess_out[d], m)
        BY <1>7, <2>1, Zenon
    <2> QED  BY <2>2 DEF Cleared
<1>9. ASSUME NEW j \in 1 .. m - 1
      PROVE  r \in live_out[d][j]
    <2>1. j \in 1 .. Len(c) - 1 /\ j + 1 \in 1 .. m /\ (j + 1) - 1 = j  BY <1>1
    <2>2. r \in (LiveAfter(c, (j + 1) - 1) \cup Passed(d)) \ Unused(c, guess_out[d], j + 1)
        BY <1>7, <2>1, Zenon
    <2> QED  BY <2>1, <2>2, SectionAfter
<1> QED  BY <1>6, <1>8, <1>9

\* Live from where it is computed to the end of the block, if it is wanted there.
LEMMA LiveToEnd ==
    ASSUME IInv, Cleared, Analysed, NEW b \in Block, NEW k \in 1 .. Len(Code(b)),
           NEW r \in Def(Code(b)[k]), Unchanged(b, k + 1 .. Len(Code(b)), r)
    PROVE  /\ r \in Outputs(Code(b))
           /\ r \in output[b] => \A j \in k .. Len(Code(b)) : r \in live_out[b][j]
<1> DEFINE c == Code(b)
<1>1. c \in Seq(Inst) /\ Len(c) \in Nat \ {0} /\ live_out[b][Len(c)] = output[b]
    BY CodeType, SectionsType DEF IInv, TypeOK
<1>2. c[k] \in Inst  BY <1>1
<1>3. r \in Reg  BY <1>2, RegSetAssumption DEF Def, Inst
<1>4. \A i \in k + 1 .. Len(c) : r \notin Kill(c[i]) \cup Def(c[i])  BY DEF Unchanged
<1>5. r \in Outputs(c)  BY <1>3, <1>4 DEF Outputs
<1>6. ASSUME r \in output[b], NEW j \in k .. Len(c), j # Len(c)
      PROVE  r \in live_out[b][j]
    <2>1. j \in 1 .. Len(c) - 1  BY <1>1, <1>6
    <2>2. \A i \in k + 1 .. j : r \notin Kill(c[i])  BY <1>1, <1>4
    <2>3. r \in LiveAfter(c, j)  BY <1>1, <2>2, SetIsHeld
    <2>4. r \notin guess_out[b]  BY <1>6 DEF IInv, Summary, Analysed
    <2>5. \A i \in j + 1 .. Len(c) : r \notin Def(c[i])  BY <1>1, <1>4
    <2>6. r \notin Unused(c, guess_out[b], j + 1)  BY <2>4, <2>5, KeptToTheEnd
    <2> QED  BY <2>1, <2>3, <2>6, SectionAfter
<1> QED  BY <1>1, <1>5, <1>6

\* Live all through a block that leaves it alone, if it is wanted at both ends.
LEMMA LiveThrough ==
    ASSUME IInv, Cleared, Analysed, NEW b \in Block, NEW r \in input[b] \cap output[b],
           r \notin Overwrites(Code(b))
    PROVE  \A j \in 1 .. Len(Code(b)) : r \in live_out[b][j]
<1> DEFINE c == Code(b)
<1>1. c \in Seq(Inst) /\ Len(c) \in Nat \ {0} /\ live_out[b][Len(c)] = output[b]
    BY CodeType, SectionsType DEF IInv, TypeOK
<1>2. \A i \in 1 .. Len(c) : r \notin Kill(c[i]) \cup Def(c[i])  BY DEF Overwrites
<1>3. r \notin guess_out[b]  BY DEF IInv, Summary, Analysed
<1>4. ASSUME NEW j \in 1 .. Len(c), j # Len(c)
      PROVE  r \in live_out[b][j]
    <2>1. j \in 1 .. Len(c) - 1 /\ j \in 0 .. Len(c) /\ j + 1 \in 1 .. Len(c) + 1
        BY <1>1, <1>4
    <2>2. r \in LiveAfter(c, j) \cup Passed(b)
        <3>1. \A i \in 1 .. j : r \notin Kill(c[i])  BY <1>1, <1>2
        <3>2. r \in Inputs(c) => r \in LiveAfter(c, j)  BY <1>1, <2>1, <3>1, InputLive
        <3> QED  BY <3>2 DEF Passed
    <2>3. r \notin Unused(c, guess_out[b], j + 1)
        BY <1>1, <1>3, <2>1, UntouchedKept
    <2> QED  BY <2>1, <2>2, <2>3, SectionAfter
<1> QED  BY <1>1, <1>4
-----------------------------------------------------------------------------
(* The invariant of the unions *)

\* The temporaries that take their flags from the summary of their block.
ParamStarts == {t \in block_temps : t.lo = 1 /\ t.reg \in routine_inputs[t.block]}
ReturnEnds == {t \in block_temps : /\ IsExit(t.block) /\ t.reg \in ReturnSet
                                   /\ t.hi = Len(Code(t.block))
                                   /\ t.reg \in output[t.block]}

\* Only inputs of a block are parameters found there.
ParamsAreInputs == \A b \in Block : routine_inputs[b] \subseteq input[b]

\* Before the unions a list holds what meets the end of its block.
NothingUnited ==
    stage = "blocks" =>
        /\ \A v \in Block : forwarding_list[v] = {t \in block_temps : MeetsEndOf(v, t)}
        /\ \A t \in block_temps : root[t] = t
        /\ is_param = ParamStarts /\ is_ret = ReturnEnds

\* Those that meet the end of a block leave its list together, and are then united.
ListsShrink ==
    stage # "blocks" => \A v \in Block :
        /\ forwarding_list[v] \subseteq {t \in block_temps : MeetsEndOf(v, t)}
        /\ \A s, t \in block_temps :
              s.reg = t.reg /\ MeetsEndOf(v, s) /\ MeetsEndOf(v, t) =>
                  /\ s \in forwarding_list[v] <=> t \in forwarding_list[v]
                  /\ s \in forwarding_list[v] \/ root[s] = root[t]

\* No union goes beyond what block ends connect.
RootsConnected == stage # "blocks" => \A t \in block_temps : root[t] \in Connected(t)

\* A flag is never lost and never made up.
Fits(flag, given) ==
    /\ \A s \in given : root[s] \in flag
    /\ \A t \in flag : Connected(t) \cap given # {}

FlagsFit == stage # "blocks" => Fits(is_param, ParamStarts) /\ Fits(is_ret, ReturnEnds)

AllUnited ==
    stage = "collected" => /\ \A v \in Block : forwarding_list[v] = {}
                           /\ \A t \in block_temps : gtemp[t] = root[t]

VInv == /\ ParamsAreInputs /\ NothingUnited /\ ListsShrink /\ RootsConnected
        /\ FlagsFit /\ AllUnited

\* What the invariant speaks of is what the unions leave alone.
LEMMA SameBlockTemps ==
    ASSUME UNCHANGED vars, UNCHANGED block_temps
    PROVE  /\ \A v, t : MeetsEndOf(v, t)' = MeetsEndOf(v, t)
           /\ \A t : Connected(t)' = Connected(t)
           /\ ParamStarts' = ParamStarts /\ ReturnEnds' = ReturnEnds
<1>1. \A v, t : MeetsEndOf(v, t)' = MeetsEndOf(v, t)
    BY DEF vars, MeetsEndOf, Code, Preds, Succs
<1>2. \A s, t : Touching(s, t)' = Touching(s, t)  BY <1>1 DEF Touching
<1>3. \A t : Connected(t)' = Connected(t)  BY <1>2 DEF Connected, Reached
<1>4. ParamStarts' = ParamStarts /\ ReturnEnds' = ReturnEnds
    BY DEF vars, ParamStarts, ReturnEnds, IsExit, Succs, Code
<1> QED  BY <1>1, <1>3, <1>4

LEMMA InitVInv == BindInit => VInv
<1> SUFFICES ASSUME BindInit PROVE VInv  OBVIOUS
<1>1. /\ stage = "blocks" /\ block_temps = {} /\ is_param = {} /\ is_ret = {}
      /\ forwarding_list = [v \in Block |-> {}] /\ routine_inputs = Empty
    BY DEF BindInit, Init, Fresh, Unbound
<1>2. ParamsAreInputs  BY <1>1 DEF ParamsAreInputs, Empty
<1>3. NothingUnited  BY <1>1 DEF NothingUnited, ParamStarts, ReturnEnds
<1> QED  BY <1>1, <1>2, <1>3
         DEF VInv, ListsShrink, RootsConnected, FlagsFit, AllUnited

\* Parameters are found among the inputs and inputs are kept.
LEMMA NextParamsAreInputs ==
    ASSUME IInv, FixInv, ParamsAreInputs, [Next]_vars
    PROVE  ParamsAreInputs'
<1>1. CASE FindRoutineParams
    <2>1. routine_inputs = Empty /\ input' = input
        BY <1>1 DEF FindRoutineParams, FixInv, ParamsFound, summary
    <2>2. \A b \in Block : routine_inputs'[b] = FoundParams(b)
        BY <1>1, <2>1 DEF FindRoutineParams, Empty
    <2> QED  BY <2>1, <2>2 DEF ParamsAreInputs, FoundParams
<1>2. CASE ~FindRoutineParams
    <2>1. routine_inputs' = routine_inputs /\ (pc' # "done" \/ input' = input)
        BY <1>2 DEF Next, EvalLivenessLocal, PropagateGuesses, BackpropagateOutputs,
                    EndSweep, ClearUnusedSections, vars, summary
    <2>2. ParamsFound'  BY NextFixInv DEF FixInv
    <2>3. CASE pc' # "done"  BY <2>2, <2>3 DEF ParamsFound, ParamsAreInputs, Empty
    <2>4. CASE input' = input  BY <2>1, <2>4 DEF ParamsAreInputs
    <2> QED  BY <2>1, <2>3, <2>4
<1> QED  BY <1>1, <1>2

\* The analysis has no temporaries yet to do anything to.
LEMMA AnalysisVInv ==
    ASSUME BInv, FixInv, VInv, [Next]_vars, UNCHANGED bindVars
    PROVE  VInv'
<1>1. ParamsAreInputs'  BY NextParamsAreInputs DEF BInv, VInv
<1>2. CASE UNCHANGED vars
    <2>1. NothingUnited'  BY <1>2, SameBlockTemps DEF bindVars, VInv, NothingUnited
    <2>2. ListsShrink'  BY <1>2, SameBlockTemps DEF bindVars, VInv, ListsShrink
    <2>3. RootsConnected' /\ FlagsFit'
        BY <1>2, SameBlockTemps DEF bindVars, VInv, RootsConnected, FlagsFit, Fits
    <2>4. AllUnited'  BY DEF bindVars, VInv, AllUnited
    <2> QED  BY <1>1, <2>1, <2>2, <2>3, <2>4 DEF VInv
<1>3. CASE ~UNCHANGED vars
    <2>1. pc # "done"
        BY <1>3 DEF Next, EvalLivenessLocal, PropagateGuesses, EndSweep,
                    BackpropagateOutputs, ClearUnusedSections, FindRoutineParams
    <2>2. unbound = Block /\ block_temps = {} /\ (stage # "blocks" => Block = {})
        BY <2>1 DEF BInv, Bound
    <2>3. stage = "blocks"
        <3>1. routine.entry \in Block  BY DEF BInv, IInv, TypeOK, IsRoutine
        <3> QED  BY <2>2, <3>1
    <2>4. /\ forwarding_list = [v \in Block |-> {}] /\ is_param = {} /\ is_ret = {}
        <3>1. /\ forwarding_list \in [Block -> SUBSET block_temps]
              /\ is_param \subseteq block_temps /\ is_ret \subseteq block_temps
            BY DEF BInv, BindTypeOK
        <3> QED  BY <2>2, <3>1
    <2>5. NothingUnited'
        BY <2>2, <2>4 DEF bindVars, NothingUnited, ParamStarts, ReturnEnds
    <2> QED  BY <1>1, <2>3, <2>5
             DEF bindVars, VInv, ListsShrink, RootsConnected, FlagsFit, AllUnited
<1> QED  BY <1>2, <1>3

LEMMA ComputeBlockBindsVInv ==
    ASSUME BInv, VInv, pc = "done", UNCHANGED vars, NEW b \in Block, ComputeBlockBinds(b)
    PROVE  VInv'
<1> DEFINE new == BoundTemps(b)
<1>1. /\ stage = "blocks" /\ stage' = "blocks"
      /\ block_temps' = block_temps \cup new
      /\ root' = [t \in block_temps \cup new |-> IF t \in new THEN t ELSE root[t]]
      /\ is_param' = is_param \cup FirstOf(b, routine_inputs[b])
      /\ is_ret' = is_ret \cup {t \in Open(b) : IsExit(b) /\ t.reg \in ReturnSet}
      /\ forwarding_list' = Published(b)
    BY DEF ComputeBlockBinds, BoundTemps
<1>2. IInv /\ Analysed  BY DEF BInv, Analysed
<1>3. \A t \in new : t.block = b  BY <1>2, BoundTempsExtent DEF Extent
<1>4. ParamsAreInputs'  BY DEF VInv, ParamsAreInputs, vars
<1>5. /\ \A v \in Block : forwarding_list[v] = {t \in block_temps : MeetsEndOf(v, t)}
      /\ \A t \in block_temps : root[t] = t
      /\ is_param = ParamStarts /\ is_ret = ReturnEnds
    BY <1>1 DEF VInv, NothingUnited
<1>6. /\ \A v, t : MeetsEndOf(v, t)' = MeetsEndOf(v, t)
      /\ ParamStarts' = {t \in block_temps' : t.lo = 1 /\ t.reg \in routine_inputs[t.block]}
      /\ ReturnEnds' = {t \in block_temps' : /\ IsExit(t.block) /\ t.reg \in ReturnSet
                                             /\ t.hi = Len(Code(t.block))
                                             /\ t.reg \in output[t.block]}
    BY DEF vars, MeetsEndOf, Code, Preds, Succs, ParamStarts, ReturnEnds, IsExit
<1>7. FirstOf(b, routine_inputs[b]) = {t \in new : t.lo = 1 /\ t.reg \in routine_inputs[b]}
    BY <1>2, FirstIsStart DEF VInv, ParamsAreInputs
<1>8. Open(b) = {t \in new : t.hi = Len(Code(b)) /\ t.reg \in output[b]}
    BY <1>2, OpenIsEnd
<1>9. ASSUME NEW v \in Block
      PROVE  forwarding_list'[v] = {t \in block_temps' : MeetsEndOf(v, t)'}
    <2>1. forwarding_list'[v] = forwarding_list[v] \cup {t \in new : MeetsEndOf(v, t)}
        BY <1>1, <1>2, PublishedMeets DEF Published
    <2> HIDE DEF new
    <2> QED  BY <1>1, <1>5, <1>6, <2>1
<1>10. \A t \in block_temps' : root'[t] = t  BY <1>1, <1>5
<1>11. is_param' = ParamStarts'
    <2> HIDE DEF new
    <2> QED  BY <1>1, <1>3, <1>5, <1>6, <1>7 DEF ParamStarts
<1>12. is_ret' = ReturnEnds'
    <2> HIDE DEF new
    <2> QED  BY <1>1, <1>3, <1>5, <1>6, <1>8 DEF ReturnEnds
<1>13. NothingUnited'  BY <1>9, <1>10, <1>11, <1>12 DEF NothingUnited
<1> QED  BY <1>1, <1>4, <1>13
         DEF VInv, ListsShrink, RootsConnected, FlagsFit, AllUnited

\* Before the first union nothing is wrong with roots, lists and flags.
LEMMA StartUniteVInv ==
    ASSUME BInv, VInv, UNCHANGED vars, StartUnite
    PROVE  VInv'
<1>1. /\ stage = "blocks" /\ stage' = "unite"
      /\ UNCHANGED <<unbound, block_temps, is_param, is_ret, forwarding_list, root, gtemp>>
    BY DEF StartUnite
<1>2. /\ \A v \in Block : forwarding_list[v] = {t \in block_temps : MeetsEndOf(v, t)}
      /\ \A t \in block_temps : root[t] = t
      /\ is_param = ParamStarts /\ is_ret = ReturnEnds
    BY <1>1 DEF VInv, NothingUnited
<1>3. ParamsAreInputs'  BY DEF VInv, ParamsAreInputs, vars
<1>4. ListsShrink'  BY <1>1, <1>2, SameBlockTemps DEF ListsShrink
<1>5. RootsConnected'  BY <1>1, <1>2, SameBlockTemps, ConnectedLeast DEF RootsConnected
<1>6. FlagsFit'
    <2>1. ParamStarts \subseteq block_temps /\ ReturnEnds \subseteq block_temps
        BY DEF ParamStarts, ReturnEnds
    <2>2. ASSUME NEW flag \in SUBSET block_temps
          PROVE  Fits(flag, flag)
        BY <1>2, ConnectedLeast DEF Fits
    <2>3. Fits(is_param, ParamStarts) /\ Fits(is_ret, ReturnEnds)  BY <1>2, <2>1, <2>2
    <2> QED  BY <1>1, <2>3, SameBlockTemps DEF FlagsFit, Fits
<1> QED  BY <1>1, <1>3, <1>4, <1>5, <1>6 DEF VInv, NothingUnited, AllUnited

LEMMA CollectVInv ==
    ASSUME BInv, VInv, UNCHANGED vars, Collect
    PROVE  VInv'
<1>1. /\ stage = "unite" /\ stage' = "collected"
      /\ UNCHANGED <<unbound, block_temps, is_param, is_ret, forwarding_list, root>>
      /\ \A v \in Block : forwarding_list[v] = {}
      /\ gtemp' = [t \in block_temps |-> root[t]]
    BY DEF Collect, representative
<1>2. ParamsAreInputs'  BY DEF VInv, ParamsAreInputs, vars
<1>3. ListsShrink'  BY <1>1, SameBlockTemps DEF VInv, ListsShrink
<1>4. RootsConnected' /\ FlagsFit'
    BY <1>1, SameBlockTemps DEF VInv, RootsConnected, FlagsFit, Fits
<1> QED  BY <1>1, <1>2, <1>3, <1>4 DEF VInv, NothingUnited, AllUnited

LEMMA UniteVInv ==
    ASSUME BInv, VInv, UNCHANGED vars, NEW v \in Block, NEW reg \in Reg, Unite(v, reg)
    PROVE  VInv'
<1> DEFINE G == Group(v, reg)
           reps == {representative(t) : t \in G}
<1>1. PICK rep \in reps :
        /\ root' = [t \in block_temps |-> IF root[t] \in reps THEN rep ELSE root[t]]
        /\ is_param' = Flagged(is_param, reps, rep)
        /\ is_ret' = Flagged(is_ret, reps, rep)
    BY DEF Unite
<1>2. /\ forwarding_list' = [forwarding_list EXCEPT ![v] = @ \ G]
      /\ UNCHANGED <<stage, unbound, block_temps, gtemp>> /\ stage = "unite"
    BY DEF Unite
<1>3. /\ forwarding_list \in [Block -> SUBSET block_temps]
      /\ root \in [block_temps -> block_temps]
      /\ is_param \subseteq block_temps /\ is_ret \subseteq block_temps
    BY DEF BInv, BindTypeOK
<1>4. \A t \in G : t \in block_temps /\ t \in forwarding_list[v] /\ t.reg = reg
                   /\ MeetsEndOf(v, t) /\ root[t] \in reps
    BY <1>2, <1>3 DEF Group, representative, VInv, ListsShrink
<1>5. \A x \in reps : \E t \in G : x = root[t]  BY DEF representative
<1>6. \A t \in forwarding_list[v] : t.reg = reg => t \in G  BY DEF Group
<1> HIDE DEF G, reps
<1>7. \A t \in block_temps : Connected(root[t]) = Connected(t) /\ root[t] \in block_temps
    BY <1>2, <1>3, ConnectedSame DEF VInv, RootsConnected
<1>8. ASSUME NEW x \in reps
      PROVE  rep \in Connected(x) /\ x \in block_temps /\ Connected(rep) = Connected(x)
    <2>1. PICK s \in G : x = root[s]  BY <1>5
    <2>2. PICK t \in G : rep = root[t]  BY <1>1, <1>5
    <2>3. Touching(s, t)  BY <1>4 DEF Touching
    <2>4. t \in Connected(s)  BY <1>4, <2>3, ConnectedLeast
    <2>5. Connected(t) = Connected(s)  BY <1>4, <2>4, ConnectedSame
    <2>6. Connected(rep) = Connected(x) /\ x \in block_temps /\ rep \in block_temps
        BY <1>4, <1>7, <2>1, <2>2, <2>5
    <2> QED  BY <2>6, ConnectedLeast
<1>9. \A t \in block_temps : root'[t] = IF root[t] \in reps THEN rep ELSE root[t]
    BY <1>1
<1>10. ParamsAreInputs'  BY DEF VInv, ParamsAreInputs, vars
<1>11. ListsShrink'
    <2>1. /\ forwarding_list'[v] = forwarding_list[v] \ G
          /\ \A w \in Block \ {v} : forwarding_list'[w] = forwarding_list[w]
        BY <1>2, <1>3
    <2>2. ASSUME NEW w \in Block
          PROVE  forwarding_list'[w] \subseteq {t \in block_temps : MeetsEndOf(w, t)}
        BY <1>2, <2>1 DEF VInv, ListsShrink
    <2>3. ASSUME NEW w \in Block, NEW s \in block_temps, NEW t \in block_temps,
                 s.reg = t.reg, MeetsEndOf(w, s), MeetsEndOf(w, t)
          PROVE  /\ s \in forwarding_list'[w] <=> t \in forwarding_list'[w]
                 /\ s \in forwarding_list'[w] \/ root'[s] = root'[t]
        <3>1. /\ s \in forwarding_list[w] <=> t \in forwarding_list[w]
              /\ s \in forwarding_list[w] \/ root[s] = root[t]
            BY <1>2, <2>3 DEF VInv, ListsShrink
        <3>2. root[s] = root[t] => root'[s] = root'[t]  BY <1>9
        <3>3. CASE w = v /\ s \in G
            <4>1. t \in G  BY <1>4, <1>6, <2>3, <3>1, <3>3
            <4> QED  BY <1>4, <1>9, <2>1, <3>3, <4>1
        <3>4. CASE w = v /\ s \notin G
            <4>1. t \notin G  BY <1>4, <1>6, <2>3, <3>1, <3>4
            <4> QED  BY <2>1, <3>1, <3>2, <3>4, <4>1
        <3>5. CASE w # v  BY <2>1, <3>1, <3>2, <3>5
        <3> QED  BY <3>3, <3>4, <3>5
    <2> QED  BY <1>2, <2>2, <2>3, SameBlockTemps DEF ListsShrink
<1>12. RootsConnected'
    <2>1. ASSUME NEW t \in block_temps
          PROVE  root'[t] \in Connected(t)
        <3>1. root[t] \in Connected(t)  BY <1>2 DEF VInv, RootsConnected
        <3>2. root[t] \in reps => rep \in Connected(t)
            BY <1>7, <1>8
        <3> QED  BY <1>9, <3>1, <3>2
    <2> QED  BY <1>2, <2>1, SameBlockTemps DEF RootsConnected
<1>13. FlagsFit'
    <2>1. ASSUME NEW flag \in SUBSET block_temps, NEW given \in SUBSET block_temps,
                 Fits(flag, given)
          PROVE  /\ \A s \in given : root'[s] \in Flagged(flag, reps, rep)
                 /\ \A t \in Flagged(flag, reps, rep) : Connected(t) \cap given # {}
        <3>1. ASSUME NEW s \in given
              PROVE  root'[s] \in Flagged(flag, reps, rep)
            <4>1. root[s] \in flag  BY <2>1 DEF Fits
            <4> QED  BY <1>9, <4>1 DEF Flagged
        <3>2. ASSUME NEW t \in Flagged(flag, reps, rep)
              PROVE  Connected(t) \cap given # {}
            <4>1. CASE t \in flag  BY <2>1, <4>1 DEF Fits
            <4>2. CASE t \notin flag
                <5>1. PICK x \in reps \cap flag : t = rep  BY <4>2 DEF Flagged
                <5> QED  BY <1>8, <2>1, <5>1 DEF Fits
            <4> QED  BY <4>1, <4>2
        <3> QED  BY <3>1, <3>2
    <2>2. ParamStarts \in SUBSET block_temps /\ ReturnEnds \in SUBSET block_temps
        BY DEF ParamStarts, ReturnEnds
    <2>3. Fits(is_param, ParamStarts) /\ Fits(is_ret, ReturnEnds)
        BY <1>2 DEF VInv, FlagsFit
    <2>4. /\ \A s \in ParamStarts : root'[s] \in is_param'
          /\ \A t \in is_param' : Connected(t) \cap ParamStarts # {}
        BY <1>1, <1>3, <2>1, <2>2, <2>3
    <2>5. /\ \A s \in ReturnEnds : root'[s] \in is_ret'
          /\ \A t \in is_ret' : Connected(t) \cap ReturnEnds # {}
        BY <1>1, <1>3, <2>1, <2>2, <2>3
    <2> QED  BY <1>2, <2>4, <2>5, SameBlockTemps DEF FlagsFit, Fits
<1> QED  BY <1>2, <1>10, <1>11, <1>12, <1>13 DEF VInv, NothingUnited, AllUnited

LEMMA NextVInv == BInv /\ FixInv /\ VInv /\ [BindNext]_allVars => FixInv' /\ VInv'
<1> SUFFICES ASSUME BInv, FixInv, VInv, [BindNext]_allVars PROVE FixInv' /\ VInv'
    OBVIOUS
<1>1. [Next]_vars  BY DEF BindNext, allVars
<1>2. FixInv'  BY <1>1, NextFixInv DEF BInv
<1>3. CASE Next /\ UNCHANGED bindVars  BY <1>2, <1>3, AnalysisVInv
<1>4. ASSUME NEW b \in Block, pc = "done", UNCHANGED vars, ComputeBlockBinds(b)
      PROVE  VInv'
    BY <1>4, ComputeBlockBindsVInv
<1>5. ASSUME NEW v \in Block, NEW reg \in Reg, UNCHANGED vars, Unite(v, reg)
      PROVE  VInv'
    BY <1>5, UniteVInv
<1>6. CASE UNCHANGED vars /\ StartUnite  BY <1>2, <1>6, StartUniteVInv
<1>7. CASE UNCHANGED vars /\ Collect  BY <1>2, <1>7, CollectVInv
<1>8. CASE UNCHANGED allVars
    <2>1. UNCHANGED vars /\ UNCHANGED bindVars  BY <1>8 DEF allVars
    <2> QED  BY <1>2, <2>1, AnalysisVInv
<1> QED  BY <1>2, <1>3, <1>4, <1>5, <1>6, <1>7, <1>8 DEF BindNext

-----------------------------------------------------------------------------
(* What follows for the temporaries of the routine *)

\* Temporaries that touch, and with them all a chain connects, are one.
LEMMA BInvTempsExact == BInv /\ VInv => TempsExact
<1> SUFFICES ASSUME BInv, VInv, Collected, NEW t \in block_temps
             PROVE  {s \in block_temps : gtemp[s] = gtemp[t]} = Connected(t)
    BY DEF TempsExact
<1>1. /\ stage = "collected" /\ \A v \in Block : forwarding_list[v] = {}
      /\ \A s \in block_temps : gtemp[s] = root[s]
    BY DEF VInv, AllUnited, Collected
<1>2. \A s \in block_temps : root[s] \in Connected(s)
    BY <1>1 DEF VInv, RootsConnected
<1>3. ASSUME NEW s \in block_temps, gtemp[s] = gtemp[t]
      PROVE  s \in Connected(t)
    <2>1. Connected(root[s]) = Connected(s) /\ Connected(root[t]) = Connected(t)
        BY <1>2, ConnectedSame
    <2> QED  BY <1>1, <1>3, <2>1, ConnectedLeast
<1>4. Connected(t) \subseteq {s \in block_temps : gtemp[s] = gtemp[t]}
    <2> DEFINE S == {s \in block_temps : gtemp[s] = gtemp[t]}
    <2>1. ASSUME NEW s \in S, NEW u \in block_temps, Touching(s, u)
          PROVE  u \in S
        <3>1. PICK v \in Block : MeetsEndOf(v, s) /\ MeetsEndOf(v, u)
            BY <2>1 DEF Touching
        <3>2. root[s] = root[u]
            BY <1>1, <2>1, <3>1 DEF VInv, ListsShrink, Touching
        <3> QED  BY <1>1, <3>2
    <2>2. S \in SUBSET block_temps /\ t \in S  OBVIOUS
    <2> HIDE DEF S
    <2>3. Connected(t) \subseteq S  BY <2>1, <2>2, ConnectedLeast
    <2> QED  BY <2>3 DEF S
<1> QED  BY <1>3, <1>4

LEMMA BInvFlagsExact == BInv /\ VInv => FlagsExact
<1> SUFFICES ASSUME BInv, VInv, Collected, NEW t \in block_temps
             PROVE  /\ gtemp[t] \in is_param <=> Connected(t) \cap ParamStarts # {}
                    /\ gtemp[t] \in is_ret <=> Connected(t) \cap ReturnEnds # {}
    <2>1. \A t \in block_temps : \A s \in Connected(t) : s \in block_temps
        BY ConnectedLeast
    <2> QED  BY <2>1 DEF FlagsExact, ParamStarts, ReturnEnds
<1>1. /\ stage = "collected" /\ \A s \in block_temps : gtemp[s] = root[s]
      /\ gtemp[t] \in Connected(t)
    BY DEF VInv, AllUnited, Collected, RootsConnected
<1>2. ASSUME NEW flag, NEW given, given \subseteq block_temps, Fits(flag, given)
      PROVE  gtemp[t] \in flag <=> Connected(t) \cap given # {}
    <2>1. Connected(gtemp[t]) = Connected(t)  BY <1>1, ConnectedSame
    <2>2. ASSUME NEW s \in Connected(t) \cap given
          PROVE  gtemp[t] \in flag
        <3>1. gtemp[s] = gtemp[t]
            BY BInvTempsExact DEF TempsExact
        <3> QED  BY <1>1, <1>2, <3>1 DEF Fits
    <2> QED  BY <1>2, <2>1, <2>2 DEF Fits
<1>3. Fits(is_param, ParamStarts) /\ Fits(is_ret, ReturnEnds)
    BY <1>1 DEF VInv, FlagsFit
<1>4. ParamStarts \subseteq block_temps /\ ReturnEnds \subseteq block_temps
    BY DEF ParamStarts, ReturnEnds
<1> QED  BY <1>2, <1>3, <1>4

\* At an instruction it covers, a temporary is the only one of its register.
LEMMA TempsAtCovered ==
    ASSUME BInv, NEW t \in block_temps, NEW b, NEW r, NEW k \in Int,
           t.block = b, t.reg = r, t.lo <= k, k <= t.hi
    PROVE  TempsAt(b, k, r) = {gtemp[t]}
<1> DEFINE C == {s \in block_temps : s.block = b /\ s.reg = r /\ s.lo <= k /\ k <= s.hi}
<1>1. \A s \in C : s = t
    <2> SUFFICES ASSUME NEW s \in C, s # t PROVE FALSE  OBVIOUS
    <2>1. s.hi < t.lo \/ t.hi < s.lo  BY BInvRegionsApart DEF RegionsApart
    <2>2. s.hi \in Int /\ s.lo \in Int /\ t.hi \in Int /\ t.lo \in Int
        BY TempsExtent DEF Extent, IsBlockTemp
    <2> QED  BY <2>1, <2>2
<1>2. C = {t}  BY <1>1
<1>3. TempsAt(b, k, r) = {gtemp[s] : s \in C}  BY DEF TempsAt
<1> HIDE DEF C
<1> QED  BY <1>2, <1>3

\* All a path from where a value leaves block b through blocks that leave it alone
\* comes to: where somebody wants it, it is under the name it had in b.
LEMMA OnwardSame ==
    ASSUME BInv, FixInv, VInv, Collected, NEW b \in Block, NEW r \in Reg \ AbiRegs,
           r \in Outputs(Code(b)), NEW e \in block_temps,
           r \in output[b] => e.block = b /\ e.reg = r /\ e.hi = Len(Code(b)),
           NEW d \in Onward(b, r), r \in input[d], NEW t \in block_temps,
           t.block = d, t.reg = r, t.lo = 1
    PROVE  r \in output[b] /\ gtemp[t] = gtemp[e]
<1>1. /\ IInv /\ Cleared /\ Analysed /\ pc = "done" /\ IsRoutine(routine) /\ unbound = {}
      /\ stage = "collected"
    BY DEF BInv, Bound, Collected, Analysed, IInv, TypeOK
<1>2. LivenessExact  BY <1>1, BackwardFixpoint
<1>3. \A x \in Block : Succs(x) \subseteq Block  BY <1>1 DEF IsRoutine, Succs
<1>4. ASSUME NEW x \in Block
      PROVE  /\ x \in Holding(r) <=> r \in Outputs(Code(x)) \/ x \in Carrying(r)
             /\ r \in Inputs(Code(x)) => x \in Wanting(r)
             /\ x \in Carrying(r) /\ Succs(x) \cap Wanting(r) # {} => x \in Wanting(r)
             /\ r \in input[x] <=> x \in Wanting(r)
             /\ x \in Holding(r) /\ Succs(x) \cap Wanting(r) # {} => r \in output[x]
             /\ live_in[x][1] = input[x] /\ live_out[x][Len(Code(x))] = output[x]
             /\ Len(Code(x)) \in Nat \ {0}
    <2>1. x \in Holding(r) <=> r \in Outputs(Code(x)) \/ x \in Carrying(r)
        BY <1>1, HoldingLeast
    <2>2. /\ r \in Inputs(Code(x)) => x \in Wanting(r)
          /\ x \in Carrying(r) /\ Succs(x) \cap Wanting(r) # {} => x \in Wanting(r)
        BY <1>1, WantingLeast DEF WantedAfter
    <2>3. /\ r \in input[x] <=> x \in Wanting(r)
          /\ x \in Holding(r) /\ Succs(x) \cap Wanting(r) # {} => r \in output[x]
        BY <1>1, <1>2 DEF LivenessExact
    <2>4. /\ live_in[x][1] = input[x] /\ live_out[x][Len(Code(x))] = output[x]
          /\ Len(Code(x)) \in Nat \ {0}
        BY <1>1, SectionsType DEF IInv, SectionsAgree
    <2> QED  BY <2>1, <2>2, <2>3, <2>4
<1>5. ASSUME NEW s \in block_temps, NEW u \in block_temps, NEW v \in Block,
             s.reg = u.reg, MeetsEndOf(v, s), MeetsEndOf(v, u)
      PROVE  gtemp[s] = gtemp[u]
    BY <1>1, <1>5 DEF VInv, ListsShrink, AllUnited
<1> DEFINE S == {x \in Block :
                    /\ Preds(x) \cap Holding(r) # {}
                    /\ x \in Wanting(r) =>
                        /\ r \in output[b]
                        /\ \A u \in block_temps :
                              u.block = x /\ u.reg = r /\ u.lo = 1 => gtemp[u] = gtemp[e]}
<1>6. \A x \in Succs(b) : x \in S
    <2> SUFFICES ASSUME NEW x \in Succs(b) PROVE x \in S  OBVIOUS
    <2>1. x \in Block /\ b \in Preds(x) /\ b \in Holding(r)
        BY <1>3, <1>4 DEF Preds
    <2>2. ASSUME x \in Wanting(r)
          PROVE  /\ r \in output[b]
                 /\ \A u \in block_temps :
                        u.block = x /\ u.reg = r /\ u.lo = 1 => gtemp[u] = gtemp[e]
        <3>1. r \in output[b]  BY <1>4, <2>1, <2>2
        <3>2. MeetsEndOf(b, e) /\ e.reg = r  BY <1>4, <3>1 DEF MeetsEndOf
        <3>3. ASSUME NEW u \in block_temps, u.block = x, u.reg = r, u.lo = 1
              PROVE  gtemp[u] = gtemp[e]
            <4>1. MeetsEndOf(b, u)  BY <1>4, <2>1, <2>2, <3>3 DEF MeetsEndOf
            <4> QED  BY <1>5, <3>2, <3>3, <4>1
        <3> QED  BY <3>1, <3>3
    <2> QED  BY <2>1, <2>2
<1>7. ASSUME NEW x \in S, NEW y \in Succs(x), r \notin Overwrites(Code(x))
      PROVE  y \in S
    <2>1. x \in Block /\ y \in Block /\ x \in Preds(y)  BY <1>3 DEF Preds
    <2>2. r \in Inputs(Code(x)) => r \in Outputs(Code(x))
        BY <1>7 DEF Inputs, Outputs, Overwrites
    <2>3. r \notin Inputs(Code(x)) => x \in Carrying(r)
        BY <1>7, <2>1 DEF Carrying, Transparent
    <2>4. x \in Holding(r)  BY <1>4, <2>1, <2>2, <2>3
    <2>5. ASSUME y \in Wanting(r)
          PROVE  /\ r \in output[b]
                 /\ \A u \in block_temps :
                        u.block = y /\ u.reg = r /\ u.lo = 1 => gtemp[u] = gtemp[e]
        <3>1. x \in Wanting(r)  BY <1>4, <2>1, <2>3, <2>5
        <3>2. r \in input[x] /\ r \in output[x]  BY <1>4, <2>1, <2>4, <2>5, <3>1
        <3>3. \A j \in 1 .. Len(Code(x)) : r \in live_out[x][j]
            BY <1>1, <1>7, <2>1, <3>2, LiveThrough
        <3>4. \E u \in BoundTemps(x) :
                u.block = x /\ u.reg = r /\ u.lo <= 1 /\ Len(Code(x)) <= u.hi
            <4>1. /\ Len(Code(x)) \in 1 .. Len(Code(x)) /\ 1 \in 1 .. Len(Code(x))
                  /\ r \in Live(x, Len(Code(x))) \ AbiRegs
                  /\ \A j \in 1 .. Len(Code(x)) - 1 : r \in live_out[x][j]
                BY <1>4, <2>1, <3>2, <3>3 DEF Live
            <4> QED  BY <1>1, <2>1, <4>1, Span
        <3>5. PICK u \in BoundTemps(x) :
                u.block = x /\ u.reg = r /\ u.lo <= 1 /\ Len(Code(x)) <= u.hi
            BY <3>4
        <3>6. u \in block_temps  BY <1>1, <2>1, <3>5 DEF BInv, Bound
        <3>7. u.lo = 1 /\ u.hi = Len(Code(x))
            BY <1>4, <2>1, <3>5, <3>6, TempsExtent DEF Extent, IsBlockTemp
        <3>8. gtemp[u] = gtemp[e] /\ r \in output[b]  BY <3>1, <3>5, <3>6, <3>7
        <3>9. MeetsEndOf(x, u)  BY <1>4, <2>1, <3>2, <3>5, <3>7 DEF MeetsEndOf
        <3>10. ASSUME NEW w \in block_temps, w.block = y, w.reg = r, w.lo = 1
               PROVE  gtemp[w] = gtemp[e]
            <4>1. MeetsEndOf(x, w)  BY <1>4, <2>1, <2>5, <3>10 DEF MeetsEndOf
            <4> QED  BY <1>5, <2>1, <3>5, <3>6, <3>8, <3>9, <3>10, <4>1
        <3> QED  BY <3>8, <3>10
    <2> QED  BY <2>1, <2>4, <2>5
<1>8. S \subseteq Block  OBVIOUS
<1>9. d \in S => r \in output[b] /\ gtemp[t] = gtemp[e]
    BY <1>4, <1>8
<1> HIDE DEF S
<1>10. d \in S
    <2> DEFINE along == {x \in Block \X Block :
                            x[2] \in Succs(x[1]) /\ r \notin Overwrites(Code(x[1]))}
    <2>1. \A x, y \in Block :
            <<x, y>> \in along <=> y \in Succs(x) /\ r \notin Overwrites(Code(x))
        OBVIOUS
    <2>2. Onward(b, r) = Reached(Block, Succs(b), along)  BY DEF Onward
    <2>3. along \subseteq Block \X Block  OBVIOUS
    <2> HIDE DEF along
    <2>4. \A x, y \in Block : <<x, y>> \in along /\ x \in S => y \in S  BY <1>7, <2>1
    <2>5. Succs(b) \subseteq S /\ Succs(b) \subseteq Block /\ S \in SUBSET Block
        BY <1>3, <1>6, <1>8
    <2>6. Onward(b, r) \subseteq S  BY <2>2, <2>3, <2>4, <2>5, ReachedLeast
    <2> QED  BY <2>6
<1> QED  BY <1>9, <1>10

LEMMA BInvValuesKeep == BInv /\ FixInv /\ VInv => ValuesKeepTheirTemp
<1> SUFFICES ASSUME BInv, FixInv, VInv, Collected, NEW b \in Block, NEW d \in Block,
                    NEW k \in 1 .. Len(Code(b)), NEW m \in 1 .. Len(Code(d)),
                    NEW r \in (Def(Code(b)[k]) \cap Use(Code(d)[m])) \ AbiRegs,
                    Feeds(b, k, d, m, r)
             PROVE  TempsAt(b, k, r) = TempsAt(d, m, r)
    BY DEF ValuesKeepTheirTemp
<1>1. /\ IInv /\ Cleared /\ Analysed /\ unbound = {}
    BY DEF BInv, Bound, Collected, Analysed
<1>2. \A x \in Block : BoundTemps(x) \subseteq block_temps
    BY <1>1 DEF BInv, Bound
<1>3. /\ Len(Code(b)) \in Nat \ {0} /\ Len(Code(d)) \in Nat \ {0}
      /\ live_out[b][Len(Code(b))] = output[b] /\ live_in[d][1] = input[d]
    BY <1>1, SectionsType DEF IInv, SectionsAgree
<1>4. r \in Reg
    <2>1. Code(b)[k] \in Inst  BY <1>1, CodeType DEF IInv, TypeOK
    <2> QED  BY <2>1, RegSetAssumption DEF Def, Inst
<1>5. CASE b = d /\ k < m /\ Unchanged(b, k + 1 .. m - 1, r)
    <2>1. m \in k + 1 .. Len(Code(b))  BY <1>5
    <2>2. \A j \in k .. m - 1 : r \in live_out[b][j]
        BY <1>1, <1>5, <2>1, LiveUntilUse
    <2>3. r \in Live(b, m) \ AbiRegs
        <3>1. m - 1 \in k .. m - 1 /\ m - 1 \in 1 .. Len(Code(b)) - 1 /\ (m - 1) + 1 = m
            BY <1>3, <1>5, <2>1
        <3>2. live_in[b][(m - 1) + 1] = live_out[b][m - 1]  BY <1>1, <3>1, SectionsType
        <3> QED  BY <2>2, <3>1, <3>2 DEF Live
    <2>4. k \in 1 .. m  BY <1>5
    <2>5. PICK t \in BoundTemps(b) : t.block = b /\ t.reg = r /\ t.lo <= k /\ m <= t.hi
        BY <1>1, <1>5, <2>2, <2>3, <2>4, Span
    <2>6. t \in block_temps /\ t.lo \in Int /\ t.hi \in Int
        BY <1>2, <2>5, TempsExtent DEF Extent, IsBlockTemp
    <2>7. t.lo <= m /\ k <= t.hi  BY <1>5, <2>5, <2>6
    <2>8. TempsAt(b, k, r) = {gtemp[t]} /\ TempsAt(b, m, r) = {gtemp[t]}
        <3>1. k \in Int /\ m \in Int  BY <1>3
        <3>2. t.block = b /\ t.reg = r /\ t.lo <= k /\ k <= t.hi /\ t.lo <= m /\ m <= t.hi
            BY <2>5, <2>7
        <3> QED  BY <2>6, <3>1, <3>2, TempsAtCovered
    <2> QED  BY <1>5, <2>8
<1>6. CASE /\ d \in Onward(b, r)
           /\ Unchanged(b, k + 1 .. Len(Code(b)), r) /\ Unchanged(d, 1 .. m - 1, r)
    <2>1. /\ r \in Inputs(Code(d)) /\ r \in live_in[d][m]
          /\ \A j \in 1 .. m - 1 : r \in live_out[d][j]
        BY <1>1, <1>6, LiveFromStart
    <2>2. /\ r \in Outputs(Code(b))
          /\ r \in output[b] => \A j \in k .. Len(Code(b)) : r \in live_out[b][j]
        BY <1>1, <1>6, LiveToEnd
    <2>3. r \in input[d]  BY <1>1, <2>1 DEF IInv, Summary, Analysed
    <2>4. PICK t \in BoundTemps(d) : t.block = d /\ t.reg = r /\ t.lo <= 1 /\ m <= t.hi
        <3>1. r \in Live(d, m) \ AbiRegs /\ 1 \in 1 .. m  BY <2>1 DEF Live
        <3> QED  BY <1>1, <2>1, <3>1, Span
    <2>5. /\ t \in block_temps /\ t.lo = 1 /\ t.lo <= m
        <3>1. t \in block_temps  BY <1>2, <2>4
        <3>2. t.lo \in Nat /\ 1 <= t.lo  BY <3>1, TempsExtent DEF Extent, IsBlockTemp
        <3> QED  BY <2>4, <3>1, <3>2
    <2>6. r \in output[b]
        <3> SUFFICES ASSUME r \notin output[b] PROVE FALSE  OBVIOUS
        <3>1. r \in output[b] => t.block = b /\ t.reg = r /\ t.hi = Len(Code(b))  OBVIOUS
        <3> QED  BY <1>4, <1>6, <2>2, <2>3, <2>4, <2>5, <3>1, OnwardSame
    <2>7. PICK e \in BoundTemps(b) :
            e.block = b /\ e.reg = r /\ e.lo <= k /\ Len(Code(b)) <= e.hi
        <3>1. /\ r \in Live(b, Len(Code(b))) \ AbiRegs /\ k \in 1 .. Len(Code(b))
              /\ Len(Code(b)) \in 1 .. Len(Code(b))
              /\ \A j \in k .. Len(Code(b)) - 1 : r \in live_out[b][j]
            BY <1>3, <2>2, <2>6 DEF Live
        <3> QED  BY <1>1, <3>1, Span
    <2>8. /\ e \in block_temps /\ e.hi = Len(Code(b)) /\ k <= e.hi
        <3>1. e \in block_temps  BY <1>2, <2>7
        <3>2. e.hi \in 1 .. Len(Code(b))
            BY <2>7, <3>1, TempsExtent DEF Extent, IsBlockTemp
        <3> QED  BY <1>3, <2>7, <3>1, <3>2
    <2>9. gtemp[t] = gtemp[e]
        BY <1>4, <1>6, <2>2, <2>3, <2>4, <2>5, <2>7, <2>8, OnwardSame
    <2>10. k \in Int /\ m \in Int  BY <1>3
    <2>11. TempsAt(b, k, r) = {gtemp[e]}
        <3>1. e.block = b /\ e.reg = r /\ e.lo <= k /\ k <= e.hi  BY <2>7, <2>8
        <3> QED  BY <2>8, <2>10, <3>1, TempsAtCovered
    <2>12. TempsAt(d, m, r) = {gtemp[t]}
        <3>1. t.block = d /\ t.reg = r /\ t.lo <= m /\ m <= t.hi  BY <2>4, <2>5
        <3> QED  BY <2>5, <2>10, <3>1, TempsAtCovered
    <2> QED  BY <2>9, <2>11, <2>12
<1> QED  BY <1>5, <1>6 DEF Feeds

-----------------------------------------------------------------------------
(* The theorems *)

\* A register is live wherever an instruction reads it, unless a call before it in
\* the block destroyed the value: clear_unused_sections clears nothing that is
\* used, in any routine.
THEOREM UsesAlwaysLive == Spec => []UsesAreLive
<1>1. Init => IInv /\ Cleared
    <2>1. Init => Cleared  BY DEF Init, Fresh, Cleared, Analysed
    <2> QED  BY <2>1, InitIInv
<1>2. IInv /\ Cleared /\ [Next]_vars => IInv' /\ Cleared'  BY NextIInv, NextCleared
<1>3. IInv /\ Cleared => UsesAreLive  BY ReadsLive DEF UsesAreLive, Destroyed
<1> QED  BY <1>1, <1>2, <1>3, PTL DEF Spec

\* The result of the analysis is that of the paths, for blocks, instructions and
\* parameters: LoopsFollowPaths and UsesAlwaysLive together.
THEOREM AnalysisFaithful == Spec => []LivenessFaithful
BY LoopsFollowPaths, UsesAlwaysLive, PTL DEF LivenessFaithful

\* Every operand of every instruction has exactly one temporary of the routine, a
\* value nobody wants and a register no call destroyed included, and the regions
\* of a register keep apart: query_temp, which translate_op dereferences without a
\* test, finds it, and the insertion into _temp_ranges finds room, whatever the
\* routine and in whatever order blocks are bound and groups united.
THEOREM OperandsAlwaysNamed == BindSpec => []OperandsNamed
<1>1. BInv => OperandsNamed
    BY BInvRegionsApart, BInvOperandsBound DEF OperandsNamed, BInv
<1> QED  BY <1>1, InitBInv, NextBInv, PTL DEF BindSpec

\* Temporaries are named by the values that flow between them, whatever the routine
\* and the order of bindings and unions: a value keeps its name along every path,
\* two temporaries share one only if block ends connect them, and the flags of a
\* parameter or a result survive the unions.
THEOREM ValuesAlwaysNamed == BindSpec => []ValuesNamed
<1>1. BindInit => BInv /\ FixInv /\ VInv
    BY InitBInv, InitFixInv, InitVInv DEF BindInit
<1>2. BInv /\ FixInv /\ VInv /\ [BindNext]_allVars => BInv' /\ FixInv' /\ VInv'
    BY NextBInv, NextVInv
<1>3. BInv /\ FixInv /\ VInv => ValuesNamed
    BY BInvValuesKeep, BInvTempsExact, BInvFlagsExact DEF ValuesNamed
<1> QED  BY <1>1, <1>2, <1>3, PTL DEF BindSpec

-----------------------------------------------------------------------------
(* The stack found so far *)

OffsetsOf(R) == {r[1] : r \in R}
RefsAt(R, o) == {<<r[2], r[3]>> : r \in {r \in R : r[1] = o}}

IsVariable(v) ==
    v = [types |-> v.types, refs |-> v.refs, is_frame_storage |-> v.is_frame_storage]

IsRegion(f) == f = [o \in DOMAIN f |-> f[o]] /\ \A o \in DOMAIN f : IsVariable(f[o])

IsStack(st) ==
    /\ st = [size |-> st.size, vars |-> st.vars, params |-> st.params]
    /\ st.size \in Nat /\ IsRegion(st.vars) /\ IsRegion(st.params)

\* The stack holds the references R, triples of an offset, an address and a way,
\* and no others, each in its region.
Shows(st, R) ==
    /\ IsStack(st)
    /\ OffsetsOf(R) \subseteq Int
    /\ DOMAIN st.vars = {o \in OffsetsOf(R) : o <= st.size + 4}
    /\ DOMAIN st.params = {o \in OffsetsOf(R) : o > st.size + 4}
    /\ \A o \in OffsetsOf(R) : variable_for_offset(st, o).refs = RefsAt(R, o)

LEMMA NothingShown == Shows(NewStack, {})
<1>1. <<>> = [o \in DOMAIN <<>> |-> <<>>[o]] /\ DOMAIN <<>> = {}
    OBVIOUS
<1> QED
    BY <1>1 DEF Shows, NewStack, IsStack, IsRegion, IsVariable, OffsetsOf, RefsAt

\* A variable that is put into a region.
PutsIn(f, o, v, g) ==
    /\ IsRegion(g) /\ DOMAIN g = DOMAIN f \cup {o}
    /\ g[o] = v
    /\ \A p \in DOMAIN f : p # o => g[p] = f[p]

LEMMA PutInRegion ==
    ASSUME NEW f, NEW o, NEW v, IsRegion(f), IsVariable(v)
    PROVE  PutsIn(f, o, v, Put(f, o, v))
BY DEF IsRegion, Put, PutsIn

\* S has a reference more than R.
Grown(R, S, o, ref) ==
    /\ OffsetsOf(S) = OffsetsOf(R) \cup {o}
    /\ RefsAt(S, o) = RefsAt(R, o) \cup {ref}
    /\ \A p : p # o => RefsAt(S, p) = RefsAt(R, p)
    /\ o \notin OffsetsOf(R) => RefsAt(R, o) = {}

LEMMA OneMore ==
    ASSUME NEW R, NEW o, NEW va, NEW how
    PROVE  Grown(R, R \cup {<<o, va, how>>}, o, <<va, how>>)
<1> DEFINE r == <<o, va, how>>
           S == R \cup {r}
<1>1. r[1] = o /\ <<r[2], r[3]>> = <<va, how>>
    OBVIOUS
<1>2. S = R \cup {r}
    OBVIOUS
<1> HIDE DEF r, S
<1>3. OffsetsOf(S) = OffsetsOf(R) \cup {o}
    BY <1>1, <1>2 DEF OffsetsOf
<1>4. RefsAt(S, o) = RefsAt(R, o) \cup {<<va, how>>}
    BY Zenon, <1>1, <1>2 DEF RefsAt
<1>5. \A p : p # o => RefsAt(S, p) = RefsAt(R, p)
    BY <1>1, <1>2 DEF RefsAt
<1>6. o \notin OffsetsOf(R) => RefsAt(R, o) = {}
    BY DEF RefsAt, OffsetsOf
<1> QED
    BY <1>3, <1>4, <1>5, <1>6 DEF Grown, S, r

Widen(v, kinds, ref) == [v EXCEPT !.types = @ \cup kinds, !.refs = @ \cup {ref}]

LEMMA Widened ==
    ASSUME NEW v, IsVariable(v), NEW kinds, NEW ref
    PROVE  IsVariable(Widen(v, kinds, ref)) /\ Widen(v, kinds, ref).refs = v.refs \cup {ref}
<1> DEFINE u == [v EXCEPT !.types = @ \cup kinds]
           t == [u EXCEPT !.refs = v.refs \cup {ref}]
<1>1. u = [types |-> v.types \cup kinds, refs |-> v.refs, is_frame_storage |-> v.is_frame_storage]
    BY DEF IsVariable
<1> HIDE DEF u
<1>2. t = [types |-> v.types \cup kinds, refs |-> v.refs \cup {ref},
           is_frame_storage |-> v.is_frame_storage]
    BY <1>1
<1>3. IsVariable(t) /\ t.refs = v.refs \cup {ref}
    BY <1>2 DEF IsVariable
<1> QED
    BY <1>3 DEF u, Widen

LEMMA ReferShows ==
    ASSUME NEW st, NEW R, Shows(st, R), NEW o \in Int, NEW va, NEW how, NEW kinds
    PROVE  Shows(Refer(st, va, how, o, kinds), R \cup {<<o, va, how>>})
<1> DEFINE S == R \cup {<<o, va, how>>}
           region == RegionOf(st, o)
           old == IF HasVariable(st, o) THEN variable_for_offset(st, o) ELSE NewVariable
           new == Widen(old, kinds, <<va, how>>)
           f == st[region]
           g == Put(f, o, new)
           to == Refer(st, va, how, o, kinds)
<1>1. to = [st EXCEPT ![region] = g]
    BY DEF Refer, Widen
<1>2. /\ OffsetsOf(S) = OffsetsOf(R) \cup {o}
      /\ RefsAt(S, o) = RefsAt(R, o) \cup {<<va, how>>}
      /\ \A p : p # o => RefsAt(S, p) = RefsAt(R, p)
      /\ o \notin OffsetsOf(R) => RefsAt(R, o) = {}
    <2>1. Grown(R, S, o, <<va, how>>)
        BY OneMore
    <2> HIDE DEF S
    <2> QED
        BY <2>1 DEF Grown
<1>3. /\ IsStack(st) /\ st.size \in Nat /\ IsRegion(st.vars) /\ IsRegion(st.params)
      /\ st = [size |-> st.size, vars |-> st.vars, params |-> st.params]
    BY DEF Shows, IsStack
<1>4. /\ region = "params" <=> o > st.size + 4
      /\ region \in {"vars", "params"} /\ IsRegion(f)
    BY <1>3 DEF RegionOf, in_param_region
<1>5. HasVariable(st, o) <=> o \in OffsetsOf(R)
    BY <1>3, <1>4 DEF Shows, HasVariable
<1>6. IsVariable(old) /\ old.refs = RefsAt(R, o)
    <2>1. CASE HasVariable(st, o)
        <3>1. old = f[o] /\ o \in DOMAIN f
            BY <2>1 DEF variable_for_offset, HasVariable
        <3>2. old.refs = RefsAt(R, o)
            BY <1>5, <2>1 DEF Shows
        <3> QED
            BY <1>4, <3>1, <3>2 DEF IsRegion
    <2>2. CASE ~HasVariable(st, o)
        BY <1>2, <1>5, <2>2 DEF NewVariable, IsVariable
    <2> QED
        BY <2>1, <2>2
<1>7. IsVariable(new) /\ new.refs = RefsAt(S, o)
    <2> HIDE DEF old
    <2>1. IsVariable(new) /\ new.refs = old.refs \cup {<<va, how>>}
        BY <1>6, Widened
    <2> QED
        BY <1>2, <1>6, <2>1
<1> HIDE DEF new, old
<1>8. /\ IsRegion(g) /\ DOMAIN g = DOMAIN f \cup {o} /\ g[o] = new
      /\ \A p \in DOMAIN f : p # o => g[p] = f[p]
    <2>1. IsRegion(f) /\ IsVariable(new)
        BY <1>4, <1>7
    <2>2. PutsIn(f, o, new, g)
        BY <2>1, PutInRegion
    <2> HIDE DEF f, region
    <2> QED
        BY <2>2 DEF PutsIn
<1> HIDE DEF g, S, to
<1>9. OffsetsOf(S) \subseteq Int
    BY <1>2 DEF Shows
<1>10. CASE region = "vars"
    <2>1. /\ to = [size |-> st.size, vars |-> g, params |-> st.params] /\ f = st.vars
          /\ o <= st.size + 4
        <3>1. to = [st EXCEPT !.vars = g] /\ f = st.vars
            BY <1>1, <1>10
        <3>2. o <= st.size + 4
            BY <1>3, <1>4, <1>10
        <3> QED
            BY <1>3, <3>1, <3>2
    <2>2. to.size = st.size /\ to.vars = g /\ to.params = st.params /\ IsStack(to)
        BY <1>3, <1>8, <2>1 DEF IsStack
    <2>3. DOMAIN to.vars = {p \in OffsetsOf(S) : p <= to.size + 4}
        BY <1>2, <1>8, <2>1, <2>2 DEF Shows
    <2>4. DOMAIN to.params = {p \in OffsetsOf(S) : p > to.size + 4}
        BY <1>2, <1>3, <2>1, <2>2 DEF Shows
    <2>5. ASSUME NEW p \in OffsetsOf(S)
          PROVE  variable_for_offset(to, p).refs = RefsAt(S, p)
        <3>1. CASE p = o
            <4>1. variable_for_offset(to, p) = g[o]
                BY <2>1, <2>2, <3>1, <1>3 DEF variable_for_offset, RegionOf, in_param_region
            <4> QED
                BY <1>7, <1>8, <3>1, <4>1
        <3>2. CASE p # o
            <4>1. p \in OffsetsOf(R) /\ RefsAt(S, p) = RefsAt(R, p)
                BY <1>2, <3>2
            <4>2. variable_for_offset(st, p).refs = RefsAt(R, p)
                BY <4>1 DEF Shows
            <4>3. p <= st.size + 4 => p \in DOMAIN f
                BY <2>1, <4>1 DEF Shows
            <4>4. variable_for_offset(to, p) = variable_for_offset(st, p)
                BY <1>3, <1>8, <1>9, <2>1, <2>2, <3>2, <4>3
                DEF variable_for_offset, RegionOf, in_param_region
            <4> QED
                BY <4>1, <4>2, <4>4
        <3> QED
            BY <3>1, <3>2
    <2> QED
        BY <1>9, <2>2, <2>3, <2>4, <2>5 DEF Shows, S, to
<1>11. CASE region = "params"
    <2>1. /\ to = [size |-> st.size, vars |-> st.vars, params |-> g] /\ f = st.params
          /\ o > st.size + 4
        <3>1. to = [st EXCEPT !.params = g] /\ f = st.params
            BY <1>1, <1>11
        <3>2. o > st.size + 4
            BY <1>4, <1>11
        <3> QED
            BY <1>3, <3>1, <3>2
    <2>2. to.size = st.size /\ to.vars = st.vars /\ to.params = g /\ IsStack(to)
        BY <1>3, <1>8, <2>1 DEF IsStack
    <2>3. DOMAIN to.vars = {p \in OffsetsOf(S) : p <= to.size + 4}
        BY <1>2, <1>3, <2>1, <2>2 DEF Shows
    <2>4. DOMAIN to.params = {p \in OffsetsOf(S) : p > to.size + 4}
        BY <1>2, <1>8, <2>1, <2>2 DEF Shows
    <2>5. ASSUME NEW p \in OffsetsOf(S)
          PROVE  variable_for_offset(to, p).refs = RefsAt(S, p)
        <3>1. CASE p = o
            <4>1. variable_for_offset(to, p) = g[o]
                BY <2>1, <2>2, <3>1, <1>3 DEF variable_for_offset, RegionOf, in_param_region
            <4> QED
                BY <1>7, <1>8, <3>1, <4>1
        <3>2. CASE p # o
            <4>1. p \in OffsetsOf(R) /\ RefsAt(S, p) = RefsAt(R, p)
                BY <1>2, <3>2
            <4>2. variable_for_offset(st, p).refs = RefsAt(R, p)
                BY <4>1 DEF Shows
            <4>3. p > st.size + 4 => p \in DOMAIN f
                BY <2>1, <4>1 DEF Shows
            <4>4. variable_for_offset(to, p) = variable_for_offset(st, p)
                BY <1>3, <1>8, <1>9, <2>1, <2>2, <3>2, <4>3
                DEF variable_for_offset, RegionOf, in_param_region
            <4> QED
                BY <4>1, <4>2, <4>4
        <3> QED
            BY <3>1, <3>2
    <2> QED
        BY <1>9, <2>2, <2>3, <2>4, <2>5 DEF Shows, S, to
<1> QED
    BY <1>4, <1>10, <1>11

ShowsAs(st, R, n) == Shows(st, R) /\ st.size = n

LEMMA ReferShowsAs ==
    ASSUME NEW st, NEW R, NEW n, ShowsAs(st, R, n), NEW o \in Int, NEW va, NEW how, NEW kinds
    PROVE  ShowsAs(Refer(st, va, how, o, kinds), R \cup {<<o, va, how>>}, n)
<1> DEFINE to == Refer(st, va, how, o, kinds)
           region == RegionOf(st, o)
<1>1. Shows(to, R \cup {<<o, va, how>>})
    BY ReferShows DEF ShowsAs
<1>2. to.size = st.size
    <2>1. PICK g : to = [st EXCEPT ![region] = g]
        BY DEF Refer
    <2>2. region # "size"
        BY DEF RegionOf
    <2>3. st = [size |-> st.size, vars |-> st.vars, params |-> st.params]
        BY DEF ShowsAs, Shows, IsStack
    <2> HIDE DEF to, region
    <2> QED
        BY <2>1, <2>2, <2>3
<1> QED
    BY <1>1, <1>2 DEF ShowsAs

\* The references of one operand that names a slot.
SlotRefs(x, va, how) == {<<o, va, how>> : o \in Offsets(x)}

LEMMA ReadWriteShows ==
    ASSUME NEW st, NEW R, NEW n, ShowsAs(st, R, n), NEW va, NEW mem, mem.off \in Int, NEW how
    PROVE  ShowsAs(analyze_readwrite(st, va, mem, how), R \cup SlotRefs(mem, va, how), n)
<1> DEFINE o == Abs(mem.off)
<1>1. o \in Int /\ o + 4 \in Int
    BY DEF Abs
<1>2. CASE mem.type = "kPackedSingle"
    <2> DEFINE first == Refer(st, va, how, o, {"kSingle"})
               Q == R \cup {<<o, va, how>>}
    <2>1. ShowsAs(first, Q, n)
        BY <1>1, ReferShowsAs
    <2>2. analyze_readwrite(st, va, mem, how) = Refer(first, va, how, o + 4, {"kSingle"})
        BY <1>2 DEF analyze_readwrite
    <2>3. R \cup SlotRefs(mem, va, how) = Q \cup {<<o + 4, va, how>>}
        BY <1>2 DEF SlotRefs, Offsets
    <2> HIDE DEF first, Q, o
    <2> QED
        BY <1>1, <2>1, <2>2, <2>3, ReferShowsAs
<1>3. CASE mem.type # "kPackedSingle"
    <2>1. analyze_readwrite(st, va, mem, how) = Refer(st, va, how, o, convert_data_type(mem.type))
        BY <1>3 DEF analyze_readwrite
    <2>2. R \cup SlotRefs(mem, va, how) = R \cup {<<o, va, how>>}
        BY <1>3 DEF SlotRefs, Offsets
    <2> HIDE DEF o
    <2> QED
        BY <1>1, <2>1, <2>2, ReferShowsAs
<1> QED
    BY <1>2, <1>3

\* As long as nothing lies above the saved LR of the caller the size is free.
LEMMA Resized ==
    ASSUME NEW st, NEW R, Shows(st, R), \A o \in OffsetsOf(R) : o <= 4, NEW n \in Nat
    PROVE  Shows([st EXCEPT !.size = n], R)
<1> DEFINE to == [st EXCEPT !.size = n]
<1>1. /\ IsStack(st) /\ st.size \in Nat /\ IsRegion(st.vars) /\ IsRegion(st.params)
      /\ st = [size |-> st.size, vars |-> st.vars, params |-> st.params]
    BY DEF Shows, IsStack
<1>2. to = [size |-> n, vars |-> st.vars, params |-> st.params]
    BY <1>1
<1>3. IsStack(to) /\ to.size = n /\ to.vars = st.vars /\ to.params = st.params
    BY <1>1, <1>2 DEF IsStack
<1> HIDE DEF to
<1>4. \A o \in OffsetsOf(R) : o \in Int /\ o <= st.size + 4 /\ o <= n + 4
    BY <1>1 DEF Shows
<1>5. /\ DOMAIN to.vars = {o \in OffsetsOf(R) : o <= to.size + 4}
      /\ DOMAIN to.params = {o \in OffsetsOf(R) : o > to.size + 4}
    BY <1>1, <1>3, <1>4 DEF Shows
<1>6. ASSUME NEW o \in OffsetsOf(R)
      PROVE  variable_for_offset(to, o).refs = RefsAt(R, o)
    <2>1. variable_for_offset(st, o).refs = RefsAt(R, o)
        BY DEF Shows
    <2>2. variable_for_offset(st, o) = st.vars[o]
        BY <1>1, <1>4 DEF variable_for_offset, RegionOf, in_param_region
    <2>3. variable_for_offset(to, o) = st.vars[o]
        BY <1>3, <1>4 DEF variable_for_offset, RegionOf, in_param_region
    <2> QED
        BY <2>1, <2>2, <2>3
<1> QED
    BY <1>3, <1>5, <1>6 DEF Shows, to

Stored(v) == [v EXCEPT !.is_frame_storage = TRUE]

LEMMA StoredVariable ==
    ASSUME NEW v, IsVariable(v)
    PROVE  IsVariable(Stored(v)) /\ Stored(v).refs = v.refs
<1>1. ASSUME NEW yes
      PROVE  LET u == [v EXCEPT !.is_frame_storage = yes]
             IN  u = [types |-> v.types, refs |-> v.refs, is_frame_storage |-> yes]
    BY DEF IsVariable
<1> DEFINE u == Stored(v)
<1>2. u = [types |-> v.types, refs |-> v.refs, is_frame_storage |-> TRUE]
    BY Zenon, <1>1 DEF Stored
<1>3. IsVariable(u) /\ u.refs = v.refs
    BY <1>2 DEF IsVariable
<1> QED
    BY <1>3

\* A variable that only becomes storage of the frame.
LEMMA MarkShows ==
    ASSUME NEW st, NEW R, Shows(st, R), NEW o, HasVariable(st, o)
    PROVE  Shows(MarkFrameStorage(st, o), R) /\ MarkFrameStorage(st, o).size = st.size
<1> DEFINE region == RegionOf(st, o)
           f == st[region]
           g == [f EXCEPT ![o].is_frame_storage = TRUE]
           to == MarkFrameStorage(st, o)
<1>1. /\ IsStack(st) /\ st.size \in Nat /\ IsRegion(st.vars) /\ IsRegion(st.params)
      /\ st = [size |-> st.size, vars |-> st.vars, params |-> st.params]
    BY DEF Shows, IsStack
<1>2. region \in {"vars", "params"} /\ IsRegion(f) /\ o \in DOMAIN f
    BY <1>1 DEF RegionOf, HasVariable
<1>3. to = [st EXCEPT ![region] = g]
    BY DEF MarkFrameStorage
<1>4. IsRegion(g) /\ DOMAIN g = DOMAIN f /\ \A p \in DOMAIN f : g[p].refs = f[p].refs
    <2> HIDE DEF f, region
    <2> DEFINE v == Stored(f[o])
    <2>1. IsVariable(f[o])
        BY <1>2 DEF IsRegion
    <2>2. IsVariable(v) /\ v.refs = f[o].refs
        BY <2>1, StoredVariable
    <2>3. g = [p \in DOMAIN f |-> IF p = o THEN v ELSE f[p]]
        BY <1>2 DEF IsRegion, Stored
    <2> HIDE DEF v, g
    <2> QED
        BY <1>2, <2>2, <2>3 DEF IsRegion
<1> HIDE DEF g, to
<1>5. CASE region = "vars"
    <2>1. to = [st EXCEPT !.vars = g] /\ f = st.vars
        BY <1>3, <1>5
    <2>2. to = [size |-> st.size, vars |-> g, params |-> st.params]
        BY <1>1, <2>1
    <2>3. /\ IsStack(to) /\ to.size = st.size /\ to.vars = g /\ to.params = st.params
          /\ DOMAIN to.vars = DOMAIN st.vars
        BY <1>1, <1>4, <2>1, <2>2 DEF IsStack
    <2>4. ASSUME NEW p \in OffsetsOf(R)
          PROVE  variable_for_offset(to, p).refs = RefsAt(R, p)
        <3>1. variable_for_offset(st, p).refs = RefsAt(R, p) /\ p \in Int
            BY DEF Shows
        <3>2. p <= st.size + 4 => p \in DOMAIN f
            BY <2>1 DEF Shows
        <3>3. variable_for_offset(to, p).refs = variable_for_offset(st, p).refs
            BY <1>1, <1>4, <2>1, <2>3, <3>1, <3>2
            DEF variable_for_offset, RegionOf, in_param_region
        <3> QED
            BY <3>1, <3>3
    <2> QED
        BY <2>3, <2>4 DEF Shows, to
<1>6. CASE region = "params"
    <2>1. to = [st EXCEPT !.params = g] /\ f = st.params
        BY <1>3, <1>6
    <2>2. to = [size |-> st.size, vars |-> st.vars, params |-> g]
        BY <1>1, <2>1
    <2>3. /\ IsStack(to) /\ to.size = st.size /\ to.vars = st.vars /\ to.params = g
          /\ DOMAIN to.params = DOMAIN st.params
        BY <1>1, <1>4, <2>1, <2>2 DEF IsStack
    <2>4. ASSUME NEW p \in OffsetsOf(R)
          PROVE  variable_for_offset(to, p).refs = RefsAt(R, p)
        <3>1. variable_for_offset(st, p).refs = RefsAt(R, p) /\ p \in Int
            BY DEF Shows
        <3>2. p > st.size + 4 => p \in DOMAIN f
            BY <2>1 DEF Shows
        <3>3. variable_for_offset(to, p).refs = variable_for_offset(st, p).refs
            BY <1>1, <1>4, <2>1, <2>3, <3>1, <3>2
            DEF variable_for_offset, RegionOf, in_param_region
        <3> QED
            BY <3>1, <3>3
    <2> QED
        BY <2>3, <2>4 DEF Shows, to
<1> QED
    BY <1>2, <1>5, <1>6

\* What the decoder leaves of an instruction, as far as the stack analysis looks.
Regular(i) ==
    /\ FirstSlot(i.reads, i.word.a) /\ FirstSlot(i.writes, i.word.a)
    /\ i.op \in {"kAddi", "kAddic"} =>
          /\ DOMAIN i.reads = 1 .. 2
          /\ i.reads[2].kind = "SIMM" /\ i.reads[2].val \in Int
    /\ i.op = "kStwu" =>
          /\ DOMAIN i.writes = 1 .. 2
          /\ i.writes[1].kind = "MemRegOff" /\ i.writes[1].off \in Int
          /\ i.writes[2] = Gpr(i.word.a, "kS4")

LEMMA DecodedRegular ==
    ASSUME NEW i, i.word \in Word, i = Disasm(i.va, i.word)
    PROVE  Regular(i)
<1> DEFINE d == Disasm(i.va, i.word)
<1>1. FirstSlot(d.reads, i.word.a) /\ FirstSlot(d.writes, i.word.a)
    BY InstructionSlots
<1>2. /\ d.op \in {"kAddi", "kAddic"} =>
            /\ DOMAIN d.reads = 1 .. 2
            /\ d.reads[2].kind = "SIMM" /\ d.reads[2].val \in Int
      /\ d.op = "kStwu" =>
            /\ DOMAIN d.writes = 1 .. 2
            /\ d.writes[1].kind = "MemRegOff" /\ d.writes[1].off \in Int
            /\ d.writes[2] = Gpr(i.word.a, "kS4")
    BY InstructionNames
<1> HIDE DEF d
<1>3. d = i
    BY DEF d
<1> QED
    BY <1>1, <1>2, <1>3 DEF Regular

OneSlot(list) == Slots(list) # {} => Slots(list) = {SlotOf(list)} /\ SlotOf(list).off \in Int

LEMMA SlotsOfList ==
    ASSUME NEW list, NEW a, FirstSlot(list, a)
    PROVE  OneSlot(list)
<1>1. ASSUME NEW x \in Slots(list)
      PROVE  x = list[1] /\ x.off \in Int
    BY DEF Slots, IsSlot, Range, FirstSlot
<1> SUFFICES ASSUME Slots(list) # {}
             PROVE  Slots(list) = {SlotOf(list)} /\ SlotOf(list).off \in Int
    BY DEF OneSlot
<1>2. SlotOf(list) \in Slots(list)
    BY DEF SlotOf
<1> QED
    BY <1>1, <1>2

\* The references of a list of operands, and those of an instruction.
ListRefs(list, va, how) == UNION {SlotRefs(x, va, how) : x \in Slots(list)}
InstRefs(i) == {<<a[1], i.va, a[2]>> : a \in Accesses(i)}
AddressRefs(i) ==
    IF i.op \in {"kAddi", "kAddic"} /\ IsR1(i.reads[1])
    THEN {<<i.reads[2].val, i.va, "kAddress">>} ELSE {}

LEMMA InstRefsSplit ==
    ASSUME NEW i
    PROVE  InstRefs(i) = ListRefs(i.reads, i.va, "kRead") \cup AddressRefs(i)
                            \cup ListRefs(i.writes, i.va, "kWrite")
<1> DEFINE A == {<<o, "kRead">> : o \in UNION {Offsets(x) : x \in Slots(i.reads)}}
           B == {<<o, "kWrite">> : o \in UNION {Offsets(x) : x \in Slots(i.writes)}}
           C == {<<i.reads[2].val, "kAddress">> :
                     n \in {n \in {1} : i.op \in {"kAddi", "kAddic"} /\ IsR1(i.reads[1])}}
           As(S) == {<<a[1], i.va, a[2]>> : a \in S}
<1>a. ASSUME NEW S, NEW how
      PROVE  As({<<o, how>> : o \in S}) = {<<o, i.va, how>> : o \in S}
    <2>1. ASSUME NEW o
          PROVE  LET a == <<o, how>> IN <<a[1], i.va, a[2]>> = <<o, i.va, how>>
        OBVIOUS
    <2>2. ASSUME NEW r \in As({<<o, how>> : o \in S})
          PROVE  r \in {<<o, i.va, how>> : o \in S}
        <3>1. PICK a \in {<<o, how>> : o \in S} : r = <<a[1], i.va, a[2]>>
            OBVIOUS
        <3>2. PICK o \in S : a = <<o, how>>
            OBVIOUS
        <3> QED
            BY <2>1, <3>1, <3>2
    <2>3. ASSUME NEW o \in S
          PROVE  <<o, i.va, how>> \in As({<<u, how>> : u \in S})
        <3> DEFINE a == <<o, how>>
        <3>1. a \in {<<u, how>> : u \in S} /\ <<a[1], i.va, a[2]>> = <<o, i.va, how>>
            BY <2>1
        <3> HIDE DEF a
        <3> QED
            BY <3>1
    <2> QED
        BY <2>2, <2>3
<1>b. ASSUME NEW list, NEW how
      PROVE  {<<o, i.va, how>> : o \in UNION {Offsets(x) : x \in Slots(list)}}
                = ListRefs(list, i.va, how)
    BY DEF ListRefs, SlotRefs
<1>1. As(A) = ListRefs(i.reads, i.va, "kRead")
    <2>1. As(A) = {<<o, i.va, "kRead">> : o \in UNION {Offsets(x) : x \in Slots(i.reads)}}
        BY <1>a
    <2> QED
        BY <1>b, <2>1
<1>2. As(B) = ListRefs(i.writes, i.va, "kWrite")
    <2>1. As(B) = {<<o, i.va, "kWrite">> : o \in UNION {Offsets(x) : x \in Slots(i.writes)}}
        BY <1>a
    <2> QED
        BY <1>b, <2>1
<1>3. As(C) = AddressRefs(i)
    <2>1. CASE i.op \in {"kAddi", "kAddic"} /\ IsR1(i.reads[1])
        <3> DEFINE S == {i.reads[2].val}
        <3>1. C = {<<o, "kAddress">> : o \in S}
            BY <2>1
        <3> HIDE DEF S
        <3>2. As({<<o, "kAddress">> : o \in S}) = {<<o, i.va, "kAddress">> : o \in S}
            BY <1>a
        <3> HIDE DEF C
        <3>3. As(C) = {<<i.reads[2].val, i.va, "kAddress">>}
            BY <3>1, <3>2 DEF S
        <3> QED
            BY <2>1, <3>3 DEF AddressRefs
    <2>2. CASE ~(i.op \in {"kAddi", "kAddic"} /\ IsR1(i.reads[1]))
        <3>1. C = {}
            BY <2>2
        <3> HIDE DEF C
        <3> QED
            BY <2>2, <3>1 DEF AddressRefs
    <2> QED
        BY <2>1, <2>2
<1>4. InstRefs(i) = As(A \cup B \cup C)
    BY DEF InstRefs, Accesses
<1> HIDE DEF A, B, C
<1>5. As(A \cup B \cup C) = As(A) \cup As(B) \cup As(C)
    OBVIOUS
<1> HIDE DEF As
<1> QED
    BY <1>1, <1>2, <1>3, <1>4, <1>5

LEMMA ListShows ==
    ASSUME NEW st, NEW R, NEW n, ShowsAs(st, R, n), NEW list, OneSlot(list), NEW va, NEW how
    PROVE  ShowsAs(IF Slots(list) = {} THEN st ELSE analyze_readwrite(st, va, SlotOf(list), how),
                   R \cup ListRefs(list, va, how), n)
<1>1. CASE Slots(list) = {}
    <2>1. R \cup ListRefs(list, va, how) = R
        BY <1>1 DEF ListRefs
    <2> QED
        BY <1>1, <2>1
<1>2. CASE Slots(list) # {}
    <2> DEFINE x == SlotOf(list)
    <2>1. Slots(list) = {x} /\ x.off \in Int
        BY <1>2 DEF OneSlot
    <2> HIDE DEF x
    <2>2. ListRefs(list, va, how) = SlotRefs(x, va, how)
        BY <2>1 DEF ListRefs
    <2>3. ShowsAs(analyze_readwrite(st, va, x, how), R \cup SlotRefs(x, va, how), n)
        BY <2>1, ReadWriteShows
    <2> QED
        BY <1>2, <2>2, <2>3 DEF x
<1> QED
    BY <1>1, <1>2

LEMMA ReferredShows ==
    ASSUME NEW st, NEW R, NEW n, ShowsAs(st, R, n), NEW i, Regular(i)
    PROVE  ShowsAs(Referred(st, i), R \cup InstRefs(i), n)
<1> DEFINE read == IF Slots(i.reads) = {} THEN st
                   ELSE analyze_readwrite(st, i.va, SlotOf(i.reads), "kRead")
           names == \E x \in Range(i.reads) : IsR1(x)
           named == IF names THEN analyze_sp_mem_ref(read, i) ELSE read
           to == IF Slots(i.writes) = {} THEN named
                 ELSE analyze_readwrite(named, i.va, SlotOf(i.writes), "kWrite")
           A == ListRefs(i.reads, i.va, "kRead")
           B == ListRefs(i.writes, i.va, "kWrite")
           C == AddressRefs(i)
<1>1. Referred(st, i) = to
    BY Zenon DEF Referred
<1>2. OneSlot(i.reads) /\ OneSlot(i.writes)
    BY SlotsOfList DEF Regular
<1>3. ShowsAs(read, R \cup A, n)
    BY <1>2, ListShows
<1> HIDE DEF read, A, B
<1>4. ShowsAs(named, (R \cup A) \cup C, n)
    <2>1. CASE i.op \in {"kAddi", "kAddic"} /\ IsR1(i.reads[1])
        <3>1. names
            BY <2>1 DEF Regular, Range
        <3>2. named = Refer(read, i.va, "kAddress", i.reads[2].val, {})
            BY <2>1, <3>1 DEF analyze_sp_mem_ref
        <3>3. i.reads[2].val \in Int
            BY <2>1 DEF Regular
        <3>4. C = {<<i.reads[2].val, i.va, "kAddress">>}
            BY <2>1 DEF AddressRefs
        <3> HIDE DEF named, C
        <3> QED
            BY <1>3, <3>2, <3>3, <3>4, ReferShowsAs
    <2>2. CASE ~(i.op \in {"kAddi", "kAddic"} /\ IsR1(i.reads[1]))
        <3>1. C = {}
            BY <2>2 DEF AddressRefs
        <3>2. named = read
            <4>1. CASE i.op \in {"kAddi", "kAddic"}
                <5>1. ~IsR1(i.reads[1]) /\ ~IsR1(i.reads[2]) /\ DOMAIN i.reads = 1 .. 2
                    BY <2>2, <4>1 DEF Regular, IsR1
                <5>2. ~names
                    BY <5>1 DEF Range
                <5> QED
                    BY <5>2
            <4>2. CASE i.op \notin {"kAddi", "kAddic"}
                BY <4>2 DEF analyze_sp_mem_ref
            <4> QED
                BY <4>1, <4>2
        <3> QED
            BY <1>3, <3>1, <3>2
    <2> QED
        BY <2>1, <2>2
<1> HIDE DEF named, C
<1>5. ShowsAs(to, ((R \cup A) \cup C) \cup B, n)
    BY <1>2, <1>4, ListShows DEF B
<1>6. R \cup InstRefs(i) = ((R \cup A) \cup C) \cup B
    BY InstRefsSplit DEF A, B, C
<1> QED
    BY <1>1, <1>5, <1>6

\* Setting the size before anything lies above the caller's LR.
LEMMA SizedShows ==
    ASSUME NEW st, NEW R, NEW n, ShowsAs(st, R, n), NEW i, Regular(i),
           i.op = "kStwu" /\ i.word.a = 1 => \A o \in OffsetsOf(R) : o <= 4
    PROVE  ShowsAs(Sized(st, i), R,
                   IF i.op = "kStwu" /\ i.word.a = 1 THEN SizeGiven(i) ELSE n)
<1>1. CASE i.op = "kStwu"
    <2>1. /\ DOMAIN i.writes = 1 .. 2 /\ i.writes[1].kind = "MemRegOff"
          /\ i.writes[2] = Gpr(i.word.a, "kS4")
        BY <1>1 DEF Regular
    <2>2. SizeGiven(i) \in Nat
        BY <1>1 DEF Regular, SizeGiven
    <2>3. (\E x \in Range(i.writes) : IsR1(x)) <=> i.word.a = 1
        BY <2>1 DEF Range, IsR1, Gpr
    <2>4. CASE i.word.a = 1
        <3>1. Sized(st, i) = [st EXCEPT !.size = SizeGiven(i)]
            BY <1>1, <2>3, <2>4 DEF Sized, analyze_sp_modify, SizeGiven
        <3>2. Shows([st EXCEPT !.size = SizeGiven(i)], R)
            BY <1>1, <2>2, <2>4, Resized DEF ShowsAs
        <3>3. [st EXCEPT !.size = SizeGiven(i)].size = SizeGiven(i)
            BY DEF ShowsAs, Shows, IsStack
        <3> QED
            BY <1>1, <2>4, <3>1, <3>2, <3>3 DEF ShowsAs
    <2>5. CASE i.word.a # 1
        BY <2>3, <2>5 DEF Sized
    <2> QED
        BY <2>4, <2>5
<1>2. CASE i.op # "kStwu"
    <2>1. Sized(st, i) = st
        BY <1>2 DEF Sized, analyze_sp_modify
    <2> QED
        BY <1>2, <2>1
<1> QED
    BY <1>1, <1>2

-----------------------------------------------------------------------------
(* The order of the stack analysis *)

LEMMA LeastOf ==
    ASSUME NEW S, S \subseteq Nat, S # {}
    PROVE  Min(S) \in S /\ \A x \in S : Min(S) <= x
<1> DEFINE LessThan == {p \in Nat \X Nat : p[1] < p[2]}
<1>1. PICK n \in S : \A x \in S : <<x, n>> \notin LessThan
    <2>1. IsWellFoundedOn(LessThan, Nat)
        BY NatLessThanWellFounded DEF OpToRel, LessThan
    <2> HIDE DEF LessThan
    <2> QED
        BY <2>1, WFMin
<1>2. ASSUME NEW x \in S
      PROVE  n <= x
    <2>1. x \in Nat /\ n \in Nat
        OBVIOUS
    <2>2. x < n => <<x, n>> \in LessThan
        BY <2>1, Zenon
    <2> QED
        BY <1>1, <2>1, <2>2
<1> QED
    BY <1>2 DEF Min

\* What the constants say of the text.
TextOK == text \in Texts

LEMMA TextRegular ==
    ASSUME TextOK
    PROVE  /\ text.used \subseteq Nat /\ text.entry \in text.used
           /\ \A b \in text.used : LastOf(b) \in Nat /\ LastOf(b) >= 1
           /\ \A p \in UsedPlaces : Regular(At(p))
<1>1. IsText(text) /\ IsRoutine(RoutineOf(text))
    BY TextsAssumption, RoutinesAssumption DEF TextOK
<1>2. text.used \subseteq Nat /\ text.entry \in text.used /\ text.used \subseteq Block
    BY <1>1 DEF IsText
<1>3. ASSUME NEW b \in text.used
      PROVE  LastOf(b) \in Nat /\ LastOf(b) >= 1 /\ text.code[b] \in Seq(Range(text.code[b]))
    <2> DEFINE c == text.code[b]
               d == RoutineOf(text).code[b]
    <2>1. b \in Block /\ c \in Seq(Range(c))
        BY <1>1, <1>2 DEF IsText
    <2>2. d \in Seq(Inst) /\ d # <<>>
        BY <1>1, <2>1 DEF IsRoutine
    <2>3. DOMAIN d = DOMAIN c
        BY <2>1 DEF RoutineOf
    <2> HIDE DEF c, d
    <2>4. DOMAIN d = 1 .. Len(d) /\ Len(d) \in Nat /\ Len(d) >= 1
        BY <2>2
    <2>5. DOMAIN c = 1 .. Len(c) /\ Len(c) \in Nat
        BY <2>1
    <2>6. 1 \in DOMAIN d
        BY <2>4
    <2>7. 1 \in 1 .. Len(c)
        BY Zenon, <2>3, <2>5, <2>6
    <2> QED
        BY <2>1, <2>5, <2>7 DEF LastOf, c
<1>4. ASSUME NEW p \in UsedPlaces
      PROVE  Regular(At(p))
    <2>1. PICK b \in text.used : p \in {b} \X (1 .. LastOf(b))
        BY DEF UsedPlaces
    <2>2. p[1] = b /\ p[2] \in 1 .. LastOf(b)
        BY <2>1
    <2>3. p[2] \in DOMAIN text.code[b]
        BY <1>3, <2>2 DEF LastOf
    <2>4. At(p) = text.code[b][p[2]]
        BY <2>2 DEF At, InstAt
    <2>5. At(p) \in Range(text.code[b])
        BY <2>3, <2>4 DEF Range
    <2>6. At(p).word \in Word /\ At(p) = Disasm(At(p).va, At(p).word)
        BY <1>1, <1>2, <2>5 DEF IsText
    <2> QED
        BY <2>6, DecodedRegular
<1> QED
    BY <1>2, <1>3, <1>4

LEMMA PlacesAre ==
    ASSUME NEW p
    PROVE  p \in UsedPlaces <=> /\ p = <<p[1], p[2]>>
                                /\ p[1] \in text.used /\ p[2] \in 1 .. LastOf(p[1])
<1>1. ASSUME p \in UsedPlaces
      PROVE  p = <<p[1], p[2]>> /\ p[1] \in text.used /\ p[2] \in 1 .. LastOf(p[1])
    <2>1. PICK b \in text.used : p \in {b} \X (1 .. LastOf(b))
        BY <1>1 DEF UsedPlaces
    <2>2. p = <<p[1], p[2]>> /\ p[1] = b /\ p[2] \in 1 .. LastOf(b)
        BY <2>1
    <2> QED
        BY <2>2
<1>2. ASSUME p = <<p[1], p[2]>>, p[1] \in text.used, p[2] \in 1 .. LastOf(p[1])
      PROVE  p \in UsedPlaces
    <2>1. p \in {p[1]} \X (1 .. LastOf(p[1]))
        BY <1>2
    <2> QED
        BY <1>2, <2>1 DEF UsedPlaces
<1> QED
    BY <1>1, <1>2

\* The instructions the stack analysis has been through, what they refer to, and
\* the size of the frame they leave.
Seen == IF pass = "stack" THEN {p \in UsedPlaces : Before(p, at)} ELSE UsedPlaces
RefsTo(S) == UNION {InstRefs(At(p)) : p \in S}
IsSize(S, n) ==
    IF S \cap Allocating = {} THEN n = 0
    ELSE \E p \in S \cap Allocating :
            n = SizeGiven(At(p)) /\ \A q \in S \cap Allocating : ~Before(p, q)

PassInv ==
    /\ TextOK
    /\ pass = "stack" => at \in UsedPlaces
    /\ ~UsedEarly => Shows(stack, RefsTo(Seen)) /\ IsSize(Seen, stack.size)

LEMMA TextKept ==
    ASSUME text' = text
    PROVE  /\ UsedPlaces' = UsedPlaces /\ Allocating' = Allocating
           /\ UsedEarly' = UsedEarly /\ TextOK' = TextOK
           /\ \A S : RefsTo(S)' = RefsTo(S)
           /\ \A S, n : IsSize(S, n)' = IsSize(S, n)
<1>1. UsedPlaces' = UsedPlaces
    BY DEF UsedPlaces, LastOf
<1>2. \A p : At(p)' = At(p)
    BY DEF At, InstAt
<1>3. Allocating' = Allocating
    BY <1>1, <1>2 DEF Allocating
<1>4. UsedEarly' = UsedEarly
    BY <1>1, <1>2, <1>3 DEF UsedEarly
<1>5. \A S : RefsTo(S)' = RefsTo(S)
    BY <1>2 DEF RefsTo
<1>6. \A S, n : IsSize(S, n)' = IsSize(S, n)
    BY <1>2, <1>3 DEF IsSize
<1> QED
    BY <1>1, <1>3, <1>4, <1>5, <1>6 DEF TextOK

LEMMA ForwardSeen ==
    ASSUME TextOK, pass = "stack", at \in UsedPlaces, Forward, text' = text
    PROVE  Seen' = Seen \cup {at} /\ (pass' = "stack" => at' \in UsedPlaces)
<1> DEFINE b == at[1]
           later == {c \in text.used : c > b}
<1>1. /\ at = <<at[1], at[2]>> /\ b \in text.used /\ b \in Nat
      /\ at[2] \in Nat /\ at[2] >= 1 /\ at[2] <= LastOf(b)
      /\ LastOf(b) \in Nat
    BY PlacesAre, TextRegular
<1>2. UsedPlaces' = UsedPlaces
    BY TextKept
<1>3. ASSUME NEW p \in UsedPlaces
      PROVE  /\ p = <<p[1], p[2]>> /\ p[1] \in text.used /\ p[1] \in Nat
             /\ p[2] \in Nat /\ p[2] >= 1 /\ p[2] <= LastOf(p[1])
    BY PlacesAre, TextRegular
<1>4. CASE at[2] < LastOf(b)
    <2>1. at' = <<b, at[2] + 1>> /\ pass' = "stack"
        BY <1>4 DEF Forward
    <2>2. at'[1] = b /\ at'[2] = at[2] + 1
        BY <2>1
    <2>3. at' \in UsedPlaces
        <3>1. at[2] + 1 \in 1 .. LastOf(b)
            BY <1>1, <1>4
        <3> QED
            BY <1>1, <2>1, <2>2, <3>1, PlacesAre
    <2>4. ASSUME NEW p \in UsedPlaces
          PROVE  Before(p, at') <=> Before(p, at) \/ p = at
        BY <1>1, <1>3, <2>2 DEF Before
    <2> QED
        BY <1>2, <2>1, <2>3, <2>4 DEF Seen
<1>5. CASE ~(at[2] < LastOf(b)) /\ later # {}
    <2> DEFINE m == Min(later)
    <2>1. at' = <<m, 1>> /\ pass' = "stack"
        BY <1>5 DEF Forward
    <2>2. m \in later /\ \A c \in later : m <= c
        <3>1. later \subseteq Nat
            BY TextRegular
        <3> HIDE DEF later
        <3> QED
            BY <1>5, <3>1, LeastOf
    <2> HIDE DEF m
    <2>3. m \in text.used /\ m \in Nat /\ m > b /\ \A c \in text.used : c > b => m <= c
        BY <2>2, TextRegular
    <2>4. at'[1] = m /\ at'[2] = 1
        BY <2>1
    <2>5. at' \in UsedPlaces
        <3>1. 1 \in 1 .. LastOf(m)
            BY <2>3, TextRegular
        <3> QED
            BY <2>1, <2>3, <2>4, <3>1, PlacesAre
    <2>6. ASSUME NEW p \in UsedPlaces
          PROVE  Before(p, at') <=> Before(p, at) \/ p = at
        BY <1>1, <1>3, <1>5, <2>3, <2>4 DEF Before
    <2> QED
        BY <1>2, <2>1, <2>5, <2>6 DEF Seen
<1>6. CASE ~(at[2] < LastOf(b)) /\ later = {}
    <2>1. pass' = "entry"
        BY <1>6 DEF Forward
    <2>2. ASSUME NEW p \in UsedPlaces
          PROVE  Before(p, at) \/ p = at
        <3>1. p[1] <= b
            BY <1>1, <1>3, <1>6
        <3> QED
            BY <1>1, <1>3, <1>6, <3>1 DEF Before
    <2> QED
        BY <1>2, <2>1, <2>2 DEF Seen
<1> QED
    BY <1>4, <1>5, <1>6

LEMMA AnalyzeStackPass ==
    ASSUME PassInv, AnalyzeStack
    PROVE  PassInv'
<1>1. /\ pass = "stack" /\ text' = text /\ Forward /\ TextOK /\ at \in UsedPlaces
      /\ stack' = analyze_block_inst(stack, Here)
    BY DEF PassInv, AnalyzeStack, Running
<1>2. Seen' = Seen \cup {at} /\ (pass' = "stack" => at' \in UsedPlaces)
    BY <1>1, ForwardSeen
<1>3. /\ UsedPlaces' = UsedPlaces /\ UsedEarly' = UsedEarly /\ TextOK'
      /\ \A S : RefsTo(S)' = RefsTo(S) /\ \A n : IsSize(S, n)' = IsSize(S, n)
    BY <1>1, TextKept
<1>4. ASSUME ~UsedEarly
      PROVE  Shows(stack', RefsTo(Seen \cup {at})) /\ IsSize(Seen \cup {at}, stack'.size)
    <2> DEFINE i == At(at)
               R == RefsTo(Seen)
               allocates == i.op = "kStwu" /\ i.word.a = 1
               n == IF allocates THEN SizeGiven(i) ELSE stack.size
    <2>1. Here = i /\ Regular(i)
        BY <1>1, TextRegular DEF Here, At
    <2>2. ShowsAs(stack, R, stack.size) /\ IsSize(Seen, stack.size)
        BY <1>4 DEF PassInv, ShowsAs
    <2>3. at \in Allocating <=> allocates
        BY <1>1 DEF Allocating
    <2>4. ASSUME allocates, NEW o \in OffsetsOf(R)
          PROVE  o <= 4
        <3>1. o \in Int
            BY <2>2 DEF ShowsAs, Shows
        <3>2. PICK r \in R : o = r[1]
            BY DEF OffsetsOf
        <3>3. PICK p \in Seen : r \in InstRefs(At(p))
            BY <3>2 DEF RefsTo
        <3>4. PICK a \in Accesses(At(p)) : r = <<a[1], At(p).va, a[2]>>
            BY <3>3 DEF InstRefs
        <3>5. o = a[1]
            BY <3>2, <3>4
        <3>6. p \in UsedPlaces /\ Before(p, at)
            BY <1>1 DEF Seen
        <3>7. ~(a[1] > 4)
            BY <1>4, <2>3, <2>4, <3>6 DEF UsedEarly
        <3> QED
            BY <3>1, <3>5, <3>7
    <2> HIDE DEF i, R
    <2>5. ShowsAs(Sized(stack, i), R, n)
        BY <2>1, <2>2, <2>4, SizedShows
    <2>6. ShowsAs(stack', R \cup InstRefs(i), n)
        <3> HIDE DEF n
        <3>1. ShowsAs(Referred(Sized(stack, i), i), R \cup InstRefs(i), n)
            BY <2>1, <2>5, ReferredShows
        <3> QED
            BY <1>1, <2>1, <3>1 DEF analyze_block_inst
    <2>7. RefsTo(Seen \cup {at}) = R \cup InstRefs(i)
        BY DEF RefsTo, R, i
    <2>8. IsSize(Seen \cup {at}, n)
        <3>1. \A p \in Seen : p \in UsedPlaces /\ Before(p, at)
            BY <1>1 DEF Seen
        <3>2. CASE allocates
            <4>1. at \in (Seen \cup {at}) \cap Allocating
                BY <2>3, <3>2
            <4>2. ASSUME NEW q \in Seen \cup {at}
                  PROVE  ~Before(at, q)
                <5>1. at[1] \in Nat /\ at[2] \in Nat
                    BY <1>1, PlacesAre, TextRegular
                <5>2. q = at \/ (Before(q, at) /\ q[1] \in Nat /\ q[2] \in Nat)
                    BY <1>1, <3>1, PlacesAre, TextRegular
                <5> QED
                    BY <5>1, <5>2 DEF Before
            <4>3. n = SizeGiven(At(at))
                BY <3>2 DEF i
            <4> QED
                BY <4>1, <4>2, <4>3 DEF IsSize
        <3>3. CASE ~allocates
            <4>1. (Seen \cup {at}) \cap Allocating = Seen \cap Allocating
                BY <2>3, <3>3
            <4>2. n = stack.size
                BY <3>3
            <4> QED
                BY <2>2, <4>1, <4>2 DEF IsSize
        <3> QED
            BY <3>2, <3>3
    <2> QED
        BY <2>6, <2>7, <2>8 DEF ShowsAs
<1> QED
    BY <1>2, <1>3, <1>4 DEF PassInv

\* The later passes only mark variables.
LEMMA LaterPass ==
    ASSUME PassInv, pass # "stack", pass' # "stack", text' = text,
           stack' = stack \/ \E o : HasVariable(stack, o) /\ stack' = MarkFrameStorage(stack, o)
    PROVE  PassInv'
<1>1. Seen = UsedPlaces /\ Seen' = UsedPlaces
    BY TextKept DEF Seen
<1>2. /\ UsedEarly' = UsedEarly /\ TextOK'
      /\ \A S : RefsTo(S)' = RefsTo(S) /\ \A n : IsSize(S, n)' = IsSize(S, n)
    BY TextKept DEF PassInv
<1>3. ASSUME ~UsedEarly
      PROVE  Shows(stack', RefsTo(UsedPlaces)) /\ stack'.size = stack.size
    <2>1. Shows(stack, RefsTo(UsedPlaces))
        BY <1>1, <1>3 DEF PassInv
    <2>2. CASE stack' = stack
        BY <2>1, <2>2
    <2>3. CASE \E o : HasVariable(stack, o) /\ stack' = MarkFrameStorage(stack, o)
        <3>1. PICK o : HasVariable(stack, o) /\ stack' = MarkFrameStorage(stack, o)
            BY <2>3
        <3> QED
            BY <2>1, <3>1, MarkShows
    <2> QED
        BY <2>2, <2>3
<1> QED
    BY <1>1, <1>2, <1>3 DEF PassInv

LEMMA InitPass == TranslatorInit => PassInv
<1> SUFFICES ASSUME TranslatorInit PROVE PassInv
    OBVIOUS
<1>1. TextOK /\ pass = "stack" /\ at = <<Min(text.used), 1>> /\ stack = NewStack
    BY DEF TranslatorInit, PerilogueInit, TextOK
<1>2. Min(text.used) \in text.used /\ \A b \in text.used : Min(text.used) <= b
    BY <1>1, TextRegular, LeastOf
<1>3. at[1] = Min(text.used) /\ at[2] = 1
    BY <1>1
<1>4. at \in UsedPlaces
    <2>1. 1 \in 1 .. LastOf(at[1])
        BY <1>1, <1>2, <1>3, TextRegular
    <2> QED
        BY <1>1, <1>2, <1>3, <2>1, PlacesAre
<1>5. Seen = {}
    <2>1. ASSUME NEW p \in UsedPlaces
          PROVE  ~Before(p, at)
        <3>1. p[1] \in text.used /\ p[1] \in Nat /\ p[2] \in Nat /\ p[2] >= 1
            BY <1>1, PlacesAre, TextRegular
        <3>2. at[1] \in Nat /\ at[1] <= p[1] /\ at[2] = 1
            BY <1>1, <1>2, <1>3, <3>1, TextRegular
        <3> QED
            BY <3>1, <3>2 DEF Before
    <2> QED
        BY <1>1, <2>1 DEF Seen
<1>6. RefsTo(Seen) = {} /\ IsSize(Seen, stack.size)
    BY <1>1, <1>5 DEF RefsTo, IsSize, NewStack
<1> QED
    BY <1>1, <1>4, <1>6, NothingShown DEF PassInv

LEMMA NextPass == PassInv /\ [TranslatorNext]_everything => PassInv'
<1> SUFFICES ASSUME PassInv, [TranslatorNext]_everything PROVE PassInv'
    OBVIOUS
<1>a. ASSUME UNCHANGED <<text, pass, at, stack>>
      PROVE  PassInv'
    <2>1. /\ UsedPlaces' = UsedPlaces /\ UsedEarly' = UsedEarly /\ TextOK'
          /\ \A S : RefsTo(S)' = RefsTo(S) /\ \A n : IsSize(S, n)' = IsSize(S, n)
        BY <1>a, TextKept DEF PassInv
    <2>2. Seen' = Seen
        BY <1>a, <2>1 DEF Seen
    <2> QED
        BY <1>a, <2>1, <2>2 DEF PassInv
<1>1. CASE UNCHANGED everything
    BY <1>1, <1>a DEF everything, perilogueVars
<1>2. CASE LivenessStep
    BY <1>2, <1>a DEF LivenessStep, perilogueVars
<1>3. CASE AnalyzeStack
    BY <1>3, AnalyzeStackPass
<1>4. CASE LookAt
    <2>1. pass \in {"entry", "exits"}
        BY <1>4 DEF LookAt, LookAtPlain, LookAtSave, LookAtRestore, LookAtAbiCall, Running
    <2>2. CASE \E how : Stop(how)
        BY <1>a, <2>2 DEF Stop
    <2>3. CASE Forward /\ text' = text /\
               (stack' = stack \/ \E o : /\ HasVariable(stack, o)
                                         /\ stack' = MarkFrameStorage(stack, o))
        <3>1. pass' # "stack"
            BY <2>1, <2>3 DEF Forward
        <3> QED
            BY <2>1, <2>3, <3>1, LaterPass
    <2>4. CASE LookAtPlain
        BY <2>3, <2>4 DEF LookAtPlain, Looked
    <2>5. CASE LookAtSave
        BY <2>2, <2>3, <2>5 DEF LookAtSave, Looked
    <2>6. CASE LookAtRestore
        BY <2>2, <2>3, <2>6 DEF LookAtRestore, Looked
    <2>7. CASE LookAtAbiCall
        BY <2>2, <2>3, <2>7 DEF LookAtAbiCall, Looked
    <2> QED
        BY <1>4, <2>4, <2>5, <2>6, <2>7 DEF LookAt
<1>5. CASE BindStep
    BY <1>5, <1>a DEF BindStep, perilogueVars
<1>b. CASE TakeDataOfRoot
    BY <1>b, <1>a DEF TakeDataOfRoot, Stop
<1>6. CASE StartTranslate
    BY <1>6, LaterPass DEF StartTranslate
<1>7. CASE TranslateInst
    BY <1>7, <1>a, LaterPass DEF TranslateInst, Running, Stop
<1>8. ASSUME NEW c, Running({"translate"}), EndBlock(c)
      PROVE  PassInv'
    BY <1>8, LaterPass DEF EndBlock, Running
<1>9. CASE TranslateBlockCondition
    BY <1>8, <1>9 DEF TranslateBlockCondition
<1>10. CASE TranslateOtherEnd
    BY <1>8, <1>10, <1>a DEF TranslateOtherEnd, Stop
<1> QED
    BY <1>1, <1>2, <1>3, <1>4, <1>5, <1>b, <1>6, <1>7, <1>9, <1>10 DEF TranslatorNext, PerilogueNext

LEMMA SizeIsFrame ==
    ASSUME TextOK, NEW n, IsSize(UsedPlaces, n)
    PROVE  n = FrameSize
<1>1. UsedPlaces \cap Allocating = Allocating
    BY DEF Allocating
<1>2. CASE Allocating = {}
    BY <1>1, <1>2 DEF IsSize, FrameSize
<1>3. CASE Allocating # {}
    <2> DEFINE Latest(p) == p \in Allocating /\ \A q \in Allocating : ~Before(p, q)
    <2>1. PICK p : Latest(p) /\ n = SizeGiven(At(p))
        BY <1>1, <1>3 DEF IsSize
    <2>2. ASSUME NEW u, Latest(u)
          PROVE  u = p
        <3>1. /\ u = <<u[1], u[2]>> /\ u[1] \in Nat /\ u[2] \in Nat
              /\ p = <<p[1], p[2]>> /\ p[1] \in Nat /\ p[2] \in Nat
            BY <1>1, <2>1, <2>2, PlacesAre, TextRegular
        <3>2. ~Before(u, p) /\ ~Before(p, u)
            BY <2>1, <2>2
        <3>3. u[1] = p[1] /\ u[2] = p[2]
            BY <3>1, <3>2 DEF Before
        <3> QED
            BY <3>1, <3>3
    <2> DEFINE final == CHOOSE u \in Allocating : \A q \in Allocating : ~Before(u, q)
    <2>3. final = p
        BY <2>1, <2>2
    <2>4. FrameSize = SizeGiven(At(final))
        BY Zenon, <1>3 DEF FrameSize
    <2> HIDE DEF final
    <2> QED
        BY <2>1, <2>3, <2>4
<1> QED
    BY <1>2, <1>3

LEMMA RefsAtOf ==
    ASSUME NEW o
    PROVE  RefsAt(RefsTo(UsedPlaces), o) =
               UNION {{<<At(p).va, a[2]>> : a \in {a \in Accesses(At(p)) : a[1] = o}} :
                         p \in UsedPlaces}
<1> DEFINE T(p) == {<<At(p).va, a[2]>> : a \in {a \in Accesses(At(p)) : a[1] = o}}
<1>1. ASSUME NEW x \in RefsAt(RefsTo(UsedPlaces), o)
      PROVE  \E p \in UsedPlaces : x \in T(p)
    <2>1. PICK r \in RefsTo(UsedPlaces) : r[1] = o /\ x = <<r[2], r[3]>>
        BY DEF RefsAt
    <2>2. PICK p \in UsedPlaces : r \in InstRefs(At(p))
        BY DEF RefsTo
    <2>3. PICK a \in Accesses(At(p)) : r = <<a[1], At(p).va, a[2]>>
        BY <2>2 DEF InstRefs
    <2>4. a[1] = o /\ x = <<At(p).va, a[2]>>
        BY <2>1, <2>3
    <2> QED
        BY <2>3, <2>4
<1>2. ASSUME NEW p \in UsedPlaces, NEW x \in T(p)
      PROVE  x \in RefsAt(RefsTo(UsedPlaces), o)
    <2>1. PICK a \in Accesses(At(p)) : a[1] = o /\ x = <<At(p).va, a[2]>>
        OBVIOUS
    <2> DEFINE r == <<a[1], At(p).va, a[2]>>
    <2>2. r \in InstRefs(At(p))
        BY DEF InstRefs
    <2>3. r[1] = o /\ x = <<r[2], r[3]>>
        BY <2>1
    <2> HIDE DEF r
    <2>4. r \in RefsTo(UsedPlaces)
        BY <2>2 DEF RefsTo
    <2> QED
        BY <2>3, <2>4 DEF RefsAt
<1> QED
    BY <1>1, <1>2

LEMMA OffsetsOfRefs == OffsetsOf(RefsTo(UsedPlaces)) = AccessedOffsets
<1>1. ASSUME NEW o \in OffsetsOf(RefsTo(UsedPlaces))
      PROVE  o \in AccessedOffsets
    <2>1. PICK r \in RefsTo(UsedPlaces) : o = r[1]
        BY DEF OffsetsOf
    <2>2. PICK p \in UsedPlaces : r \in InstRefs(At(p))
        BY DEF RefsTo
    <2>3. PICK a \in Accesses(At(p)) : r = <<a[1], At(p).va, a[2]>>
        BY <2>2 DEF InstRefs
    <2>4. a[1] = o
        BY <2>1, <2>3
    <2> QED
        BY <2>3, <2>4 DEF AccessedOffsets
<1>2. ASSUME NEW o \in AccessedOffsets
      PROVE  o \in OffsetsOf(RefsTo(UsedPlaces))
    <2>0. PICK p \in UsedPlaces : \E a \in Accesses(At(p)) : o = a[1]
        BY DEF AccessedOffsets
    <2>1. PICK a \in Accesses(At(p)) : o = a[1]
        BY <2>0
    <2> DEFINE r == <<a[1], At(p).va, a[2]>>
    <2>2. r \in InstRefs(At(p)) /\ r[1] = o
        BY <2>1 DEF InstRefs
    <2> HIDE DEF r
    <2>3. r \in RefsTo(UsedPlaces)
        BY <2>2 DEF RefsTo
    <2> QED
        BY <2>2, <2>3 DEF OffsetsOf
<1> QED
    BY <1>1, <1>2

\* The stack analysis finds each slot of a routine once, with all that use it, in
\* the region it belongs to, whatever the routine, although it judges by the size
\* of the frame it has met so far; and no later pass changes that.
THEOREM StackAlwaysExact == TranslatorSpec => []RefsExact
<1>1. PassInv => RefsExact
    <2> SUFFICES ASSUME PassInv, StackSeen, ~UsedEarly
                 PROVE  RefsExact
        BY DEF RefsExact
    <2>1. Shows(stack, RefsTo(UsedPlaces)) /\ IsSize(UsedPlaces, stack.size) /\ TextOK
        BY DEF PassInv, Seen, StackSeen
    <2>2. stack.size = FrameSize
        BY <2>1, SizeIsFrame
    <2>3. OffsetsOf(RefsTo(UsedPlaces)) = AccessedOffsets
        BY OffsetsOfRefs
    <2>4. ASSUME NEW o \in AccessedOffsets
          PROVE  variable_for_offset(stack, o).refs =
                     UNION {{<<At(p).va, a[2]>> : a \in {a \in Accesses(At(p)) : a[1] = o}} :
                               p \in UsedPlaces}
        <3>1. variable_for_offset(stack, o).refs = RefsAt(RefsTo(UsedPlaces), o)
            BY <2>1, <2>3 DEF Shows
        <3> QED
            BY <3>1, RefsAtOf
    <2> QED
        BY <2>1, <2>2, <2>3, <2>4 DEF RefsExact, Shows
<1> QED
    BY <1>1, InitPass, NextPass, PTL DEF TranslatorSpec

-----------------------------------------------------------------------------
(* The passes one after the other *)

Passes == {"stack", "entry", "exits", "over", "translate", "translated"}

\* Where the passes are, and what is finished by then.
PassesInOrder ==
    /\ routine = RoutineOf(text)
    /\ pass \in Passes
    /\ pass # "stack" => pc = "done"
    /\ pass \in {"stack", "entry", "exits"} => at \in UsedPlaces
    /\ pass \in {"translate", "translated"} => Collected
    /\ pass = "translate" => /\ at = <<at[1], at[2]>> /\ at[1] \in text.used
                             /\ at[2] \in Nat /\ at[2] >= 1
    /\ exits \subseteq text.used
    /\ fault # "none" => pass \in {"entry", "exits", "over", "translate"}

TInv == PassInv /\ BInv /\ FixInv /\ VInv /\ PassesInOrder

LEMMA TranslatorBinds ==
    ASSUME TextOK, BInv, pass = "over" => pc = "done", TranslatorNext
    PROVE  [BindNext]_allVars
<1>1. CASE UNCHANGED <<vars, bindVars>>
    BY <1>1 DEF allVars
<1>2. CASE LivenessStep /\ UNCHANGED bindVars
    <2>1. todo \subseteq Block
        BY DEF BInv, IInv, TypeOK
    <2>2. \A b : PropagateGuesses(b) \/ BackpropagateOutputs(b) => b \in Block
        BY <2>1 DEF PropagateGuesses, BackpropagateOutputs
    <2>3. Next
        BY <1>2, <2>2, Zenon DEF LivenessStep, Next
    <2> QED
        BY <1>2, <2>3 DEF BindNext
<1>3. CASE BindStep
    <2>1. pc = "done" /\ UNCHANGED vars
        BY <1>3 DEF BindStep
    <2>2. /\ unbound \subseteq Block /\ \A t \in block_temps : t.reg \in Reg
          /\ forwarding_list \in [Block -> SUBSET block_temps]
        BY DEF BInv, BindTypeOK, IsBlockTemp
    <2>3. CASE ComputeBlockBinds(Min(unbound))
        <3>1. Min(unbound) \in Block
            BY <2>2, <2>3 DEF ComputeBlockBinds
        <3> QED
            BY <2>1, <2>3, <3>1, Zenon DEF BindNext
    <2>4. CASE StartUnite \/ Collect
        BY <2>1, <2>4 DEF BindNext
    <2>5. ASSUME NEW waiting, waiting = {v \in Block : forwarding_list[v] # {}},
                 waiting # {}, NEW reg, Unite(Min(waiting), reg)
          PROVE  BindNext
        <3>1. Block \subseteq Nat
            BY TextsAssumption DEF TextOK, IsText
        <3>2. Min(waiting) \in Block
            BY <2>5, <3>1, LeastOf
        <3>3. \E t \in forwarding_list[Min(waiting)] : t.reg = reg
            BY <2>5 DEF Unite
        <3>4. reg \in Reg
            BY <2>2, <3>2, <3>3
        <3> QED
            BY <2>1, <2>5, <3>2, <3>4, Zenon DEF BindNext
    <2>6. \/ ComputeBlockBinds(Min(unbound)) \/ StartUnite \/ Collect
          \/ LET waiting == {v \in Block : forwarding_list[v] # {}}
             IN  waiting # {} /\ \E reg : Unite(Min(waiting), reg)
        BY <1>3, Zenon DEF BindStep
    <2> QED
        BY <2>3, <2>4, <2>5, <2>6
<1>4. CASE AnalyzeStack /\ UNCHANGED bindVars
    BY <1>1, <1>4 DEF AnalyzeStack
<1>5. CASE LookAt /\ UNCHANGED bindVars
    BY <1>1, <1>5 DEF LookAt, LookAtPlain, LookAtSave, LookAtRestore, LookAtAbiCall, Looked, Stop
<1>6. CASE StartTranslate
    BY <1>1, <1>6 DEF StartTranslate
<1>7. CASE TranslateInst
    BY <1>1, <1>7 DEF TranslateInst, Stop
<1>8. CASE TranslateBlockCondition
    BY <1>1, <1>8 DEF TranslateBlockCondition, EndBlock
<1>9. CASE TranslateOtherEnd
    BY <1>1, <1>9 DEF TranslateOtherEnd, EndBlock, Stop
<1>10. CASE TakeDataOfRoot
    BY <1>1, <1>10 DEF TakeDataOfRoot, Stop
<1> QED
    BY <1>2, <1>3, <1>4, <1>5, <1>6, <1>7, <1>8, <1>9, <1>10 DEF TranslatorNext, PerilogueNext

LEMMA InitTInv == TranslatorInit => TInv
<1> SUFFICES ASSUME TranslatorInit PROVE TInv
    OBVIOUS
<1>1. PassInv
    BY InitPass
<1>2. BindInit
    <2>1. text \in Texts /\ routine = RoutineOf(text) /\ Fresh /\ Unbound
        BY DEF TranslatorInit, PerilogueInit
    <2>2. Init
        BY <2>1, TextsAssumption DEF Init
    <2> QED
        BY <2>1, <2>2 DEF BindInit
<1>3. BInv /\ FixInv /\ VInv
    BY <1>2, InitBInv, InitFixInv, InitVInv DEF BindInit
<1>4. PassesInOrder
    BY <1>1 DEF PassInv, PassesInOrder, Passes, TranslatorInit, PerilogueInit
<1> QED
    BY <1>1, <1>3, <1>4 DEF TInv

\* What the walk over the instructions leaves.
Walked ==
    /\ pass' \in {"stack", "entry", "exits", "over"}
    /\ pass # "stack" => pass' # "stack"
    /\ pass' \in {"stack", "entry", "exits"} => at' \in UsedPlaces
    /\ exits' \subseteq text.used

LEMMA ForwardWalks ==
    ASSUME TextOK, at \in UsedPlaces, exits \subseteq text.used, Forward, text' = text,
           pass \in {"stack", "entry", "exits"}
    PROVE  Walked
<1> DEFINE b == at[1]
<1>1. /\ b \in text.used /\ at[2] \in 1 .. LastOf(b) /\ LastOf(b) \in Nat
    BY PlacesAre, TextRegular
<1>2. ASSUME NEW c \in text.used
      PROVE  <<c, 1>> \in UsedPlaces
    <2>1. 1 \in 1 .. LastOf(c)
        BY TextRegular
    <2>2. <<c, 1>>[1] = c /\ <<c, 1>>[2] = 1
        OBVIOUS
    <2> QED
        BY <2>1, <2>2, PlacesAre
<1>3. CASE pass = "stack"
    <2>1. pass' = "stack" => at' \in UsedPlaces
        BY <1>3, ForwardSeen
    <2>2. pass' \in {"stack", "entry"} /\ exits' = exits
        BY <1>3 DEF Forward
    <2>3. pass' = "entry" => at' = <<text.entry, 1>>
        BY <1>3 DEF Forward
    <2>4. pass' = "entry" => at' \in UsedPlaces
        BY <1>2, <2>3, TextRegular
    <2> QED
        BY <1>3, <2>1, <2>2, <2>4 DEF Walked
<1>4. CASE pass \in {"entry", "exits"}
    <2>1. CASE at[2] < LastOf(b)
        <3>1. at' = <<b, at[2] + 1>> /\ pass' = pass /\ exits' = exits
            BY <2>1 DEF Forward
        <3>2. at[2] + 1 \in 1 .. LastOf(b) /\ at'[1] = b /\ at'[2] = at[2] + 1
            BY <1>1, <2>1, <3>1
        <3>3. at' \in UsedPlaces
            BY <1>1, <3>1, <3>2, PlacesAre
        <3> QED
            BY <1>4, <3>1, <3>3 DEF Walked
    <2>2. CASE ~(at[2] < LastOf(b)) /\ exits = {}
        BY <1>4, <2>2 DEF Forward, Walked
    <2>3. CASE ~(at[2] < LastOf(b)) /\ exits # {}
        <3>1. PICK x \in exits : at' = <<x, 1>> /\ pass' = "exits" /\ exits' = exits \ {x}
            BY <1>4, <2>3 DEF Forward
        <3>2. at' \in UsedPlaces
            BY <1>2, <3>1
        <3> QED
            BY <1>4, <3>1, <3>2 DEF Walked
    <2> QED
        BY <2>1, <2>2, <2>3
<1> QED
    BY <1>3, <1>4

LEMMA WalkOrder ==
    ASSUME TInv, Running({"stack", "entry", "exits"}), Forward, UNCHANGED <<vars, text, fault>>
    PROVE  PassesInOrder'
<1>1. /\ pc = "done" /\ fault = "none" /\ pass \in {"stack", "entry", "exits"} /\ TextOK
      /\ at \in UsedPlaces /\ exits \subseteq text.used /\ routine = RoutineOf(text)
    BY DEF TInv, PassInv, PassesInOrder, Running
<1>2. Walked
    BY <1>1, ForwardWalks
<1>3. UsedPlaces' = UsedPlaces
    BY TextKept
<1>4. pc' = "done" /\ fault' = "none" /\ routine' = RoutineOf(text')
    BY <1>1 DEF vars
<1> QED
    BY <1>2, <1>3, <1>4 DEF Walked, PassesInOrder, Passes

LEMMA StopOrder ==
    ASSUME TInv, pass \in {"entry", "exits", "over", "translate"}, UNCHANGED <<stage, gtemp>>,
           NEW how, Stop(how)
    PROVE  PassesInOrder'
<1>1. UsedPlaces' = UsedPlaces /\ routine' = routine /\ pc' = pc
    BY TextKept DEF Stop, vars
<1> QED
    BY <1>1 DEF TInv, PassesInOrder, Stop, Collected

LEMMA NextOrder ==
    ASSUME TInv, TranslatorNext
    PROVE  PassesInOrder'
<1>1. CASE LivenessStep /\ UNCHANGED bindVars
    <2>1. pass = "stack"
        BY <1>1 DEF TInv, PassesInOrder, LivenessStep, EvalLivenessLocal, PropagateGuesses,
                    EndSweep, BackpropagateOutputs, ClearUnusedSections, FindRoutineParams
    <2>2. routine' = routine
        BY <1>1 DEF LivenessStep, EvalLivenessLocal, PropagateGuesses,
                    EndSweep, BackpropagateOutputs, ClearUnusedSections, FindRoutineParams
    <2>3. UsedPlaces' = UsedPlaces
        BY <1>1, TextKept DEF LivenessStep, perilogueVars
    <2> QED
        BY <1>1, <2>1, <2>2, <2>3 DEF TInv, PassesInOrder, LivenessStep, perilogueVars
<1>2. CASE AnalyzeStack
    <2>1. Running({"stack", "entry", "exits"})
        BY <1>2 DEF AnalyzeStack, Running
    <2> QED
        BY <1>2, <2>1, WalkOrder DEF AnalyzeStack
<1>3. CASE LookAt /\ UNCHANGED bindVars
    <2>1. Running({"entry", "exits"})
        BY <1>3 DEF LookAt, LookAtPlain, LookAtSave, LookAtRestore, LookAtAbiCall
    <2>2. Running({"stack", "entry", "exits"}) /\ pass \in {"entry", "exits"}
        BY <2>1 DEF Running
    <2>3. \/ \E how : Stop(how)
          \/ Forward /\ UNCHANGED <<vars, text, fault>>
        BY <1>3 DEF LookAt, LookAtPlain, LookAtSave, LookAtRestore, LookAtAbiCall, Looked
    <2> QED
        BY <1>3, <2>2, <2>3, WalkOrder, StopOrder DEF bindVars
<1>4. CASE BindStep
    <2>1. /\ UsedPlaces' = UsedPlaces /\ pass = "over" /\ pass' = "over" /\ fault' = fault
          /\ routine' = routine /\ pc' = pc /\ text' = text /\ exits' = exits
        BY <1>4, TextKept DEF BindStep, perilogueVars, vars
    <2> QED
        BY <2>1 DEF TInv, PassesInOrder, Passes
<1>5. CASE StartTranslate
    <2>1. /\ pass = "over" /\ Collected /\ pass' = "translate" /\ at' = <<text.entry, 1>>
          /\ routine' = routine /\ pc' = pc /\ text' = text /\ exits' = exits
          /\ fault' = fault /\ stage' = stage
        BY <1>5 DEF StartTranslate, vars, bindVars
    <2>2. at'[1] = text.entry /\ at'[2] = 1 /\ text.entry \in text.used
        BY <2>1, TextRegular DEF TInv, PassInv
    <2> QED
        BY <2>1, <2>2 DEF TInv, PassesInOrder, Passes, Collected
<1>6. CASE TranslateInst
    <2>1. Running({"translate"})
        BY <1>6 DEF TranslateInst
    <2>2. CASE \E how : Stop(how) /\ UNCHANGED bindVars
        BY <2>1, <2>2, StopOrder DEF bindVars, Running
    <2>3. CASE /\ at' = <<at[1], at[2] + 1>>
               /\ UNCHANGED <<vars, bindVars, text, pass, exits, stack, types, fault>>
        <3>1. at'[1] = at[1] /\ at'[2] = at[2] + 1
            BY <2>3
        <3> QED
            BY <2>1, <2>3, <3>1
            DEF TInv, PassesInOrder, Passes, Collected, Running, vars, bindVars
    <2> QED
        BY <1>6, <2>2, <2>3 DEF TranslateInst
<1>7. ASSUME NEW c, Running({"translate"}), EndBlock(c)
      PROVE  PassesInOrder'
    <2>1. /\ pass = "translate" /\ Collected /\ pc = "done" /\ fault = "none"
          /\ exits \subseteq text.used /\ routine = RoutineOf(text) /\ TextOK
        BY <1>7 DEF Running, TInv, PassInv, PassesInOrder
    <2>2. /\ UNCHANGED <<pc, routine, stage, text, exits, fault>>
        BY <1>7 DEF EndBlock, vars, bindVars
    <2> DEFINE left == Unvisited \ {at[1]}
    <2>3. CASE left = {}
        <3>1. pass' = "translated"
            BY <1>7, <2>3 DEF EndBlock
        <3> QED
            BY <2>1, <2>2, <3>1 DEF PassesInOrder, Passes, Collected
    <2>4. CASE left # {}
        <3>1. pass' = pass /\ at' = <<Min(left), 1>>
            BY <1>7, <2>4 DEF EndBlock
        <3>2. left \subseteq text.used /\ left \subseteq Nat
            BY <2>1, TextRegular DEF Unvisited
        <3> HIDE DEF left
        <3>3. Min(left) \in text.used
            BY <2>4, <3>2, LeastOf
        <3>4. at'[1] = Min(left) /\ at'[2] = 1
            BY <3>1
        <3> QED
            BY <2>1, <2>2, <3>1, <3>3, <3>4 DEF PassesInOrder, Passes, Collected
    <2> QED
        BY <2>3, <2>4
<1>8. CASE TranslateBlockCondition
    BY <1>7, <1>8 DEF TranslateBlockCondition
<1>9. CASE TranslateOtherEnd
    <2>1. CASE Stop("assert") /\ UNCHANGED bindVars
        BY <1>9, <2>1, StopOrder DEF TranslateOtherEnd, Running, bindVars
    <2> QED
        BY <1>7, <1>9, <2>1 DEF TranslateOtherEnd
<1>10. CASE TakeDataOfRoot
    BY <1>10, StopOrder DEF TakeDataOfRoot, Running, bindVars
<1> QED
    BY <1>1, <1>2, <1>3, <1>4, <1>5, <1>6, <1>8, <1>9, <1>10 DEF TranslatorNext, PerilogueNext

LEMMA NextTInv == TInv /\ [TranslatorNext]_everything => TInv'
<1> SUFFICES ASSUME TInv, [TranslatorNext]_everything PROVE TInv'
    OBVIOUS
<1>1. PassInv'
    BY NextPass DEF TInv
<1>2. [BindNext]_allVars
    BY TranslatorBinds DEF TInv, PassInv, PassesInOrder, everything, allVars
<1>3. BInv' /\ FixInv' /\ VInv'
    BY <1>2, NextBInv, NextVInv DEF TInv
<1>4. PassesInOrder'
    <2>1. CASE UNCHANGED everything
        <3>1. /\ UsedPlaces' = UsedPlaces
              /\ UNCHANGED <<pc, routine, stage, text, exits, fault, pass, at>>
            BY <2>1, TextKept DEF everything, vars, bindVars, perilogueVars
        <3> QED
            BY <3>1 DEF TInv, PassesInOrder, Collected
    <2> QED
        BY <2>1, NextOrder
<1> QED
    BY <1>1, <1>3, <1>4 DEF TInv

-----------------------------------------------------------------------------
(* Why the program stops *)

\* StopsExplained, of any way to stop.
Explains(how) ==
    LET b == at[1]  k == at[2]
        i == InstAt(b, IF k <= LastOf(b) THEN k ELSE LastOf(b))
    IN  /\ how = "null" =>
              \/ NamesBelow(i) \/ NamesAbiReg(i) \/ UsedEarly
              \/ pass = "translate" /\ NamesDestroyed(b, k)
        /\ how = "throw" =>
              \/ pass = "over" /\ "is_real" \in FirstTest /\ Unbound
              \/ i.op = "kAddis" /\ i.word.a = 0
              \/ CallsAbi /\ InstAt(b, k - 1).word.a = 0
        /\ how = "unreachable" => i.op \in {"kAdde", "kBcctr", "kBclr"}
        /\ how = "assert" =>
              IF k > LastOf(b) THEN i.op # "kBc"
              ELSE \/ CallsAbi /\ k = 1
                   \/ "kLongMode" \in i.flags \/ NamesR2(i)

LEMMA ExplainsFault == StopsExplained <=> Explains(fault)
BY DEF StopsExplained, Explains

\* What explains a stop is where it was.
LEMMA ExplainsKept ==
    ASSUME UNCHANGED <<vars, text, pass, at>>, pass = "over" => UNCHANGED bindVars,
           NEW how, Explains(how)
    PROVE  Explains(how)'
<1>1. /\ \A b, k : InstAt(b, k)' = InstAt(b, k)
      /\ \A b : LastOf(b)' = LastOf(b)
      /\ Here' = Here
    BY DEF InstAt, LastOf, Here
<1>2. UsedEarly' = UsedEarly
    BY TextKept
<1>3. CallsAbi' = CallsAbi
    BY <1>1 DEF CallsAbi
<1>4. \A b, k : NamesDestroyed(b, k)' = NamesDestroyed(b, k)
    BY DEF NamesDestroyed, Destroyed, Code, vars
<1>5. at' = at /\ pass' = pass
    OBVIOUS
<1>6. pass = "over" /\ Unbound => Unbound'
    BY DEF Unbound, bindVars
<1> QED
    BY <1>1, <1>2, <1>3, <1>4, <1>5, <1>6 DEF Explains

\* How it stops at an instruction.
HereExplains(how) ==
    /\ how = "null" =>
          \/ NamesBelow(Here) \/ NamesAbiReg(Here) \/ UsedEarly
          \/ pass = "translate" /\ NamesDestroyed(at[1], at[2])
    /\ how = "throw" =>
          \/ Here.op = "kAddis" /\ Here.word.a = 0
          \/ CallsAbi /\ InstAt(at[1], at[2] - 1).word.a = 0
    /\ how = "unreachable" => Here.op \in {"kAdde", "kBcctr", "kBclr"}
    /\ how = "assert" =>
          (CallsAbi /\ at[2] = 1) \/ "kLongMode" \in Here.flags \/ NamesR2(Here)

LEMMA ExplainsHere ==
    ASSUME TextOK, at \in UsedPlaces, NEW how, HereExplains(how)
    PROVE  Explains(how)
<1>1. at[2] <= LastOf(at[1]) /\ ~(at[2] > LastOf(at[1]))
    BY PlacesAre, TextRegular
<1> QED
    BY <1>1 DEF Explains, HereExplains, Here

\* The stack analysis has found what instructions name.
LEMMA AccessFound ==
    ASSUME PassInv, pass # "stack", ~UsedEarly, NEW p \in UsedPlaces,
           NEW a \in Accesses(At(p))
    PROVE  HasVariable(stack, a[1])
<1>1. Shows(stack, RefsTo(UsedPlaces))
    BY DEF PassInv, Seen
<1>2. a[1] \in OffsetsOf(RefsTo(UsedPlaces))
    BY OffsetsOfRefs DEF AccessedOffsets
<1>3. a[1] \in Int /\ stack.size \in Nat
    BY <1>1, <1>2 DEF Shows, IsStack
<1>4. IF a[1] <= stack.size + 4 THEN a[1] \in DOMAIN stack.vars ELSE a[1] \in DOMAIN stack.params
    BY <1>1, <1>2, <1>3 DEF Shows
<1> QED
    BY <1>3, <1>4 DEF HasVariable, RegionOf, in_param_region

LEMMA SlotFound ==
    ASSUME PassInv, pass # "stack", ~UsedEarly, NEW p \in UsedPlaces,
           NEW x \in Operands(At(p)), IsSlot(x), ~NamesBelow(At(p))
    PROVE  HasVariable(stack, x.off)
<1> DEFINE i == At(p)
<1>1. Regular(i)
    BY TextRegular DEF PassInv
<1>2. x.off \in Int
    BY <1>1 DEF Regular, Operands, Range, FirstSlot, IsSlot
<1>3. x.off >= 0
    BY <1>2 DEF NamesBelow
<1>4. x.off \in Offsets(x)
    BY <1>2, <1>3 DEF Offsets, Abs
<1>5. \E how : <<x.off, how>> \in Accesses(i)
    <2>1. CASE x \in Range(i.reads)
        <3>1. x.off \in UNION {Offsets(y) : y \in Slots(i.reads)}
            BY <1>4, <2>1 DEF Slots
        <3>2. <<x.off, "kRead">> \in Accesses(i)
            BY <3>1 DEF Accesses
        <3> QED
            BY <3>2
    <2>2. CASE x \in Range(i.writes)
        <3>1. x.off \in UNION {Offsets(y) : y \in Slots(i.writes)}
            BY <1>4, <2>2 DEF Slots
        <3>2. <<x.off, "kWrite">> \in Accesses(i)
            BY <3>1 DEF Accesses
        <3> QED
            BY <3>2
    <2> QED
        BY <2>1, <2>2 DEF Operands
<1>6. PICK how : <<x.off, how>> \in Accesses(i)
    BY <1>5
<1>7. <<x.off, how>>[1] = x.off
    OBVIOUS
<1> QED
    BY <1>6, <1>7, AccessFound

\* An address that is computed from r1.
LEMMA AddressFound ==
    ASSUME PassInv, pass # "stack", ~UsedEarly, NEW p \in UsedPlaces,
           At(p).op \in {"kAddi", "kAddic"}, IsR1(At(p).reads[1])
    PROVE  HasVariable(stack, At(p).reads[2].val)
<1> DEFINE a == <<At(p).reads[2].val, "kAddress">>
<1>1. a \in Accesses(At(p))
    BY DEF Accesses
<1>2. a[1] = At(p).reads[2].val
    OBVIOUS
<1> HIDE DEF a
<1> QED
    BY <1>1, <1>2, AccessFound

LEMMA PlaceDecoded ==
    ASSUME TextOK, NEW p \in UsedPlaces
    PROVE  /\ WellPlaced(At(p)) /\ p[1] \in Block
           /\ \A x \in Operands(At(p)) : /\ x.kind = "GPRSlice" => x.reg \in Reg
                                         /\ x.kind = "MemRegOff" => x.base \in Reg
<1> DEFINE b == p[1]
           i == At(p)
<1>1. IsText(text)
    BY TextsAssumption DEF TextOK
<1>2. b \in text.used /\ p[2] \in 1 .. LastOf(b) /\ b \in Block
    BY <1>1, PlacesAre DEF IsText
<1>3. text.code[b] \in Seq(Range(text.code[b]))
    BY <1>1, <1>2 DEF IsText
<1>4. i \in Range(text.code[b])
    BY <1>2, <1>3 DEF At, InstAt, Range, LastOf
<1>5. /\ i.word \in Word /\ i = Disasm(i.va, i.word)
      /\ \A x \in Operands(i) : /\ x.kind = "GPRSlice" => x.reg \in Reg
                                /\ x.kind = "MemRegOff" => x.base \in Reg
    BY <1>1, <1>2, <1>4 DEF IsText
<1> HIDE DEF i
<1>6. WellPlaced(Disasm(i.va, i.word))
    BY <1>5, InstructionPlaced
<1> QED
    BY <1>2, <1>5, <1>6 DEF i

LEMMA LookStops ==
    ASSUME TInv, LookAt, fault' # "none"
    PROVE  StopsExplained'
<1>1. Running({"entry", "exits"})
    BY DEF LookAt, LookAtPlain, LookAtSave, LookAtRestore, LookAtAbiCall
<1>2. /\ at \in UsedPlaces /\ pass \notin {"stack", "over"} /\ PassInv /\ TextOK
      /\ fault = "none"
    BY <1>1 DEF Running, TInv, PassInv, PassesInOrder
<1>3. Here = At(at) /\ WellPlaced(Here)
    BY <1>2, PlaceDecoded DEF Here, At
<1>4. ASSUME NEW how, Stop(how), HereExplains(how)
      PROVE  StopsExplained'
    <2>1. Explains(how)'
        BY <1>2, <1>4, ExplainsHere, ExplainsKept DEF Stop
    <2>2. fault' = how
        BY <1>4 DEF Stop
    <2> QED
        BY <2>1, <2>2 DEF StopsExplained, Explains
<1>5. CASE LookAtPlain
    BY <1>2, <1>5 DEF LookAtPlain, Looked
<1>6. CASE LookAtSave
    <2>1. /\ Here.op \in {"kStw", "kStmw"} /\ Here.word.a = 1
          /\ ~HasVariable(stack, Here.writes[1].off) /\ Stop("null")
        BY <1>2, <1>6 DEF LookAtSave, Looked, OnFrame
    <2>2. /\ 1 \in DOMAIN Here.writes /\ IsSlot(Here.writes[1])
        BY <1>3, <2>1 DEF WellPlaced, IsSlot
    <2>3. Here.writes[1] \in Operands(Here)
        BY <2>2 DEF Operands, Range
    <2>4. NamesBelow(Here) \/ UsedEarly
        BY <1>2, <1>3, <2>1, <2>2, <2>3, SlotFound
    <2>5. HereExplains("null")
        BY <2>4 DEF HereExplains
    <2> QED
        BY <1>4, <2>1, <2>5
<1>7. CASE LookAtRestore
    <2>1. /\ Here.op \in {"kLwz", "kLmw"} /\ Here.word.a = 1
          /\ ~HasVariable(stack, Here.reads[1].off) /\ Stop("null")
        BY <1>2, <1>7 DEF LookAtRestore, Looked, OnFrame
    <2>2. /\ 1 \in DOMAIN Here.reads /\ IsSlot(Here.reads[1])
        BY <1>3, <2>1 DEF WellPlaced, IsSlot
    <2>3. Here.reads[1] \in Operands(Here)
        BY <2>2 DEF Operands, Range
    <2>4. NamesBelow(Here) \/ UsedEarly
        BY <1>2, <1>3, <2>1, <2>2, <2>3, SlotFound
    <2>5. HereExplains("null")
        BY <2>4 DEF HereExplains
    <2> QED
        BY <1>4, <2>1, <2>5
<1>8. CASE LookAtAbiCall
    <2> DEFINE p == <<at[1], at[2] - 1>>
               base == InstAt(at[1], at[2] - 1)
    <2>1. CallsAbi /\ base = At(p)
        BY <1>8 DEF LookAtAbiCall, At
    <2>2. CASE at[2] = 1
        <3>1. Stop("assert")
            BY <1>8, <2>2 DEF LookAtAbiCall
        <3>2. HereExplains("assert")
            BY <2>1, <2>2 DEF HereExplains
        <3> QED
            BY <1>4, <3>1, <3>2
    <2>3. CASE at[2] # 1
        <3>1. p \in UsedPlaces
            <4>1. at[1] \in text.used /\ at[2] \in 1 .. LastOf(at[1]) /\ LastOf(at[1]) \in Nat
                BY <1>2, PlacesAre, TextRegular
            <4>2. p[1] = at[1] /\ p[2] = at[2] - 1 /\ at[2] - 1 \in 1 .. LastOf(at[1])
                BY <2>3, <4>1
            <4> QED
                BY <4>1, <4>2, PlacesAre
        <3>2. base.op = "kAddi" /\ \/ base.word.a = 0 /\ Stop("throw")
                                   \/ /\ base.word.a = 1
                                      /\ ~HasVariable(stack, base.reads[2].val)
                                      /\ Stop("null")
            BY <1>2, <1>8, <2>3 DEF LookAtAbiCall, Looked
        <3>3. CASE base.word.a = 0 /\ Stop("throw")
            <4>1. HereExplains("throw")
                BY <2>1, <3>3 DEF HereExplains
            <4> QED
                BY <1>4, <3>3, <4>1
        <3>4. CASE /\ base.word.a = 1 /\ ~HasVariable(stack, base.reads[2].val)
                   /\ Stop("null")
            <4>1. WellPlaced(base)
                BY <1>2, <2>1, <3>1, PlaceDecoded
            <4>2. IsR1(base.reads[1])
                BY <3>2, <3>4, <4>1 DEF WellPlaced, IsR1
            <4>3. UsedEarly
                BY <1>2, <2>1, <3>1, <3>2, <3>4, <4>2, AddressFound
            <4>4. HereExplains("null")
                BY <4>3 DEF HereExplains
            <4> QED
                BY <1>4, <3>4, <4>4
        <3> QED
            BY <3>2, <3>3, <3>4
    <2> QED
        BY <2>2, <2>3
<1> QED
    BY <1>5, <1>6, <1>7, <1>8 DEF LookAt

\* An operand that is no stop, or one that is explained.
Sound(o) == o[1] = "stop" => HereExplains(o[2])

LEMMA TupleHead ==
    /\ \A a, b : <<a, b>>[1] = a /\ <<a, b>>[2] = b
    /\ \A a, b, c : <<a, b, c>>[1] = a
OBVIOUS

\* Where the translator asks for operands.
Translating ==
    /\ TInv /\ pass = "translate" /\ at \in UsedPlaces
    /\ Here.op \in OperandOps

\* A register that is read or written has a temporary, unless there is a reason.
LEMMA RegisterFound ==
    ASSUME Translating, NEW r \in Reg \ AbiRegs, query_temp(r) = {},
           r \in View(Here).reads \cup View(Here).writes
    PROVE  NamesDestroyed(at[1], at[2])
<1> DEFINE b == at[1]
           k == at[2]
<1>1. /\ TextOK /\ BInv /\ Collected /\ routine = RoutineOf(text)
      /\ at \in UsedPlaces /\ Here = At(at)
    BY DEF Translating, TInv, PassInv, PassesInOrder, Here, At
<1>2. WellPlaced(Here) /\ b \in Block /\ b \in text.used /\ k \in 1 .. LastOf(b)
    BY <1>1, PlaceDecoded, PlacesAre
<1>3. "kWritesLR" \notin Here.flags
    BY <1>2 DEF WellPlaced, Translating
<1>4. k \in DOMAIN text.code[b]
    <2>1. IsText(text)
        BY <1>1, TextsAssumption DEF TextOK
    <2>2. text.code[b] \in Seq(Range(text.code[b]))
        BY <1>2, <2>1 DEF IsText
    <2> QED
        BY <1>2, <2>2 DEF LastOf
<1>5. Code(b) = [j \in DOMAIN text.code[b] |-> View(text.code[b][j])]
    BY <1>1, <1>2 DEF Code, RoutineOf
<1>6. Code(b)[k] = View(Here)
    BY <1>4, <1>5 DEF Here, InstAt
<1>7. View(Here).op = "other"
    BY <1>3 DEF View
<1>8. k \in 1 .. Len(Code(b))
    <2>1. Code(b) \in Seq(Inst)
        BY <1>1, <1>2 DEF BInv, IInv, TypeOK, IsRoutine, Code
    <2> QED
        BY <1>4, <1>5, <2>1
<1>9. TempsAt(b, k, r) = {}
    BY DEF query_temp
<1>10. Cardinality(TempsAt(b, k, r)) # 1
    BY <1>9, FS_EmptySet
<1>11. OperandsBound
    BY <1>1, BInvOperandsBound
<1>12. r \notin Def(Code(b)[k])
    BY <1>1, <1>2, <1>8, <1>10, <1>11 DEF OperandsBound
<1>13. r \in Use(Code(b)[k])
    BY <1>6, <1>7, <1>12 DEF Use, Def
<1>14. Destroyed(b, k, r)
    BY <1>1, <1>2, <1>8, <1>10, <1>11, <1>13 DEF OperandsBound
<1> QED
    BY <1>13, <1>14 DEF NamesDestroyed

\* What the liveness analysis sees of an operand.
LEMMA OperandViewed ==
    ASSUME NEW i, "kWritesLR" \notin i.flags, NEW r \in Reg,
           NEW x \in Operands(i), \/ x.kind = "GPRSlice" /\ r = x.reg
                                  \/ x.kind = "MemRegOff" /\ r = x.base
    PROVE  r \in View(i).reads \cup View(i).writes
<1>1. r \in uses_for_read(x)
    BY DEF uses_for_read
<1>2. CASE x \in Range(i.reads)
    BY <1>1, <1>2 DEF View
<1>3. CASE x \in Range(i.writes) /\ x.kind = "GPRSlice"
    BY <1>1, <1>3 DEF View, defs_for_write
<1>4. CASE x \in Range(i.writes) /\ x.kind = "MemRegOff"
    BY <1>1, <1>4 DEF View, uses_for_write
<1> QED
    BY <1>2, <1>3, <1>4 DEF Operands

LEMMA SlotSound ==
    ASSUME NEW o, NEW addrof, HasVariable(stack, o) \/ HereExplains("null")
    PROVE  Sound(Slot(o, addrof))
BY DEF Slot, Sound

LEMMA OperandSound ==
    ASSUME Translating, NEW x \in Operands(Here), Plain(x) \/ x.kind = "MemRegOff",
           x.kind = "GPRSlice" /\ x.reg \in AbiRegs => NamesAbiReg(Here)
    PROVE  Sound(translate_op(x))
<1>1. /\ TextOK /\ PassInv /\ pass = "translate" /\ at \in UsedPlaces /\ Here = At(at)
    BY DEF Translating, TInv, PassInv, Here, At
<1>2. /\ WellPlaced(Here)
      /\ x.kind = "GPRSlice" => x.reg \in Reg
      /\ x.kind = "MemRegOff" => x.base \in Reg
    <2>1. /\ WellPlaced(At(at))
          /\ \A y \in Operands(At(at)) : /\ y.kind = "GPRSlice" => y.reg \in Reg
                                         /\ y.kind = "MemRegOff" => y.base \in Reg
        BY <1>1, PlaceDecoded
    <2> QED
        BY <1>1, <2>1
<1>3. "kWritesLR" \notin Here.flags
    BY <1>2 DEF WellPlaced, Translating
<1>4. NamesAbiReg(Here) \/ NamesDestroyed(at[1], at[2]) => Sound(<<"stop", "null">>)
    BY <1>1, TupleHead DEF Sound, HereExplains
<1>5. CASE x.kind = "GPRSlice"
    <2>1. CASE query_temp(x.reg) = {}
        <3>1. NamesAbiReg(Here) \/ NamesDestroyed(at[1], at[2])
            BY <1>2, <1>3, <1>5, <2>1, OperandViewed, RegisterFound
        <3>2. translate_op(x) = <<"stop", "null">>
            BY <1>5, <2>1 DEF translate_op
        <3> QED
            BY <1>4, <3>1, <3>2
    <2>2. CASE query_temp(x.reg) # {}
        <3> DEFINE t == CHOOSE t \in query_temp(x.reg) : TRUE
        <3>1. translate_op(x) = Register(t, x.type)
            BY <1>5, <2>2 DEF translate_op
        <3> HIDE DEF t
        <3>2. Register(t, x.type)[1] \in {"param", "temp"}
            <4>1. CASE t \in is_param
                <5>1. Register(t, x.type) = <<"param", t.reg - 3, FALSE>>
                    BY <4>1 DEF Register
                <5> QED
                    BY <5>1, TupleHead
            <4>2. CASE t \notin is_param
                <5>1. Register(t, x.type) = <<"temp", t, datatype_to_reftype(x.type)>>
                    BY <4>2 DEF Register
                <5> QED
                    BY <5>1, TupleHead
            <4> QED
                BY <4>1, <4>2
        <3> QED
            BY <3>1, <3>2 DEF Sound
    <2> QED
        BY <2>1, <2>2
<1>6. CASE x.kind = "MemRegOff"
    <2>1. CASE x.base = 1
        <3>1. translate_op(x) = Slot(x.off, FALSE)
            BY <1>6, <2>1 DEF translate_op
        <3>2. HasVariable(stack, x.off) \/ HereExplains("null")
            <4>1. HasVariable(stack, x.off) \/ NamesBelow(Here) \/ UsedEarly
                BY <1>1, <1>6, <2>1, SlotFound DEF IsSlot
            <4> QED
                BY <4>1 DEF HereExplains
        <3>3. Sound(Slot(x.off, FALSE))
            BY <3>2, SlotSound, Zenon
        <3> QED
            BY <3>1, <3>3, Zenon
    <2>2. CASE x.base # 1 /\ x.base = 2
        <3>1. translate_op(x) = <<"stop", "assert">>
            BY <1>6, <2>2 DEF translate_op
        <3>2. NamesR2(Here)
            BY <1>6, <2>2 DEF NamesR2
        <3>3. HereExplains("assert")
            BY <3>2 DEF HereExplains
        <3> QED
            BY <3>1, <3>3, TupleHead DEF Sound
    <2>3. CASE x.base # 1 /\ x.base # 2 /\ query_temp(x.base) = {}
        <3>1. x.base \in AbiRegs => NamesAbiReg(Here)
            BY <1>6, <2>3 DEF NamesAbiReg
        <3>2. NamesAbiReg(Here) \/ NamesDestroyed(at[1], at[2])
            BY <1>2, <1>3, <1>6, <2>3, <3>1, OperandViewed, RegisterFound
        <3>3. translate_op(x) = <<"stop", "null">>
            BY <1>6, <2>3 DEF translate_op
        <3> QED
            BY <1>4, <3>2, <3>3
    <2>4. CASE x.base # 1 /\ x.base # 2 /\ query_temp(x.base) # {}
        <3> DEFINE t == CHOOSE t \in query_temp(x.base) : TRUE
        <3>1. translate_op(x) = <<"mem", t, x.off>>
            BY <1>6, <2>4 DEF translate_op
        <3> HIDE DEF t
        <3>2. translate_op(x)[1] = "mem"
            BY <3>1, TupleHead
        <3> QED
            BY <3>2 DEF Sound
    <2> QED
        BY <2>1, <2>2, <2>3, <2>4
<1>7. CASE x.kind \in {"CrSlice", "SIMM", "UIMM"}
    <2>1. \E kind \in {"cond", "imm"} : \E b, c : translate_op(x) = <<kind, b, c>>
        <3>1. CASE x.kind = "CrSlice"
            BY <3>1 DEF translate_op
        <3>2. CASE x.kind = "SIMM"
            <4>1. translate_op(x) = <<"imm", x.val, TRUE>>
                BY <3>2 DEF translate_op
            <4> QED
                BY <4>1, Zenon
        <3>3. CASE x.kind = "UIMM"
            <4>1. translate_op(x) = <<"imm", x.val, FALSE>>
                BY <3>3 DEF translate_op
            <4> QED
                BY <4>1, Zenon
        <3> QED
            BY <1>7, <3>1, <3>2, <3>3
    <2>2. translate_op(x)[1] \in {"cond", "imm"}
        BY <2>1, TupleHead
    <2> QED
        BY <2>2 DEF Sound
<1> QED
    BY <1>5, <1>6, <1>7 DEF Plain

\* An instruction of the IR, or the stop in its place; a code that starts so.
One(code) == \E e : Sound(e) /\ code = <<e>>
Fine(code) == code = <<>> \/ \E e : Sound(e) /\ (code = <<e>> \/ \E f : code = <<e, f>>)

LEMMA HaltOne == ASSUME NEW how, HereExplains(how) PROVE One(Halt(how))
BY DEF Halt, One, Sound

LEMMA EmitPair ==
    ASSUME NEW opcode, opcode # "stop", NEW a, NEW b, Sound(a), Sound(b)
    PROVE  One(Emit(opcode, <<a, b>>))
<1> DEFINE ops == <<a, b>>
<1>1. DOMAIN ops = 1 .. 2 /\ ops[1] = a /\ ops[2] = b
    OBVIOUS
<1>2. \A k \in DOMAIN ops : Sound(ops[k])
    BY <1>1
<1>3. CASE \E k \in DOMAIN ops : ops[k][1] = "stop"
    <2> DEFINE c == CHOOSE k \in DOMAIN ops : ops[k][1] = "stop"
    <2>1. Emit(opcode, ops) = <<ops[c]>>
        BY <1>3 DEF Emit
    <2>2. c \in DOMAIN ops
        BY <1>3
    <2> HIDE DEF c, ops
    <2> QED
        BY <1>2, <2>1, <2>2 DEF One, ops
<1>4. CASE ~ \E k \in DOMAIN ops : ops[k][1] = "stop"
    <2>1. Emit(opcode, ops) = <<<<opcode>> \o ops>>
        BY <1>4 DEF Emit
    <2>2. (<<opcode>> \o ops)[1] = opcode
        OBVIOUS
    <2> DEFINE e == <<opcode>> \o ops
    <2> HIDE DEF e
    <2>3. Sound(e) /\ Emit(opcode, <<a, b>>) = <<e>>
        BY <2>1, <2>2 DEF Sound, e
    <2> QED
        BY <2>3 DEF One
<1> QED
    BY <1>3, <1>4

LEMMA EmitTriple ==
    ASSUME NEW opcode, opcode # "stop", NEW a, NEW b, NEW c,
           Sound(a), Sound(b), Sound(c)
    PROVE  One(Emit(opcode, <<a, b, c>>))
<1> DEFINE ops == <<a, b, c>>
<1>1. DOMAIN ops = 1 .. 3 /\ ops[1] = a /\ ops[2] = b /\ ops[3] = c
    OBVIOUS
<1>2. \A k \in DOMAIN ops : Sound(ops[k])
    BY <1>1
<1>3. CASE \E k \in DOMAIN ops : ops[k][1] = "stop"
    <2> DEFINE n == CHOOSE k \in DOMAIN ops : ops[k][1] = "stop"
    <2>1. Emit(opcode, ops) = <<ops[n]>>
        BY <1>3 DEF Emit
    <2>2. n \in DOMAIN ops
        BY <1>3
    <2> HIDE DEF n, ops
    <2> QED
        BY <1>2, <2>1, <2>2 DEF One, ops
<1>4. CASE ~ \E k \in DOMAIN ops : ops[k][1] = "stop"
    <2>1. Emit(opcode, ops) = <<<<opcode>> \o ops>>
        BY <1>4 DEF Emit
    <2>2. (<<opcode>> \o ops)[1] = opcode
        OBVIOUS
    <2> DEFINE e == <<opcode>> \o ops
    <2> HIDE DEF e
    <2>3. Sound(e) /\ Emit(opcode, <<a, b, c>>) = <<e>>
        BY <2>1, <2>2 DEF Sound, e
    <2> QED
        BY <2>3 DEF One
<1> QED
    BY <1>3, <1>4

LEMMA RecordFine ==
    ASSUME NEW i, NEW code, One(code)
    PROVE  Fine(code) /\ Fine(WithRecord(i, code))
<1>1. PICK e : Sound(e) /\ code = <<e>>
    BY DEF One
<1>2. Fine(code)
    BY <1>1 DEF Fine
<1>3. CASE WithRecord(i, code) = code
    BY <1>2, <1>3
<1>4. CASE WithRecord(i, code) # code
    <2> DEFINE f == <<"kRcTest", code[1][2]>>
    <2>1. WithRecord(i, code) = code \o <<f>>
        BY <1>4 DEF WithRecord
    <2> HIDE DEF f
    <2>2. WithRecord(i, code) = <<e, f>>
        BY <1>1, <2>1
    <2> QED
        BY <1>1, <2>2 DEF Fine
<1> QED
    BY <1>2, <1>3, <1>4

LEMMA DestSound ==
    ASSUME Translating, 1 \in DOMAIN Here.writes,
           Plain(Here.writes[1]) \/ Here.writes[1].kind = "MemRegOff"
    PROVE  Sound(Dest(Here))
<1> DEFINE x == Here.writes[1]
<1>1. x \in Range(Here.writes) /\ x \in Operands(Here)
    BY DEF Range, Operands
<1>2. x.kind = "GPRSlice" /\ x.reg \in AbiRegs => NamesAbiReg(Here)
    BY <1>1 DEF NamesAbiReg
<1> QED
    BY <1>1, <1>2, OperandSound DEF Dest

\* r1 is left to the stack analysis where an immediate is added to it.
LEMMA ReadSound ==
    ASSUME Translating, NEW k \in DOMAIN Here.reads,
           Plain(Here.reads[k]) \/ Here.reads[k].kind = "MemRegOff",
           Here.op \in {"kAddi", "kAddic"} => ~IsR1(Here.reads[k])
    PROVE  Sound(translate_op(Here.reads[k]))
<1> DEFINE x == Here.reads[k]
<1>1. x \in Range(Here.reads) /\ x \in Operands(Here)
    BY DEF Range, Operands
<1>2. x.kind = "GPRSlice" /\ x.reg \in AbiRegs => NamesAbiReg(Here)
    BY <1>1 DEF NamesAbiReg, IsR1
<1> QED
    BY <1>1, <1>2, OperandSound

LEMMA ImmediateSound == \A v, s : Sound(<<"imm", v, s>>)
BY TupleHead DEF Sound

\* The three lists of cases.
LEMMA CasesApart ==
    ASSUME NEW i
    PROVE  /\ i.op \notin OperandOps => Arithmetic(i) = <<>> /\ Transfers(i) = <<>>
           /\ i.op \in {"kLbz", "kLwz", "kStb", "kStw"} => Arithmetic(i) = <<>>
           /\ i.op \in OperandOps \ {"kLbz", "kLwz", "kStb", "kStw"} => Transfers(i) = <<>>
           /\ i.op \in OperandOps => Branches(i) = <<>>
<1>0. /\ DOMAIN DssOps = {"kAdd", "kAddc", "kMulli", "kMullw", "kSubf"}
      /\ \A op \in DOMAIN DssOps : DssOps[op] # "stop"
    BY DEF DssOps
<1>1. ASSUME i.op \notin OperandOps
      PROVE  Arithmetic(i) = <<>> /\ Transfers(i) = <<>>
    BY <1>0, <1>1 DEF Arithmetic, Transfers, OperandOps, SingleOps, PairOps
<1>2. ASSUME i.op \in {"kLbz", "kLwz", "kStb", "kStw"}
      PROVE  Arithmetic(i) = <<>>
    BY <1>0, <1>2 DEF Arithmetic
<1>3. ASSUME i.op \in OperandOps \ {"kLbz", "kLwz", "kStb", "kStw"}
      PROVE  Transfers(i) = <<>>
    BY <1>3 DEF Transfers
<1>4. ASSUME i.op \in OperandOps
      PROVE  Branches(i) = <<>>
    BY <1>4 DEF Branches, IsBlr, OperandOps, SingleOps, PairOps
<1> QED
    BY <1>1, <1>2, <1>3, <1>4

LEMMA TransfersFine ==
    ASSUME Translating, Here.op \in {"kLbz", "kLwz", "kStb", "kStw"}
    PROVE  Fine(Transfers(Here))
<1>1. WellPlaced(Here)
    BY PlaceDecoded DEF Translating, TInv, PassInv, Here, At
<1>2. Sound(Dest(Here))
    BY <1>1, DestSound DEF WellPlaced, Plain
<1>3. Sound(First(Here))
    BY <1>1, ReadSound DEF WellPlaced, Plain, First
<1>4. \E opcode : opcode # "stop" /\ Transfers(Here) = Emit(opcode, <<Dest(Here), First(Here)>>)
    BY DEF Transfers, Transfer
<1> QED
    BY <1>2, <1>3, <1>4, EmitPair, RecordFine

\* Where an immediate is added: the first operand, and what is made of r1.
LEMMA AddFine ==
    ASSUME Translating, Here.op \in {"kAddi", "kAddic", "kAddicDot"},
           NEW opcode, opcode # "stop"
    PROVE  Fine(translate_addi(opcode, Here))
<1> DEFINE i == Here
<1>1. WellPlaced(i) /\ TextOK /\ PassInv /\ at \in UsedPlaces /\ i = At(at)
      /\ pass = "translate"
    BY PlaceDecoded DEF Translating, TInv, PassInv, Here, At
<1>2. Sound(Dest(i))
    BY <1>1, DestSound DEF WellPlaced, Plain
<1>3. /\ i.reads[1].kind \in {"GPRSlice", "AuxImm"} /\ i.reads[2].kind = "SIMM"
      /\ DOMAIN i.reads = 1 .. 2
    BY <1>1 DEF WellPlaced
<1>4. Sound(Second(i))
    BY <1>3, ReadSound DEF Plain, IsR1, Second
<1>5. CASE i.reads[1].kind = "AuxImm"
    <2>1. translate_addi(opcode, i) = Emit("kMov", <<Dest(i), Second(i)>>)
        BY <1>5 DEF translate_addi
    <2> QED
        BY <1>2, <1>4, <2>1, EmitPair, RecordFine
<1>6. CASE i.reads[1].kind # "AuxImm" /\ i.reads[1].reg = 1
    <2> DEFINE o == Slot(i.reads[2].val, TRUE)
    <2>1. translate_addi(opcode, i) = Emit("kMov", <<Dest(i), o>>)
        BY <1>6 DEF translate_addi
    <2>2. HasVariable(stack, i.reads[2].val) \/ HereExplains("null")
        <3>1. CASE i.op \in {"kAddi", "kAddic"}
            <4>1. IsR1(At(at).reads[1]) /\ At(at).op \in {"kAddi", "kAddic"}
                BY <1>1, <1>3, <1>6, <3>1 DEF IsR1
            <4>2. HasVariable(stack, i.reads[2].val) \/ UsedEarly
                BY <1>1, <4>1, AddressFound
            <4> QED
                BY <4>2 DEF HereExplains
        <3>2. CASE i.op = "kAddicDot"
            <4>1. 1 \in DOMAIN i.reads
                BY <1>3
            <4>2. i.reads[1] \in Range(i.reads)
                BY <4>1 DEF Range
            <4>3. NamesAbiReg(i)
                BY <1>3, <1>6, <3>2, <4>2 DEF NamesAbiReg
            <4> QED
                BY <4>3 DEF HereExplains
        <3> QED
            BY <3>1, <3>2
    <2>3. Sound(o)
        BY <2>2, SlotSound, Zenon
    <2> HIDE DEF o
    <2> QED
        BY <1>2, <2>1, <2>3, EmitPair, RecordFine
<1>7. CASE i.reads[1].kind # "AuxImm" /\ i.reads[1].reg # 1
    <2>1. translate_addi(opcode, i) = WithRecord(i, Dss(opcode, i))
        BY <1>7 DEF translate_addi
    <2>2. Sound(First(i))
        BY <1>3, <1>7, ReadSound DEF Plain, IsR1, First
    <2>3. One(Dss(opcode, i))
        BY <1>2, <1>4, <2>2, EmitTriple DEF Dss
    <2> QED
        BY <2>1, <2>3, RecordFine
<1> QED
    BY <1>5, <1>6, <1>7

LEMMA ShiftedFine ==
    ASSUME Translating, Here.op = "kAddis"
    PROVE  Fine(translate_addis(Here))
<1> DEFINE i == Here
           shifted == <<"imm", i.reads[2].val * 2 ^ 16, TRUE>>
<1>1. WellPlaced(i)
    BY PlaceDecoded DEF Translating, TInv, PassInv, Here, At
<1>2. Sound(Dest(i))
    BY <1>1, DestSound DEF WellPlaced, Plain
<1>3. /\ i.reads[1].kind \in {"GPRSlice", "AuxImm"} /\ DOMAIN i.reads = 1 .. 2
      /\ i.reads[1].kind = "AuxImm" => i.word.a = 0
    BY <1>1 DEF WellPlaced
<1>4. CASE i.reads[1].kind = "AuxImm"
    <2>1. translate_addis(i) = Halt("throw")
        BY <1>4 DEF translate_addis
    <2>2. HereExplains("throw")
        BY <1>3, <1>4 DEF HereExplains
    <2> QED
        BY <2>1, <2>2, HaltOne, RecordFine
<1>5. CASE i.reads[1].kind = "GPRSlice"
    <2>1. translate_addis(i) = WithRecord(i, Emit("kAdd", <<Dest(i), First(i), shifted>>))
        BY <1>5 DEF translate_addis
    <2>2. Sound(First(i))
        BY <1>3, <1>5, ReadSound DEF Plain, First
    <2>3. Sound(shifted)
        BY ImmediateSound, Zenon
    <2> HIDE DEF shifted
    <2>4. One(Emit("kAdd", <<Dest(i), First(i), shifted>>))
        BY <1>2, <2>2, <2>3, EmitTriple
    <2> QED
        BY <2>1, <2>4, RecordFine
<1> QED
    BY <1>3, <1>4, <1>5

LEMMA ArithmeticFine ==
    ASSUME Translating, Here.op \notin {"kLbz", "kLwz", "kStb", "kStw"}
    PROVE  Fine(Arithmetic(Here))
<1> DEFINE i == Here
<1>1. WellPlaced(i) /\ i.op \in OperandOps
    BY PlaceDecoded DEF Translating, TInv, PassInv, Here, At
<1>2. ASSUME i.op \in SingleOps
      PROVE  Sound(Dest(i)) /\ Sound(First(i))
    <2>1. i.op \notin {"kAddi", "kAddic"}
        BY <1>2 DEF SingleOps, PairOps
    <2> QED
        BY <1>1, <1>2, <2>1, DestSound, ReadSound DEF WellPlaced, First
<1>3. ASSUME i.op \in PairOps
      PROVE  Sound(Dest(i)) /\ Sound(First(i)) /\ Sound(Second(i))
    <2>1. i.op \notin {"kAddi", "kAddic"} /\ i.op \in SingleOps
        BY <1>3 DEF SingleOps, PairOps
    <2> QED
        BY <1>1, <1>2, <1>3, <2>1, ReadSound DEF WellPlaced, Second
<1>4. /\ DOMAIN DssOps = {"kAdd", "kAddc", "kMulli", "kMullw", "kSubf"}
      /\ \A op \in DOMAIN DssOps : DssOps[op] # "stop"
    BY DEF DssOps
<1>5. ASSUME i.op \in PairOps, NEW opcode, opcode # "stop"
      PROVE  One(Dss(opcode, i))
    BY <1>3, <1>5, EmitTriple DEF Dss
<1>6. CASE i.op \in DOMAIN DssOps
    <2>1. Arithmetic(i) = WithRecord(i, Dss(DssOps[i.op], i))
        BY <1>4, <1>6 DEF Arithmetic
    <2>2. i.op \in PairOps
        BY <1>4, <1>6 DEF PairOps
    <2> QED
        BY <1>4, <1>5, <1>6, <2>1, <2>2, RecordFine
<1>7. CASE i.op \in {"kAddi", "kAddic", "kAddicDot"}
    <2>1. \/ Arithmetic(i) = translate_addi("kAdd", i)
          \/ Arithmetic(i) = translate_addi("kAddc", i)
        <3>1. CASE i.op = "kAddi"
            BY <1>4, <3>1 DEF Arithmetic
        <3>2. CASE i.op \in {"kAddic", "kAddicDot"}
            BY <1>4, <3>2 DEF Arithmetic
        <3> QED
            BY <1>7, <3>1, <3>2
    <2> QED
        BY <1>7, <2>1, AddFine
<1>8. CASE i.op = "kAddis"
    BY <1>4, <1>8, ShiftedFine DEF Arithmetic
<1>9. CASE i.op = "kAdde"
    <2>1. HereExplains("unreachable")
        BY <1>9 DEF HereExplains
    <2>2. Arithmetic(i) = Halt("unreachable")
        BY <1>4, <1>9 DEF Arithmetic
    <2> QED
        BY <2>1, <2>2, HaltOne, RecordFine
<1>10. CASE i.op \in {"kAddme", "kAddze"}
    <2>1. \E one : /\ Sound(one)
                   /\ Arithmetic(i) = WithRecord(i, Emit("kAddc", <<Dest(i), First(i), one>>))
        <3>1. CASE i.op = "kAddme"
            <4> DEFINE one == <<"imm", 1, TRUE>>
            <4>1. Arithmetic(i) = WithRecord(i, Emit("kAddc", <<Dest(i), First(i), one>>))
                BY <1>4, <3>1 DEF Arithmetic
            <4>2. Sound(one)
                BY ImmediateSound, Zenon
            <4> QED
                BY <4>1, <4>2, Zenon
        <3>2. CASE i.op = "kAddze"
            <4> DEFINE one == <<"imm", 0, FALSE>>
            <4>1. Arithmetic(i) = WithRecord(i, Emit("kAddc", <<Dest(i), First(i), one>>))
                BY <1>4, <3>2 DEF Arithmetic
            <4>2. Sound(one)
                BY ImmediateSound, Zenon
            <4> QED
                BY <4>1, <4>2, Zenon
        <3> QED
            BY <1>10, <3>1, <3>2
    <2>2. i.op \in SingleOps
        BY <1>10 DEF SingleOps
    <2> QED
        BY <1>2, <2>1, <2>2, EmitTriple, RecordFine
<1>11. CASE i.op \in {"kCmp", "kCmpi", "kCmpl", "kCmpli"}
    <2>1. Arithmetic(i) = Compare(i)
        BY <1>4, <1>11 DEF Arithmetic
    <2>2. i.op \in PairOps
        BY <1>11 DEF PairOps
    <2>3. "kLongMode" \in i.flags => HereExplains("assert")
        BY DEF HereExplains
    <2>4. One(Compare(i))
        BY <1>5, <2>2, <2>3, HaltOne DEF Compare
    <2> QED
        BY <2>1, <2>4, RecordFine
<1>12. CASE i.op = "kOr"
    <2>1. Arithmetic(i) = translate_or(i)
        BY <1>4, <1>12 DEF Arithmetic
    <2>2. i.op \in PairOps
        BY <1>12 DEF PairOps
    <2>3. One(Emit("kMov", <<Dest(i), First(i)>>)) /\ One(Dss("kOrB", i))
        BY <1>3, <1>5, <2>2, EmitPair
    <2> QED
        BY <2>1, <2>3, RecordFine DEF translate_or
<1> QED
    BY <1>1, <1>4, <1>6, <1>7, <1>8, <1>9, <1>10, <1>11, <1>12
       DEF OperandOps, SingleOps, PairOps

LEMMA BranchesFine == Fine(Branches(Here))
<1> DEFINE i == Here
<1>1. CASE IsBlr(i)
    <2>1. Branches(i) = translate_return
        BY <1>1 DEF Branches
    <2>2. \E e : e[1] = "kReturn" /\ translate_return = <<e>>
        <3> DEFINE value(r) == <<"temp", CHOOSE t \in query_temp(r) : TRUE, "kS4">>
        <3>1. \/ translate_return = <<<<"kReturn">>>>
              \/ translate_return = <<<<"kReturn", value(3)>>>>
              \/ translate_return = <<<<"kReturn", value(3), value(4)>>>>
            BY DEF translate_return
        <3> HIDE DEF value
        <3> QED
            BY <3>1
    <2> QED
        BY <2>1, <2>2 DEF Fine, Sound
<1>2. CASE ~IsBlr(i) /\ i.op \in {"kB", "kBcctr", "kBclr"}
    <2>1. Branches(i) = translate_branch(i)
        BY <1>2 DEF Branches
    <2>2. CASE "kWritesLR" \notin i.flags
        BY <2>1, <2>2 DEF translate_branch, Fine
    <2>3. CASE "kWritesLR" \in i.flags /\ i.op = "kB"
        <3> DEFINE e == <<"kCall", <<"fn", BranchTarget(i)>>>>
        <3>1. e[1] = "kCall" /\ translate_branch(i) = <<e>>
            BY <2>3 DEF translate_branch
        <3> HIDE DEF e
        <3> QED
            BY <2>1, <3>1 DEF Fine, Sound
    <2>4. CASE "kWritesLR" \in i.flags /\ i.op # "kB"
        <3>1. translate_branch(i) = Halt("unreachable")
            BY <2>4 DEF translate_branch
        <3>2. HereExplains("unreachable")
            BY <1>2, <2>4 DEF HereExplains
        <3> QED
            BY <2>1, <3>1, <3>2, HaltOne, RecordFine
    <2> QED
        BY <2>2, <2>3, <2>4
<1>3. CASE ~IsBlr(i) /\ i.op \notin {"kB", "kBcctr", "kBclr"}
    BY <1>3 DEF Branches, Fine
<1> QED
    BY <1>1, <1>2, <1>3

LEMMA FineAlone ==
    ASSUME NEW code, Fine(code)
    PROVE  <<>> \o <<>> \o code = code /\ code \o <<>> \o <<>> = code
                                       /\ <<>> \o code \o <<>> = code
<1>1. CASE code = <<>>
    BY <1>1
<1>2. ASSUME NEW e, code = <<e>>
      PROVE  <<>> \o <<>> \o code = code /\ code \o <<>> \o <<>> = code
                                         /\ <<>> \o code \o <<>> = code
    BY <1>2
<1>3. ASSUME NEW e, NEW f, code = <<e, f>>
      PROVE  <<>> \o <<>> \o code = code /\ code \o <<>> \o <<>> = code
                                         /\ <<>> \o code \o <<>> = code
    BY <1>3
<1> QED
    BY <1>1, <1>2, <1>3 DEF Fine

LEMMA InstFine ==
    ASSUME TInv, pass = "translate", at \in UsedPlaces
    PROVE  Fine(translate_ppc_inst(Here))
<1>1. CASE Here.op \in OperandOps /\ Here.op \in {"kLbz", "kLwz", "kStb", "kStw"}
    <2>1. Arithmetic(Here) = <<>> /\ Branches(Here) = <<>>
        BY <1>1, CasesApart
    <2>2. Fine(Transfers(Here))
        BY <1>1, TransfersFine DEF Translating
    <2> QED
        BY <2>1, <2>2, FineAlone DEF translate_ppc_inst
<1>2. CASE Here.op \in OperandOps /\ Here.op \notin {"kLbz", "kLwz", "kStb", "kStw"}
    <2>1. Transfers(Here) = <<>> /\ Branches(Here) = <<>>
        BY <1>2, CasesApart
    <2>2. Fine(Arithmetic(Here))
        BY <1>2, ArithmeticFine DEF Translating
    <2> QED
        BY <2>1, <2>2, FineAlone DEF translate_ppc_inst
<1>3. CASE Here.op \notin OperandOps
    <2>1. Arithmetic(Here) = <<>> /\ Transfers(Here) = <<>>
        BY <1>3, CasesApart
    <2> QED
        BY <2>1, BranchesFine, FineAlone DEF translate_ppc_inst
<1> QED
    BY <1>1, <1>2, <1>3

LEMMA TranslateStops ==
    ASSUME TInv, TranslateInst \/ TranslateOtherEnd, fault' # "none"
    PROVE  StopsExplained'
<1>1. /\ pass = "translate" /\ TextOK /\ fault = "none"
      /\ at = <<at[1], at[2]>> /\ at[1] \in text.used /\ at[2] \in Nat /\ at[2] >= 1
    BY DEF TInv, PassInv, PassesInOrder, TranslateInst, TranslateOtherEnd, Running
<1>2. ASSUME NEW how, Stop(how), Explains(how)
      PROVE  StopsExplained'
    <2>1. Explains(how)'
        BY <1>1, <1>2, ExplainsKept DEF Stop
    <2>2. fault' = how
        BY <1>2 DEF Stop
    <2> QED
        BY <2>1, <2>2 DEF StopsExplained, Explains
<1>3. CASE TranslateInst
    <2> DEFINE code == IF Translated(at[1], at[2]) THEN translate_ppc_inst(Here) ELSE <<>>
    <2>1. /\ at[2] <= LastOf(at[1]) /\ code # <<>> /\ code[1][1] = "stop"
          /\ Stop(code[1][2])
        BY <1>1, <1>3 DEF TranslateInst
    <2>2. LastOf(at[1]) \in Nat
        BY <1>1, TextRegular
    <2>3. at \in UsedPlaces
        BY <1>1, <2>1, <2>2, PlacesAre
    <2>4. code = translate_ppc_inst(Here)
        BY <2>1
    <2> HIDE DEF code
    <2>5. Fine(code)
        BY <1>1, <2>3, <2>4, InstFine
    <2>6. HereExplains(code[1][2])
        BY <2>1, <2>5 DEF Fine, Sound
    <2> QED
        BY <1>1, <1>2, <2>1, <2>3, <2>6, ExplainsHere
<1>4. CASE TranslateOtherEnd
    <2>1. /\ at[2] > LastOf(at[1]) /\ InstAt(at[1], LastOf(at[1])).op # "kBc"
          /\ Stop("assert")
        BY <1>1, <1>4 DEF TranslateOtherEnd, EndBlock
    <2>2. ~(at[2] <= LastOf(at[1]))
        BY <1>1, <2>1, TextRegular
    <2>3. Explains("assert")
        BY <2>1, <2>2 DEF Explains
    <2> QED
        BY <1>2, <2>1, <2>3
<1> QED
    BY <1>3, <1>4

\* The first traversal stops before it has bound anything.
LEMMA RootStops ==
    ASSUME TakeDataOfRoot
    PROVE  StopsExplained'
<1>1. pass = "over" /\ "is_real" \in FirstTest /\ Unbound /\ Stop("throw") /\ UNCHANGED bindVars
    BY DEF TakeDataOfRoot, Running
<1>2. Explains("throw")
    BY <1>1 DEF Explains
<1>3. Explains("throw")'
    BY <1>1, <1>2, ExplainsKept DEF Stop
<1>4. fault' = "throw"
    BY <1>1 DEF Stop
<1> QED
    BY <1>3, <1>4 DEF StopsExplained, Explains

\* Once it has stopped it stays so.
LEMMA StopsStay ==
    ASSUME TInv, [TranslatorNext]_everything, fault # "none"
    PROVE  UNCHANGED <<vars, bindVars, text, pass, at, fault>>
<1>1. pc = "done" /\ pass \in {"entry", "exits", "over", "translate"}
    BY DEF TInv, PassesInOrder
<1>2. /\ ~Running({"stack"}) /\ ~Running({"entry", "exits"}) /\ ~Running({"over"})
      /\ ~Running({"translate"})
    BY DEF Running
<1>3. CASE UNCHANGED everything
    BY <1>3 DEF everything, perilogueVars
<1>4. CASE TranslatorNext
    <2>1. ~LivenessStep
        BY <1>1 DEF LivenessStep, EvalLivenessLocal, PropagateGuesses, EndSweep,
           BackpropagateOutputs, ClearUnusedSections, FindRoutineParams
    <2>2. ~AnalyzeStack /\ ~LookAt
        BY <1>2 DEF AnalyzeStack, LookAt, LookAtPlain, LookAtSave, LookAtRestore, LookAtAbiCall
    <2>3. ~BindStep /\ ~StartTranslate /\ ~TakeDataOfRoot
        BY <1>2 DEF BindStep, StartTranslate, TakeDataOfRoot
    <2>4. ~TranslateInst /\ ~TranslateBlockCondition /\ ~TranslateOtherEnd
        BY <1>2 DEF TranslateInst, TranslateBlockCondition, TranslateOtherEnd
    <2> QED
        BY <1>4, <2>1, <2>2, <2>3, <2>4 DEF TranslatorNext, PerilogueNext
<1> QED
    BY <1>3, <1>4

LEMMA NextStops == TInv /\ StopsExplained /\ [TranslatorNext]_everything => StopsExplained'
<1> SUFFICES ASSUME TInv, StopsExplained, [TranslatorNext]_everything
             PROVE  StopsExplained'
    OBVIOUS
<1>1. CASE fault' = "none"
    BY <1>1 DEF StopsExplained
<1>2. CASE fault # "none"
    <2>1. UNCHANGED <<vars, bindVars, text, pass, at>> /\ fault' = fault
        BY <1>2, StopsStay
    <2>2. Explains(fault)
        BY ExplainsFault
    <2> DEFINE how == fault
    <2>3. \A h : Explains(h) => Explains(h)'
        BY <2>1, ExplainsKept
    <2>4. ASSUME NEW h, h = fault
          PROVE  StopsExplained'
        <3>1. Explains(h)'
            BY <2>2, <2>3, <2>4
        <3>2. fault' = h
            BY <2>1, <2>4
        <3> QED
            BY <3>1, <3>2 DEF StopsExplained, Explains
    <2> QED
        BY <2>4
<1>3. CASE fault = "none" /\ fault' # "none"
    <2>1. LookAt \/ TakeDataOfRoot \/ TranslateInst \/ TranslateOtherEnd
        BY <1>3 DEF TranslatorNext, PerilogueNext, LivenessStep, AnalyzeStack, BindStep,
           StartTranslate, TranslateBlockCondition, EndBlock, everything, perilogueVars
    <2> QED
        BY <1>3, <2>1, LookStops, RootStops, TranslateStops
<1> QED
    BY <1>1, <1>2, <1>3

\* StopsExplained: whatever the routine, the program stops for one of the reasons
\* named there and no other. As the first traversal is written it stops at the root
\* with nothing bound (GekkoTranslator.cc:780); with the test its comment states,
\* every slot that is looked up has been found by the stack analysis, every
\* register has a temporary, and every operand is where the decoder put it, but
\* for the routines listed (perilogue_block_analysis and translate_op).
THEOREM StopsAlwaysExplained == TranslatorSpec => []StopsExplained
<1>1. TranslatorInit => TInv /\ StopsExplained
    <2>1. TranslatorInit => StopsExplained
        BY DEF TranslatorInit, PerilogueInit, StopsExplained
    <2> QED
        BY <2>1, InitTInv
<1>2. TInv /\ StopsExplained /\ [TranslatorNext]_everything => (TInv /\ StopsExplained)'
    BY NextTInv, NextStops
<1> QED
    BY <1>1, <1>2, PTL DEF TranslatorSpec

-----------------------------------------------------------------------------
(* The numbers of the parameters *)

\* A stack that has so many parameters.
FewParams(st) ==
    /\ st = [size |-> st.size, vars |-> st.vars, params |-> st.params]
    /\ IsFiniteSet(DOMAIN st.params) /\ DOMAIN st.params \subseteq Int

LEMMA ReferFew ==
    ASSUME NEW st, FewParams(st), NEW o \in Int, NEW va, NEW how, NEW kinds
    PROVE  FewParams(Refer(st, va, how, o, kinds))
<1> DEFINE region == RegionOf(st, o)
           to == Refer(st, va, how, o, kinds)
<1>1. PICK v : to = [st EXCEPT ![region] = Put(@, o, v)]
    BY DEF Refer
<1>2. region \in {"vars", "params"}
    BY DEF RegionOf
<1> DEFINE f == st[region]
           g == Put(f, o, v)
<1>3. to = [st EXCEPT ![region] = g] /\ DOMAIN g = DOMAIN f \cup {o}
    BY <1>1 DEF Put
<1> HIDE DEF to, g
<1>4. CASE region = "vars"
    <2>1. to = [size |-> st.size, vars |-> g, params |-> st.params]
        BY <1>3, <1>4 DEF FewParams
    <2> QED
        BY <2>1 DEF FewParams, to
<1>5. CASE region = "params"
    <2>1. to = [size |-> st.size, vars |-> st.vars, params |-> g] /\ f = st.params
        BY <1>3, <1>5 DEF FewParams
    <2>2. DOMAIN g = DOMAIN st.params \cup {o}
        BY <1>3, <2>1
    <2>3. IsFiniteSet(DOMAIN g)
        BY <2>2, FS_AddElement DEF FewParams
    <2> QED
        BY <2>1, <2>2, <2>3 DEF FewParams, to
<1> QED
    BY <1>2, <1>4, <1>5

LEMMA ReadWriteFew ==
    ASSUME NEW st, FewParams(st), NEW va, NEW mem, mem.off \in Int, NEW how
    PROVE  FewParams(analyze_readwrite(st, va, mem, how))
<1> DEFINE o == Abs(mem.off)
<1>1. o \in Int /\ o + 4 \in Int
    BY DEF Abs
<1>2. CASE mem.type = "kPackedSingle"
    <2> DEFINE first == Refer(st, va, how, o, {"kSingle"})
    <2>1. FewParams(first)
        BY <1>1, ReferFew
    <2>2. analyze_readwrite(st, va, mem, how) = Refer(first, va, how, o + 4, {"kSingle"})
        BY <1>2 DEF analyze_readwrite
    <2> HIDE DEF first, o
    <2> QED
        BY <1>1, <2>1, <2>2, ReferFew
<1>3. CASE mem.type # "kPackedSingle"
    <2>1. analyze_readwrite(st, va, mem, how) = Refer(st, va, how, o, convert_data_type(mem.type))
        BY <1>3 DEF analyze_readwrite
    <2> HIDE DEF o
    <2> QED
        BY <1>1, <2>1, ReferFew
<1> QED
    BY <1>2, <1>3

LEMMA AnalyzedFew ==
    ASSUME NEW st, FewParams(st), NEW i, Regular(i)
    PROVE  FewParams(analyze_block_inst(st, i))
<1>1. FewParams(Sized(st, i))
    <2>1. Sized(st, i) = st \/ \E n : Sized(st, i) = [st EXCEPT !.size = n]
        BY DEF Sized, analyze_sp_modify
    <2>2. ASSUME NEW n
          PROVE  FewParams([st EXCEPT !.size = n])
        <3>1. [st EXCEPT !.size = n] = [size |-> n, vars |-> st.vars, params |-> st.params]
            BY DEF FewParams
        <3> QED
            BY <3>1 DEF FewParams
    <2> QED
        BY <2>1, <2>2
<1>2. OneSlot(i.reads) /\ OneSlot(i.writes)
    BY SlotsOfList DEF Regular
<1> DEFINE sized == Sized(st, i)
           read == IF Slots(i.reads) = {} THEN sized
                   ELSE analyze_readwrite(sized, i.va, SlotOf(i.reads), "kRead")
           names == \E x \in Range(i.reads) : IsR1(x)
           named == IF names THEN analyze_sp_mem_ref(read, i) ELSE read
           to == IF Slots(i.writes) = {} THEN named
                 ELSE analyze_readwrite(named, i.va, SlotOf(i.writes), "kWrite")
<1>3. analyze_block_inst(st, i) = to
    BY Zenon DEF analyze_block_inst, Referred
<1> HIDE DEF sized
<1>4. FewParams(read)
    BY <1>1, <1>2, ReadWriteFew DEF OneSlot, sized
<1> HIDE DEF read
<1>5. FewParams(named)
    <2>1. named = read \/ /\ i.op \in {"kAddi", "kAddic"}
                          /\ named = Refer(read, i.va, "kAddress", i.reads[2].val, {})
        BY DEF analyze_sp_mem_ref
    <2>2. i.op \in {"kAddi", "kAddic"} => i.reads[2].val \in Int
        BY DEF Regular
    <2> HIDE DEF named
    <2> QED
        BY <1>4, <2>1, <2>2, ReferFew
<1> HIDE DEF named
<1>6. FewParams(to)
    BY <1>2, <1>5, ReadWriteFew DEF OneSlot
<1> QED
    BY <1>3, <1>6

LEMMA MarkFew ==
    ASSUME NEW st, FewParams(st), NEW o, HasVariable(st, o)
    PROVE  FewParams(MarkFrameStorage(st, o))
<1> DEFINE region == RegionOf(st, o)
           f == st[region]
           g == [f EXCEPT ![o].is_frame_storage = TRUE]
           to == MarkFrameStorage(st, o)
<1>1. region \in {"vars", "params"}
    BY DEF RegionOf
<1>2. to = [st EXCEPT ![region] = g] /\ DOMAIN g = DOMAIN f
    BY DEF MarkFrameStorage
<1> HIDE DEF g, to
<1>3. CASE region = "vars"
    <2>1. to = [size |-> st.size, vars |-> g, params |-> st.params]
        BY <1>2, <1>3 DEF FewParams
    <2> QED
        BY <2>1 DEF FewParams, to
<1>4. CASE region = "params"
    <2>1. to = [size |-> st.size, vars |-> st.vars, params |-> g] /\ f = st.params
        BY <1>2, <1>4 DEF FewParams
    <2> QED
        BY <1>2, <2>1 DEF FewParams, to
<1> QED
    BY <1>1, <1>3, <1>4

LEMMA NextFew == TInv /\ FewParams(stack) /\ [TranslatorNext]_everything => FewParams(stack)'
<1> SUFFICES ASSUME TInv, FewParams(stack), [TranslatorNext]_everything
             PROVE  FewParams(stack')
    OBVIOUS
<1>1. CASE stack' = stack
    BY <1>1
<1>2. CASE AnalyzeStack
    <2>1. at \in UsedPlaces /\ TextOK
        BY <1>2 DEF TInv, PassInv, PassesInOrder, AnalyzeStack, Running
    <2>2. Regular(Here)
        BY <2>1, TextRegular DEF Here, At
    <2> QED
        BY <1>2, <2>2, AnalyzedFew DEF AnalyzeStack
<1>3. CASE \E o : HasVariable(stack, o) /\ stack' = MarkFrameStorage(stack, o)
    BY <1>3, MarkFew
<1>4. stack' = stack \/ AnalyzeStack
        \/ \E o : HasVariable(stack, o) /\ stack' = MarkFrameStorage(stack, o)
    <2>1. CASE LookAt
        BY <2>1 DEF LookAt, LookAtPlain, LookAtSave, LookAtRestore, LookAtAbiCall, Looked, Stop
    <2>2. CASE ~LookAt
        BY <2>2 DEF TranslatorNext, PerilogueNext, LivenessStep, TakeDataOfRoot, BindStep,
           StartTranslate, TranslateInst, TranslateBlockCondition, TranslateOtherEnd, EndBlock, Stop,
           everything, perilogueVars
    <2> QED
        BY <2>1, <2>2
<1> QED
    BY <1>1, <1>2, <1>3, <1>4

\* Where a temporary of the routine becomes a parameter.
LEMMA ParamTempFrom ==
    ASSUME BInv, VInv, Collected, NEW t \in ParamTemps
    PROVE  \E s \in ParamStarts : s.reg = t.reg /\ gtemp[s] = t
<1>1. gtemp \in [block_temps -> block_temps] /\ gtemp = [u \in block_temps |-> gtemp[u]]
    BY DEF BInv, BindTypeOK, Collected
<1>2. PICK u \in block_temps : t = gtemp[u] /\ t \in is_param
    BY <1>1 DEF ParamTemps
<1>3. PICK s \in Connected(u) : s.lo = 1 /\ s.reg \in routine_inputs[s.block]
    BY <1>2, BInvFlagsExact DEF FlagsExact
<1>4. s \in block_temps /\ gtemp[s] = t
    BY <1>2, <1>3, BInvTempsExact DEF TempsExact
<1>5. s.reg = t.reg
    <2>1. gtemp[s] = root[s] /\ root[s] \in Connected(s)
        BY <1>4 DEF VInv, AllUnited, RootsConnected, Collected
    <2> QED
        BY <1>4, <2>1, ConnectedLeast
<1> QED
    BY <1>3, <1>4, <1>5 DEF ParamStarts

\* What a block finds to be a parameter is live where it starts.
LEMMA ParamStartLive ==
    ASSUME BInv, VInv, Collected, NEW s \in ParamStarts
    PROVE  /\ s \in block_temps /\ s.block \in Block /\ s.lo = 1
           /\ s.reg \in routine_inputs[s.block] /\ s.reg \in ParameterSet
           /\ s.hi \in Nat /\ s.hi >= 1
           /\ s.reg \in live_in[s.block][1]
<1>1. s \in block_temps /\ s.lo = 1 /\ s.reg \in routine_inputs[s.block]
    BY DEF ParamStarts
<1>2. IsBlockTemp(s) /\ s.block \in Block /\ pc = "done" /\ IInv
    BY <1>1, TempsExtent DEF BInv, BindTypeOK
<1>3. s.hi \in 1 .. Len(Code(s.block)) /\ s.lo \in 1 .. s.hi /\ Len(Code(s.block)) \in Nat
    BY <1>2, SectionsType DEF IsBlockTemp, Analysed
<1>4. routine_inputs[s.block] \subseteq input[s.block]
    BY <1>2 DEF VInv, ParamsAreInputs
<1>5. input[s.block] = live_in[s.block][1]
    BY <1>2 DEF IInv, SectionsAgree, Analysed
<1>6. routine_inputs[s.block] \subseteq ParameterSet
    BY <1>2 DEF IInv, TypeOK
<1> QED
    BY <1>1, <1>2, <1>3, <1>4, <1>5, <1>6

LEMMA RegisterParamsApart ==
    ASSUME BInv, VInv, Collected, NEW t \in ParamTemps, NEW u \in ParamTemps,
           t.reg = u.reg, t # u
    PROVE  FoundApart(t.reg)
<1>1. PICK s \in ParamStarts : s.reg = t.reg /\ gtemp[s] = t
    BY ParamTempFrom
<1>2. PICK v \in ParamStarts : v.reg = u.reg /\ gtemp[v] = u
    BY ParamTempFrom
<1>3. /\ s \in block_temps /\ s.block \in Block /\ s.lo = 1 /\ s.hi \in Nat /\ s.hi >= 1
      /\ s.reg \in routine_inputs[s.block] /\ s.reg \in live_in[s.block][1]
    BY ParamStartLive
<1>4. /\ v \in block_temps /\ v.block \in Block /\ v.lo = 1 /\ v.hi \in Nat /\ v.hi >= 1
      /\ v.reg \in routine_inputs[v.block] /\ v.reg \in live_in[v.block][1]
    BY ParamStartLive
<1>5. s # v /\ s.reg = v.reg
    BY <1>1, <1>2
<1>6. s.block # v.block
    <2> SUFFICES ASSUME s.block = v.block PROVE FALSE
        OBVIOUS
    <2>1. s.hi < v.lo \/ v.hi < s.lo
        BY <1>3, <1>4, <1>5, BInvRegionsApart DEF RegionsApart
    <2> QED
        BY <1>3, <1>4, <2>1
<1>7. ASSUME NEW w \in Preds(s.block) \cap Preds(v.block)
      PROVE  FALSE
    <2>1. w \in Block /\ MeetsEndOf(w, s) /\ MeetsEndOf(w, v)
        BY <1>3, <1>4 DEF Preds, MeetsEndOf
    <2>2. Touching(s, v)
        BY <1>5, <2>1 DEF Touching
    <2>3. v \in Connected(s)
        BY <1>3, <1>4, <2>2, ConnectedLeast
    <2>4. gtemp[v] = gtemp[s]
        BY <1>3, <2>3, BInvTempsExact DEF TempsExact
    <2> QED
        BY <1>1, <1>2, <2>4
<1>8. Preds(s.block) \cap Preds(v.block) = {}
    BY <1>7
<1> QED
    BY <1>1, <1>2, <1>3, <1>4, <1>6, <1>8 DEF FoundApart

LEMMA StackParamsApart ==
    ASSUME FewParams(stack), NEW o \in DOMAIN stack.params, NEW p \in DOMAIN stack.params,
           num_int_param \in Nat, StackParamIndex(o) = StackParamIndex(p)
    PROVE  o = p
<1> DEFINE Below(q) == {x \in DOMAIN stack.params : x < q}
<1>1. DOMAIN stack.params \subseteq Int /\ IsFiniteSet(DOMAIN stack.params)
    BY DEF FewParams
<1>2. \A q : IsFiniteSet(Below(q)) /\ Cardinality(Below(q)) \in Nat
    <2> TAKE q
    <2>1. Below(q) \in SUBSET DOMAIN stack.params
        OBVIOUS
    <2>2. IsFiniteSet(Below(q))
        BY <1>1, <2>1, FS_Subset
    <2> QED
        BY <2>2, FS_CardinalityType
<1>3. Cardinality(Below(o)) = Cardinality(Below(p))
    BY <1>2 DEF StackParamIndex
<1>4. ASSUME NEW x \in DOMAIN stack.params, NEW y \in DOMAIN stack.params, x < y,
             Cardinality(Below(x)) = Cardinality(Below(y))
      PROVE  FALSE
    <2>1. Below(x) \in SUBSET Below(y)
        BY <1>1, <1>4
    <2>2. Below(y) = Below(x)
        BY <1>2, <1>4, <2>1, FS_Subset
    <2>3. x \in Below(y) /\ x \notin Below(x)
        BY <1>1, <1>4
    <2> QED
        BY <2>2, <2>3
<1>5. ~(o < p) /\ ~(p < o)
    BY <1>3, <1>4
<1> QED
    BY <1>1, <1>5

\* The numbers of the parameters in registers are below the number of them.
LEMMA IntParamsBelow ==
    ASSUME BInv, VInv, Collected
    PROVE  num_int_param \in Nat /\ \A i \in int_params : i \in Nat /\ i < num_int_param
<1>1. \A i \in int_params : i \in 0 .. 7
    <2> SUFFICES ASSUME NEW t \in ParamTemps PROVE t.reg - 3 \in 0 .. 7
        BY DEF int_params, ParamTemps
    <2>1. PICK s \in ParamStarts : s.reg = t.reg
        BY ParamTempFrom
    <2>2. s.reg \in 3 .. 10
        BY ParamStartLive, ParametersAssumption
    <2> QED
        BY <2>1, <2>2
<1> DEFINE S == {0} \cup {i + 1 : i \in int_params}
           T == {i + 1 : i \in S}
<1>2. S \subseteq 0 .. 8 /\ S # {} /\ 8 \in Nat
    BY <1>1
<1>3. \E m \in S : \A k \in S : k <= m
    <2>1. T \subseteq 1 .. 9 /\ T # {} /\ 9 \in Nat
        BY <1>2
    <2> HIDE DEF T
    <2>2. PICK n \in T : \A k \in T : k <= n
        BY <2>1, Greatest
    <2>3. PICK m \in S : n = m + 1
        BY DEF T
    <2>4. \A k \in S : k + 1 \in T
        BY DEF T
    <2> HIDE DEF S
    <2>5. \A k \in S : k <= m
        BY <1>2, <2>2, <2>3, <2>4
    <2> QED
        BY <2>5
<1>4. \E m \in S : \A k \in S : m >= k
    BY <1>2, <1>3
<1>5. num_int_param = Max(S)
    BY DEF num_int_param
<1> HIDE DEF S
<1>6. Max(S) \in S /\ \A k \in S : Max(S) >= k
    BY <1>4 DEF Max
<1>7. num_int_param \in Nat /\ \A k \in S : num_int_param >= k
    <2>1. num_int_param \in 0 .. 8
        BY Zenon, <1>2, <1>5, <1>6
    <2>2. \A k \in S : num_int_param >= k
        BY Zenon, <1>5, <1>6
    <2> QED
        BY <2>1, <2>2
<1>8. \A i \in int_params : i + 1 \in S
    BY DEF S
<1> QED
    BY <1>1, <1>7, <1>8

\* ParamsApart: whatever the routine, parameters on the stack and in registers are
\* numbered without meeting, and a register hands over one temporary unless it is
\* found in two blocks without a predecessor in common (compute_parameters and
\* param_idx of GekkoTranslator).
THEOREM ParamsAlwaysApart == TranslatorSpec => []ParamsApart
<1>1. TranslatorInit => TInv /\ FewParams(stack)
    <2>1. FewParams(NewStack)
        <3>1. DOMAIN NewStack.params = {}
            BY DEF NewStack
        <3> QED
            BY <3>1, FS_EmptySet DEF FewParams, NewStack
    <2> QED
        BY <2>1, InitTInv DEF TranslatorInit, PerilogueInit
<1>2. TInv /\ FewParams(stack) /\ [TranslatorNext]_everything => (TInv /\ FewParams(stack))'
    BY NextTInv, NextFew
<1>3. TInv /\ FewParams(stack) => ParamsApart
    <2> SUFFICES ASSUME TInv, FewParams(stack), pass = "translated"
                 PROVE  /\ \A t, u \in ParamTemps : t.reg = u.reg /\ t # u => FoundApart(t.reg)
                        /\ \A o, p \in DOMAIN stack.params :
                              /\ StackParamIndex(o) = StackParamIndex(p) => o = p
                              /\ StackParamIndex(o) \notin int_params
        BY DEF ParamsApart
    <2>1. BInv /\ VInv /\ Collected
        BY DEF TInv, PassesInOrder
    <2>2. num_int_param \in Nat /\ \A i \in int_params : i \in Nat /\ i < num_int_param
        BY <2>1, IntParamsBelow
    <2>3. ASSUME NEW o \in DOMAIN stack.params
          PROVE  StackParamIndex(o) \notin int_params
        <3> DEFINE below == {x \in DOMAIN stack.params : x < o}
        <3>1. below \in SUBSET DOMAIN stack.params /\ IsFiniteSet(DOMAIN stack.params)
            BY DEF FewParams
        <3>2. Cardinality(below) \in Nat
            BY <3>1, FS_Subset, FS_CardinalityType
        <3>3. StackParamIndex(o) >= num_int_param
            BY <2>2, <3>2 DEF StackParamIndex
        <3> QED
            BY <2>2, <3>3
    <2> QED
        BY <2>1, <2>2, <2>3, RegisterParamsApart, StackParamsApart
<1> QED
    BY <1>1, <1>2, <1>3, PTL DEF TranslatorSpec
=============================================================================
