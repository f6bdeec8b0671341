------------------------------ MODULE Perilogue ------------------------------
(***************************************************************************)
(* run_stack_analysis and run_perilogue_analysis (src/ppc/Perilogue.cc) on *)
(* the result of the liveness analysis: which instructions only build and  *)
(* take down the frame of the routine, so that the translator leaves them  *)
(* out. One instruction per step, in the order of the code.                *)
(*                                                                         *)
(* RegisterLiveness gets from a text what it looks at of an instruction.   *)
(***************************************************************************)
EXTENDS RegisterLiveness, SubroutineStack

CONSTANTS Texts,              \* the routines, decoded
          SaveGpr, RestGpr    \* _savegpr_start, _restgpr_start

\* A text: per block its instructions, and what the graph builder found. A text
\* of fewer blocks than Block leaves the others out of used. frame is not known
\* to the code: the places of the instructions the compiler put there for the
\* frame.
VARIABLES
    text,
    pass,      \* "stack", "entry", "exits", "over"
    at,        \* the block and the instruction to be looked at
    exits,     \* the exits the second traversal has still to visit
    stack,     \* Subroutine::_stack
    types,     \* _perilogue_types
    fault      \* how the program has stopped, if it has

perilogueVars == <<text, pass, at, exits, stack, types, fault>>

-----------------------------------------------------------------------------
(* What the liveness analysis sees of a text *)

is_abi_routine(addr) ==
    \/ addr \in SaveGpr .. SaveGpr + 75
    \/ addr \in RestGpr .. RestGpr + 75

uses_for_read(x) ==
    CASE x.kind = "GPRSlice" -> {x.reg}
      [] x.kind = "MemRegReg" -> {x.base, x.index}
      [] x.kind = "MemRegOff" -> {x.base}
      [] x.kind = "MultiReg" -> x.low .. 31
      [] OTHER -> {}

uses_for_write(x) == IF x.kind \in {"MemRegReg", "MemRegOff"} THEN uses_for_read(x) ELSE {}

defs_for_write(x) == IF x.kind \in {"GPRSlice", "MultiReg"} THEN uses_for_read(x) ELSE {}

\* The tests of eval_liveness_local: a call is not looked into.
View(i) ==
    IF "kWritesLR" \in i.flags
    THEN [op |-> IF i.op = "kB" /\ is_abi_routine(BranchTarget(i)) THEN "abi" ELSE "call",
          reads |-> {}, writes |-> {}]
    ELSE [op |-> "other",
          reads |-> Reg \cap UNION ({uses_for_read(x) : x \in Range(i.reads)}
                              \cup {uses_for_write(x) : x \in Range(i.writes)}),
          writes |-> Reg \cap UNION {defs_for_write(x) : x \in Range(i.writes)}]

RoutineOf(t) ==
    [succ |-> t.succ, entry |-> t.entry,
     code |-> [b \in Block |-> [k \in DOMAIN t.code[b] |-> View(t.code[b][k])]]]

Operands(i) == Range(i.reads) \cup Range(i.writes)

\* What the decoder and the graph builder leave of a routine. Blocks are numbered
\* in the order of foreach_real, and Reg is all that the instructions name.
IsText(t) ==
    /\ Block \subseteq Nat /\ Reg \subseteq Nat
    /\ t.used \subseteq Block /\ t.entry \in t.used
    /\ \A b \in Block : t.code[b] \in Seq(Range(t.code[b]))
    /\ \A b \in Block : \A i \in Range(t.code[b]) :
          /\ i.word \in Word /\ i.va \in Nat /\ i = Disasm(i.va, i.word)
          /\ \A x \in Operands(i) : /\ x.kind = "GPRSlice" => x.reg \in Reg
                                    /\ x.kind = "MemRegOff" => x.base \in Reg

ASSUME TextsAssumption ==
    \A t \in Texts : IsText(t) /\ RoutineOf(t) \in Routines

-----------------------------------------------------------------------------
(* The traversals *)

InstAt(b, k) == text.code[b][k]
Here == InstAt(at[1], at[2])
LastOf(b) == Len(text.code[b])
UsedExits == {b \in text.used : IsExit(b)}

\* The next instruction, the next block of foreach_real, or the next pass.
Forward ==
    LET b == at[1]  later == {c \in text.used : c > b}
    IN  IF at[2] < LastOf(b) THEN at' = <<b, at[2] + 1>> /\ UNCHANGED <<pass, exits>>
        ELSE IF pass = "stack" /\ later # {}
        THEN at' = <<Min(later), 1>> /\ UNCHANGED <<pass, exits>>
        ELSE IF pass = "stack"
        THEN at' = <<text.entry, 1>> /\ pass' = "entry" /\ UNCHANGED exits
        ELSE IF exits = {} THEN pass' = "over" /\ UNCHANGED <<at, exits>>
        ELSE \E x \in exits : /\ at' = <<x, 1>> /\ pass' = "exits"
                              /\ exits' = exits \ {x}

Running(passes) == pc = "done" /\ fault = "none" /\ pass \in passes

\* A null pointer is dereferenced, a std::get throws, an assertion fails.
Stop(how) ==
    /\ fault' = how
    /\ UNCHANGED <<vars, text, pass, at, exits, stack, types>>

AnalyzeStack ==
    /\ Running({"stack"})
    /\ stack' = analyze_block_inst(stack, Here)
    /\ Forward
    /\ UNCHANGED <<vars, text, types, fault>>

-----------------------------------------------------------------------------
(* perilogue_block_analysis *)

Mark(type) == types' = [types EXCEPT ![at[1]][at[2]] = type]

Looked(type, st) ==
    /\ Running({"entry", "exits"})
    /\ Mark(type) /\ stack' = st
    /\ Forward
    /\ UNCHANGED <<vars, text, fault>>

\* r is live after each of the instructions before this one, back to the j-th.
LiveBack(r, j) == \A i \in j .. at[2] - 1 : r \in live_out[at[1]][i]

\* The slip that looks at the last instruction only.
HeldLately(r) == LiveBack(r, Max({1, at[2] - 1}))

\* backtrack_calle_save
HeldSinceStart(r) == LiveBack(r, 1)

\* The slip that does not look whether the register still has the value.
MarkedBefore(r, type) == \E j \in 1 .. at[2] - 1 : types[at[1]][j] = type

\* r0 has been live since an instruction of the given type.
LiveSince(r, type) ==
    \E j \in 1 .. at[2] - 1 : types[at[1]][j] = type /\ LiveBack(r, j)

CalleeSaved == 14 .. 31

MovesLR(op) == Here.op = op /\ Here.word.d = 0 /\ Swapped(Here.word) = SprNumber["kLr"]
OnFrame(ops) == Here.op \in ops /\ Here.word.a = 1

\* The type of an instruction that names no slot of the frame.
PlainType ==
    CASE Here.op = "kStwu" /\ Here.word.d = 1 -> "kFrameAllocate"
      [] Here.op = "kAddi" /\ Here.word.d = 1 /\ Here.word.a = 1 -> "kFrameDeallocate"
      [] MovesLR("kMfspr") -> "kMoveLRToR0"
      [] MovesLR("kMtspr") /\ LiveSince(0, "kLoadSenderLR") -> "kMoveR0toLR"
      [] OTHER -> "kNormalInst"

\* A branch out of the routine or to the ABI routines.
CallsAbi == Here.op = "kB" /\ is_abi_routine(BranchTarget(Here))

LookAtPlain ==
    /\ Running({"entry", "exits"}) /\ ~ OnFrame({"kStw", "kStmw", "kLwz", "kLmw"}) /\ ~ CallsAbi
    /\ Looked(PlainType, stack)

\* What a stw or stmw saves, by the register it stores first.
SaveType(r) ==
    CASE Here.op = "kStw" /\ r = 0 ->
            IF LiveSince(0, "kMoveLRToR0") THEN "kSaveSenderLR" ELSE "kNormalInst"
      [] Here.op = "kStmw" \/ r \in CalleeSaved ->
            IF HeldSinceStart(r) THEN "kCalleeGPRSave" ELSE "kNormalInst"
      [] OTHER -> "kNormalInst"

LookAtSave ==
    LET type == SaveType(Here.word.d)  offset == Here.writes[1].off
    IN  /\ Running({"entry", "exits"}) /\ OnFrame({"kStw", "kStmw"})
        /\ IF type = "kNormalInst" THEN Looked(type, stack)
           ELSE IF HasVariable(stack, offset)
           THEN Looked(type, MarkFrameStorage(stack, offset))
           ELSE Stop("null")

\* Whatever is loaded from the frame's own storage counts as LR.
LookAtRestore ==
    LET offset == Here.reads[1].off
    IN  /\ Running({"entry", "exits"}) /\ OnFrame({"kLwz", "kLmw"})
        /\ IF ~ HasVariable(stack, offset) THEN Stop("null")
           ELSE Looked(IF /\ variable_for_offset(stack, offset).is_frame_storage
                          /\ Here.word.d \in CalleeSaved \cup {0}
                       THEN "kLoadSenderLR" ELSE "kNormalInst", stack)

\* _savegpr_n and _restgpr_n take the end of the register area in r11.
LookAtAbiCall ==
    LET base == InstAt(at[1], at[2] - 1)
        offset == base.reads[2].val
    IN  /\ Running({"entry", "exits"}) /\ CallsAbi
        /\ IF at[2] = 1 THEN Stop("assert")
           ELSE IF base.op # "kAddi" THEN Looked("kAbiRoutine", stack)
           ELSE IF base.word.d # 11 THEN Looked("kAbiRoutine", stack)
           ELSE IF base.word.a = 0 THEN Stop("throw")
           ELSE IF base.word.a # 1 THEN Looked("kAbiRoutine", stack)
           ELSE IF ~ HasVariable(stack, offset) THEN Stop("null")
           ELSE /\ types' = [types EXCEPT ![at[1]][at[2] - 1] = "kCalleeGPRSave",
                                          ![at[1]][at[2]] = "kAbiRoutine"]
                /\ stack' = MarkFrameStorage(stack, offset)
                /\ Forward
                /\ UNCHANGED <<vars, text, fault>>

LookAt == LookAtPlain \/ LookAtSave \/ LookAtRestore \/ LookAtAbiCall

-----------------------------------------------------------------------------
(* The passes, one after the other *)

PerilogueInit ==
    /\ text \in Texts /\ routine = RoutineOf(text) /\ Fresh
    /\ pass = "stack" /\ at = <<Min(text.used), 1>>
    /\ exits = {b \in text.used : text.succ[b] = {}}
    /\ stack = NewStack
    /\ types = [b \in Block |-> [k \in DOMAIN text.code[b] |-> "kNormalInst"]]
    /\ fault = "none"

\* The sweeps of the liveness analysis in the order of the blocks.
LivenessStep ==
    /\ \/ EvalLivenessLocal
       \/ todo # {} /\ PropagateGuesses(Min(todo))
       \/ EndSweep("forward", "backward")
       \/ todo # {} /\ BackpropagateOutputs(Min(todo))
       \/ EndSweep("backward", "clear")
       \/ ClearUnusedSections
       \/ FindRoutineParams
    /\ UNCHANGED perilogueVars

PerilogueNext == LivenessStep \/ AnalyzeStack \/ LookAt

PerilogueSpec == PerilogueInit /\ [][PerilogueNext]_<<vars, perilogueVars>>

-----------------------------------------------------------------------------
(* Properties *)

StackSeen == pc = "done" /\ pass # "stack"
Looks == pass \notin {"stack", "entry", "exits"}

UsedPlaces == UNION {{b} \X (1 .. LastOf(b)) : b \in text.used}
At(p) == InstAt(p[1], p[2])

Before(p, q) == p[1] < q[1] \/ (p[1] = q[1] /\ p[2] < q[2])

\* A pair of singles is in two slots.
Offsets(x) ==
    IF x.type = "kPackedSingle" THEN {Abs(x.off), Abs(x.off) + 4} ELSE {Abs(x.off)}

\* The accesses of an instruction to the stack: <<offset, how>>.
Accesses(i) ==
    {<<o, "kRead">> : o \in UNION {Offsets(x) : x \in Slots(i.reads)}}
        \cup {<<o, "kWrite">> : o \in UNION {Offsets(x) : x \in Slots(i.writes)}}
        \cup {<<i.reads[2].val, "kAddress">> :
                  n \in {n \in {1} : i.op \in {"kAddi", "kAddic"} /\ IsR1(i.reads[1])}}

AccessedOffsets == UNION {{a[1] : a \in Accesses(At(p))} : p \in UsedPlaces}

\* The frame of the routine, and whether something above its caller's LR is used
\* before it is there.
Allocating == {p \in UsedPlaces : At(p).op = "kStwu" /\ At(p).word.a = 1}
SizeGiven(i) == (-i.writes[1].off) % 2 ^ 16
FrameSize ==
    IF Allocating = {} THEN 0
    ELSE SizeGiven(At(CHOOSE p \in Allocating : \A q \in Allocating : ~ Before(p, q)))
UsedEarly ==
    \E p \in UsedPlaces, q \in Allocating :
        Before(p, q) /\ \E a \in Accesses(At(p)) : a[1] > 4

\* The stack analysis finds each slot of the routine once, with all that use it,
\* and takes it for a parameter just where it is above the saved LR of the
\* caller, although it judges by the frame size it has met so far: what names r1
\* before the frame is allocated is the saved LR, and the instruction that
\* allocates is judged by the new size.
RefsExact ==
    StackSeen /\ ~ UsedEarly =>
        /\ stack.size = FrameSize
        /\ DOMAIN stack.vars = {o \in AccessedOffsets : o <= FrameSize + 4}
        /\ DOMAIN stack.params = {o \in AccessedOffsets : o > FrameSize + 4}
        /\ \A o \in AccessedOffsets :
              variable_for_offset(stack, o).refs =
                  UNION {{<<At(p).va, a[2]>> : a \in {a \in Accesses(At(p)) : a[1] = o}} :
                            p \in UsedPlaces}

Dropped == {p \in UsedPlaces : types[p[1]][p[2]] # "kNormalInst"}

\* A callee-saved register stored by an exit that is not the entry, and loaded
\* from the same place again.
SpillsIn(b) ==
    {p \in UsedPlaces \ text.frame :
        p[1] = b /\ b # text.entry /\ At(p).op = "kStw" /\ At(p).word.d \in CalleeSaved}
Spills ==
    UNION {SpillsIn(b) \cup {p \in UsedPlaces :
                 /\ At(p).op = "kLwz" /\ At(p).word.d \in CalleeSaved
                 /\ \E s \in SpillsIn(b) : At(p).reads[1] = At(s).writes[1]} : b \in UsedExits}

\* LR is saved before the frame is there, so under another offset than it is
\* restored from.
SavedEarly ==
    \E p \in text.frame, q \in Allocating :
        p[1] = q[1] /\ p[2] < q[2] /\ At(p).op = "kStw" /\ At(p).word.d = 0
RestoresOfLR == {p \in text.frame : At(p).op \in {"kLwz", "kMtspr"} /\ At(p).word.d = 0}

\* The instructions left out of the translation are those of the frame: all of
\* them and no others, stores of the same registers to the same area included.
\* Not so in two cases: a live register that an exit spills passes for saved, and
\* an LR saved before the frame is allocated is not seen to be restored.
FrameSeparated ==
    Looks =>
        /\ Dropped \ text.frame \subseteq Spills
        /\ text.frame \ Dropped \subseteq IF SavedEarly THEN RestoresOfLR ELSE {}
=============================================================================
