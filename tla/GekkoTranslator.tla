--------------------------- MODULE GekkoTranslator ---------------------------
(***************************************************************************)
(* src/ir/GekkoTranslator.cc from compute_parameters on, behind the        *)
(* register binding and the prologue analysis: the instructions of the IR  *)
(* for a routine of general purpose registers, one instruction of the      *)
(* routine per step.                                                       *)
(*                                                                         *)
(* The first traversal of translate (GekkoTranslator.cc:780) returns on    *)
(* the real vertices and throws at the root, which has no data: as written *)
(* no routine gets further. Its comment has it return on the pseudo        *)
(* vertices, and then the blocks are bound as RegisterBinding has it. Both *)
(* are here, by FirstTest, so that what comes behind the test is checked.  *)
(* A condition is named by its CR field, the CR class being another        *)
(* instance of the binding.                                                *)
(***************************************************************************)
EXTENDS RegisterBinding, Perilogue

\* kParameterSetGpr, and with it the size of _int_param.
ASSUME ParametersAssumption == ParameterSet \subseteq 3 .. 10

CONSTANT FirstTest    \* the vertices the first traversal may return on: "is_real"
                      \* as the code is written, "is_pseudo" as its comment says

ASSUME FirstTestAssumption == FirstTest \subseteq {"is_real", "is_pseudo"}

VARIABLES
    ir,       \* per block, IrBlock::_insts: the opcode, then the operands
    cond,     \* per block, _cond, _inv_cond and _ctr
    ended     \* the blocks translated

translatorVars == <<ir, cond, ended>>
everything == <<vars, bindVars, perilogueVars, translatorVars>>

-----------------------------------------------------------------------------
(* compute_parameters *)

int_params == {t.reg - 3 : t \in {gtemp[u] : u \in DOMAIN gtemp} \cap is_param}

\* The slip of a count that is the last index.
LastIntParam == Max({0} \cup int_params)

num_int_param == Max({0} \cup {i + 1 : i \in int_params})

\* param_idx of a stack parameter: its place among those in order of offset.
StackParamIndex(offset) ==
    Cardinality({o \in DOMAIN stack.params : o < offset}) + num_int_param

-----------------------------------------------------------------------------
(* Operands: <<kind, ...>>, or <<"stop", how>> where translate_op does not return *)

datatype_to_reftype(type) ==
    IF type \in {"kS1", "kS2", "kS4", "kSingle", "kDouble"} THEN type ELSE "kInvalid"

query_temp(r) == TempsAt(at[1], at[2], r)

Slot(offset, addrof) ==
    IF ~ HasVariable(stack, offset) THEN <<"stop", "null">>
    ELSE IF IsParam(stack, offset) THEN <<"param", StackParamIndex(offset), addrof>>
    ELSE <<"stack", offset, addrof>>

\* t is what query_temp returned.
Register(t, type) ==
    IF t \in is_param THEN <<"param", t.reg - 3, FALSE>>
    ELSE <<"temp", t, datatype_to_reftype(type)>>

translate_op(x) ==
    CASE x.kind = "GPRSlice" ->
            IF query_temp(x.reg) = {} THEN <<"stop", "null">>
            ELSE Register(CHOOSE t \in query_temp(x.reg) : TRUE, x.type)
      [] x.kind = "CrSlice" -> <<"cond", x.field, x.bits>>
      [] x.kind = "MemRegOff" ->
            IF x.base = 1 THEN Slot(x.off, FALSE)
            ELSE IF x.base = 2 THEN <<"stop", "assert">>
            ELSE IF query_temp(x.base) = {} THEN <<"stop", "null">>
            ELSE <<"mem", CHOOSE t \in query_temp(x.base) : TRUE, x.off>>
      [] x.kind = "SIMM" -> <<"imm", x.val, TRUE>>
      [] x.kind = "UIMM" -> <<"imm", x.val, FALSE>>
      [] OTHER -> <<"stop", "assert">>

Dest(i) == translate_op(i.writes[1])
First(i) == translate_op(i.reads[1])
Second(i) == translate_op(i.reads[2])

-----------------------------------------------------------------------------
(* Instructions: the sequence that is emitted, or a "stop" in its place *)

Halt(how) == <<<<"stop", how>>>>

Emit(opcode, ops) ==
    IF \E k \in DOMAIN ops : ops[k][1] = "stop"
    THEN <<ops[CHOOSE k \in DOMAIN ops : ops[k][1] = "stop"]>>
    ELSE <<<<opcode>> \o ops>>

\* translate_oerc
WithRecord(i, code) ==
    IF code[1][1] # "stop" /\ "kWritesRecord" \in i.flags
    THEN code \o <<<<"kRcTest", code[1][2]>>>> ELSE code

\* translate_dss_wrr
Dss(opcode, i) == Emit(opcode, <<Dest(i), First(i), Second(i)>>)

DssOps == [kAdd |-> "kAdd", kAddc |-> "kAddc", kMulli |-> "kMul", kMullw |-> "kMul",
           kSubf |-> "kSub"]

translate_addi(opcode, i) ==
    IF i.reads[1].kind = "AuxImm" THEN Emit("kMov", <<Dest(i), Second(i)>>)
    ELSE IF i.reads[1].reg = 1 THEN Emit("kMov", <<Dest(i), Slot(i.reads[2].val, TRUE)>>)
    ELSE WithRecord(i, Dss(opcode, i))

\* Without a register the shift is done to the destination, which is no immediate.
translate_addis(i) ==
    IF i.reads[1].kind = "AuxImm" THEN Halt("throw")
    ELSE WithRecord(i, Emit("kAdd", <<Dest(i), First(i),
                                      <<"imm", i.reads[2].val * 2 ^ 16, TRUE>>>>))

\* translate_cmp; there are no long words.
Compare(i) ==
    IF "kLongMode" \in i.flags THEN Halt("assert") ELSE Dss("kCmp", i)

\* A value that is loaded or stored through a parameter or a slot is moved.
Transfer(opcode, i) ==
    Emit(IF Dest(i)[1] \in {"stack", "param"} THEN "kMov" ELSE opcode, <<Dest(i), First(i)>>)

translate_or(i) ==
    WithRecord(i, IF i.reads[1] = i.reads[2] THEN Emit("kMov", <<Dest(i), First(i)>>)
                  ELSE Dss("kOrB", i))

\* Branches are edges of the graph. The operands of calls through LR and CTR are
\* not written yet.
translate_branch(i) ==
    IF "kWritesLR" \in i.flags
    THEN IF i.op = "kB" THEN <<<<"kCall", <<"fn", BranchTarget(i)>>>>>>
         ELSE Halt("unreachable")
    ELSE <<>>

\* is_blr: r3 is returned, and r4 if both have a temporary.
translate_return ==
    LET value(r) == <<"temp", CHOOSE t \in query_temp(r) : TRUE, "kS4">>
    IN  IF query_temp(3) = {} THEN <<<<"kReturn">>>>
        ELSE IF query_temp(4) = {} THEN <<<<"kReturn", value(3)>>>>
        ELSE <<<<"kReturn", value(3), value(4)>>>>

Arithmetic(i) ==
    CASE i.op \in DOMAIN DssOps -> WithRecord(i, Dss(DssOps[i.op], i))
      [] i.op = "kAddi" -> translate_addi("kAdd", i)
      [] i.op \in {"kAddic", "kAddicDot"} -> translate_addi("kAddc", i)
      [] i.op = "kAddis" -> translate_addis(i)
      [] i.op = "kAdde" -> Halt("unreachable")
      [] i.op = "kAddme" -> WithRecord(i, Emit("kAddc", <<Dest(i), First(i), <<"imm", 1, TRUE>>>>))
      [] i.op = "kAddze" -> WithRecord(i, Emit("kAddc", <<Dest(i), First(i), <<"imm", 0, FALSE>>>>))
      [] i.op \in {"kCmp", "kCmpi", "kCmpl", "kCmpli"} -> Compare(i)
      [] i.op = "kOr" -> translate_or(i)
      [] OTHER -> <<>>

Transfers(i) ==
    CASE i.op \in {"kLbz", "kLwz"} -> Transfer("kLoad", i)
      [] i.op \in {"kStb", "kStw"} -> Transfer("kStore", i)
      [] OTHER -> <<>>

Branches(i) ==
    CASE IsBlr(i) -> translate_return
      [] i.op \in {"kB", "kBcctr", "kBclr"} /\ ~ IsBlr(i) -> translate_branch(i)
      [] OTHER -> <<>>

\* One of the three at most; the cases of all other operations are empty.
translate_ppc_inst(i) == Arithmetic(i) \o Transfers(i) \o Branches(i)

Translated(b, k) == types[b][k] = "kNormalInst"

-----------------------------------------------------------------------------
(* translate_block_condition *)

Counter(bo) ==
    IF BOType(bo) \in {"kDz", "kDzt", "kDzf"} THEN "kCounterZero"
    ELSE IF BOType(bo) \in {"kDnz", "kDnzt", "kDnzf"} THEN "kCounterNotZero"
    ELSE "kCounterIgnore"

\* _inv_cond is set where there is a condition.
BlockCondition(i) ==
    LET bo == i.word.d
    IN  [on |-> IF BOType(bo) \in {"kAlways", "kDz", "kDnz"} THEN <<>> ELSE First(i),
         inv |-> BOType(bo) \in {"kF", "kDzf", "kDnzf"}, ctr |-> Counter(bo)]

NoCondition == [on |-> <<>>, inv |-> FALSE, ctr |-> "kCounterIgnore"]

-----------------------------------------------------------------------------
(* The second traversal of translate, in the order of the blocks *)

Unvisited == text.used \ ended

StartTranslate ==
    /\ pass = "over" /\ fault = "none" /\ Collected
    /\ pass' = "translate" /\ at' = <<text.entry, 1>>
    /\ UNCHANGED <<vars, bindVars, text, exits, stack, types, fault, translatorVars>>

TranslateInst ==
    LET b == at[1]  k == at[2]
        code == IF Translated(b, k) THEN translate_ppc_inst(Here) ELSE <<>>
    IN  /\ Running({"translate"}) /\ k <= LastOf(b)
        /\ IF code # <<>> /\ code[1][1] = "stop"
           THEN Stop(code[1][2]) /\ UNCHANGED <<bindVars, translatorVars>>
           ELSE /\ ir' = [ir EXCEPT ![b] = @ \o code]
                /\ at' = <<b, k + 1>>
                /\ UNCHANGED <<vars, bindVars, text, pass, exits, stack, types, fault,
                               cond, ended>>

EndBlock(c) ==
    LET b == at[1]  left == Unvisited \ {b}
    IN  /\ cond' = [cond EXCEPT ![b] = c]
        /\ ended' = ended \cup {b}
        /\ IF left = {} THEN pass' = "translated" /\ UNCHANGED at
           ELSE at' = <<Min(left), 1>> /\ UNCHANGED pass
        /\ UNCHANGED <<vars, bindVars, text, exits, stack, types, fault, ir>>

TranslateBlockCondition ==
    LET i == InstAt(at[1], LastOf(at[1]))
    IN  /\ Running({"translate"}) /\ at[2] > LastOf(at[1])
        /\ i.op = "kBc"
        /\ EndBlock(BlockCondition(i))

\* assert(false), the way every other block ends: the program stops, unless it was
\* built without assertions.
TranslateOtherEnd ==
    /\ Running({"translate"}) /\ at[2] > LastOf(at[1])
    /\ InstAt(at[1], LastOf(at[1])).op # "kBc"
    /\ \/ Stop("assert") /\ UNCHANGED <<bindVars, translatorVars>>
       \/ EndBlock(NoCondition)

-----------------------------------------------------------------------------

TranslatorInit ==
    /\ PerilogueInit /\ Unbound
    /\ ir = [b \in Block |-> <<>>] /\ cond = [b \in Block |-> NoCondition]
    /\ ended = {}

\* compute_block_binds of the root, which is no real vertex: data() throws.
TakeDataOfRoot ==
    /\ "is_real" \in FirstTest
    /\ Running({"over"}) /\ Unbound
    /\ Stop("throw") /\ UNCHANGED <<bindVars, translatorVars>>

\* Blocks and lists in the order of their numbers, a group under any one of its
\* members: RegisterBinding has every order.
BindStep ==
    /\ "is_pseudo" \in FirstTest
    /\ pass = "over" /\ fault = "none" /\ UNCHANGED <<vars, perilogueVars, translatorVars>>
    /\ \/ unbound # {} /\ ComputeBlockBinds(Min(unbound))
       \/ StartUnite
       \/ LET waiting == {v \in Block : forwarding_list[v] # {}}
          IN  /\ waiting # {}
              /\ LET v == Min(waiting)
                     reg == Min({t.reg : t \in forwarding_list[v]})
                     rep == CHOOSE x \in {representative(t) : t \in Group(v, reg)} : TRUE
                 IN  Unite(v, reg) /\ root'[rep] = rep
       \/ Collect

TranslatorNext ==
    \/ PerilogueNext /\ UNCHANGED <<bindVars, translatorVars>>
    \/ TakeDataOfRoot
    \/ BindStep
    \/ StartTranslate
    \/ TranslateInst
    \/ TranslateBlockCondition
    \/ TranslateOtherEnd

TranslatorSpec == TranslatorInit /\ [][TranslatorNext]_everything

-----------------------------------------------------------------------------
(* Properties *)

\* Where a routine names what the passes have no answer for: a slot below the
\* frame, a register that has no temporaries, the value a call has destroyed. r1
\* may be added to where the stack analysis looks for that.
NamesBelow(i) == \E x \in Operands(i) : IsSlot(x) /\ x.off < 0
NamesAbiReg(i) ==
    LET spared == IF i.op \in {"kAddi", "kAddic"} THEN AbiRegs \ {1} ELSE AbiRegs \cup {1}
    IN  \/ \E x \in Range(i.reads) : x.kind = "GPRSlice" /\ x.reg \in spared
        \/ \E x \in Range(i.writes) : x.kind = "GPRSlice" /\ x.reg \in AbiRegs
        \/ \E x \in Operands(i) : x.kind = "MemRegOff" /\ x.base \in AbiRegs \ {1}
NamesDestroyed(b, k) == \E r \in Use(Code(b)[k]) : Destroyed(b, k, r)
NamesR2(i) == \E x \in Operands(i) : x.kind = "MemRegOff" /\ x.base = 2

\* The program takes what three analyses found to be there: it looks a slot up in
\* the stack that another pass filled, a temporary in the intervals the binding
\* made, an operand in the place the decoder put it. It stops for one of these
\* reasons and for no other:
\*  - the first traversal as it is written, which takes the data of the root and
\*    has bound no block yet (GekkoTranslator.cc:780);
\*  - an offset below the frame, a slot used before the frame is allocated, a
\*    register kept for the ABI, or one destroyed by a call;
\*  - an immediate where a register is taken: lis (GekkoTranslator.cc:269), and li
\*    of r11 in front of a call of _savegpr or _restgpr (Perilogue.cc:107);
\*  - adde, and a call through CTR or LR, which are not written yet;
\*  - an assertion: a block that does not end in bc, a long compare, an address
\*    from r2, or a call of _savegpr or _restgpr that a block starts with
\*    (Perilogue.cc:104).
StopsExplained ==
    LET b == at[1]  k == at[2]
        i == InstAt(b, IF k <= LastOf(b) THEN k ELSE LastOf(b))
    IN  /\ fault = "null" =>
              \/ NamesBelow(i) \/ NamesAbiReg(i) \/ UsedEarly
              \/ pass = "translate" /\ NamesDestroyed(b, k)
        /\ fault = "throw" =>
              \/ pass = "over" /\ "is_real" \in FirstTest /\ Unbound
              \/ i.op = "kAddis" /\ i.word.a = 0
              \/ CallsAbi /\ InstAt(b, k - 1).word.a = 0
        /\ fault = "unreachable" => i.op \in {"kAdde", "kBcctr", "kBclr"}
        /\ fault = "assert" =>
              IF k > LastOf(b) THEN i.op # "kBc"
              ELSE \/ CallsAbi /\ k = 1
                   \/ "kLongMode" \in i.flags \/ NamesR2(i)

ParamTemps == {gtemp[u] : u \in DOMAIN gtemp} \cap is_param

\* r is found to be a parameter in two blocks without a predecessor in common.
FoundApart(r) ==
    \E b, c \in Block :
        b # c /\ r \in routine_inputs[b] \cap routine_inputs[c] /\ Preds(b) \cap Preds(c) = {}

\* Arguments stay apart: those in registers and those on the stack are numbered
\* without meeting, no two on the stack share a number, and each register hands
\* over one temporary, so that _int_param, an array by register, loses none.
\* Two temporaries are left of one register only where it is found in two blocks
\* whose predecessors do not meet.
ParamsApart ==
    pass = "translated" =>
        /\ \A t, u \in ParamTemps : t.reg = u.reg /\ t # u => FoundApart(t.reg)
        /\ \A o, p \in DOMAIN stack.params :
              /\ StackParamIndex(o) = StackParamIndex(p) => o = p
              /\ StackParamIndex(o) \notin int_params

Emitted == UNION {Range(ir[b]) : b \in text.used}

\* The destination comes first, but for those that have none.
WritesFirst(i) == i[1] \notin {"kRcTest", "kReturn", "kCall", "kStore"}
ReadTemps ==
    UNION {{i[k][2] : k \in {k \in 2 .. Len(i) :
               i[k][1] = "mem" \/ (i[k][1] = "temp" /\ ~ (k = 2 /\ WritesFirst(i)))}} : i \in Emitted}
WrittenTemps == {i[2][2] : i \in {i \in Emitted : WritesFirst(i) /\ i[2][1] = "temp"}}

\* The temporaries a call returns its values in.
ReturnedTemps ==
    {gtemp[u] : u \in {u \in block_temps :
                           u.reg \in ReturnSet /\ Code(u.block)[u.lo].op = "call"}}

\* Leaving the frame out leaves no hole: what the IR reads is a parameter, the
\* value of a call, or written by the IR. A save that is translated would read a
\* register of the caller, a restore that is taken for code would write it.
IrReadsAreWritten ==
    pass = "translated" /\ Spills = {} =>
        ReadTemps \subseteq is_param \cup WrittenTemps \cup ReturnedTemps
=============================================================================
