---------------------------- MODULE Disassembler ----------------------------
(***************************************************************************)
(* The loop of linear_dis (src/Commands.cc): decode a word, print a line.  *)
(* write_inst_disassembly (src/dbgutil/Disassembler.cc) prints from the    *)
(* word itself, by tables of its own: nothing but these properties relates *)
(* what a line says to the lists of sources the analyses work on.          *)
(*                                                                         *)
(* A line is a mnemonic, the letters added to it and its arguments, each a *)
(* register, a field or bit of CR, a memory operand or a number.           *)
(***************************************************************************)
EXTENDS PpcDisasm, SequencesExt

CONSTANT Words     \* the words memory may hold

ASSUME WordsAssumption == Words \subseteq Word

VARIABLES pc,      \* where the loop is
          inst,    \* the instruction decoded last
          line     \* what was printed for it

vars == <<pc, inst, line>>

-----------------------------------------------------------------------------
(* Operands *)

\* write_operand
Argument(w, f) ==
    CASE f \in GprFields -> <<"r", RegField(w)[f]>>
      [] f \in FprFields -> <<"f", RegField(w)[f]>>
      [] f = "d16ra" -> <<"mem", simm(w), w.a>>
      [] f = "d20ra" -> <<"mem", d20(w), w.a>>
      [] f \in {"crba", "crbb", "crbd"} ->
            <<"bit", [crba |-> w.a, crbb |-> w.b, crbd |-> w.d][f]>>
      [] f = "crfd" -> <<"cr", w.d \div 4>>
      [] f = "crfs" -> <<"cr", w.a \div 4>>
      [] f \in DOMAIN AuxField(w) -> <<"num", AuxField(w)[f]>>
      [] f \in {"spr", "tbr"} -> <<f, Swapped(w)>>
      [] f = "simm" -> <<"num", simm(w)>>
      [] f = "uimm" -> <<"num", Low(w)>>
      [] f = "w" -> <<"num", w.ext \div 512>>
      [] f = "crm" -> <<"num", ((w.a * 32 + w.b) \div 2) % 256>>
      [] f = "fm" -> <<"num", ((w.d * 32 + w.a) \div 2) % 256>>

\* The slip of a loop that ends with the last comma.
ArgumentsButLast(w, fields) ==
    [i \in 1 .. Len(fields) - 1 |-> Argument(w, fields[i])]

\* write_inst_operands
Arguments(w, fields) == [i \in DOMAIN fields |-> Argument(w, fields[i])]

Shown(ops, fields) == [op \in ops |-> fields]

\* The switch of write_inst_disassembly; what it does not name has no operands.
IntegerOperands ==
    Shown({"kTw"}, <<"to", "ra", "rb">>)
    @@ Shown({"kTwi"}, <<"to", "ra", "simm">>)
    @@ Shown({"kRlwimi", "kRlwinm"}, <<"ra", "rs", "sh", "mb", "me">>)
    @@ Shown({"kRlwnm"}, <<"ra", "rs", "rb", "mb", "me">>)
    @@ Shown({"kLswi"}, <<"rd", "ra", "nb">>)
    @@ Shown({"kStswi"}, <<"rs", "ra", "nb">>)
    @@ Shown({"kLbz", "kLbzu", "kLha", "kLhau", "kLhz", "kLhzu", "kLmw", "kLwz", "kLwzu"},
             <<"rd", "d16ra">>)
    @@ Shown({"kAdd", "kAddc", "kAdde", "kDivw", "kDivwu", "kEciwx", "kLbzux", "kLbzx",
              "kLhaux", "kLhax", "kLhbrx", "kLhzux", "kLhzx", "kLswx", "kLwarx",
              "kLwbrx", "kLwzux", "kLwzx", "kMulhw", "kMulhwu", "kMullw", "kSubf",
              "kSubfc", "kSubfe"}, <<"rd", "ra", "rb">>)
    @@ Shown({"kEcowx", "kStbux", "kStbx", "kSthbrx", "kSthux", "kSthx", "kStswx",
              "kStwbrx", "kStwcxDot", "kStwux", "kStwx"}, <<"rs", "ra", "rb">>)
    @@ Shown({"kAddi", "kAddic", "kAddicDot", "kAddis", "kMulli", "kSubfic"},
             <<"rd", "ra", "simm">>)
    @@ Shown({"kAddme", "kAddze", "kNeg", "kSubfme", "kSubfze"}, <<"rd", "ra">>)
    @@ Shown({"kAnd", "kAndc", "kEqv", "kNand", "kNor", "kOr", "kOrc", "kSlw", "kSraw",
              "kSrw", "kXor"}, <<"ra", "rs", "rb">>)
    @@ Shown({"kStb", "kStbu", "kSth", "kSthu", "kStmw", "kStw", "kStwu"},
             <<"rs", "d16ra">>)
    @@ Shown({"kSrawi"}, <<"ra", "rs", "sh">>)
    @@ Shown({"kAndiDot", "kAndisDot", "kOri", "kOris", "kXori", "kXoris"},
             <<"ra", "rs", "uimm">>)
    @@ Shown({"kCntlzw", "kExtsb", "kExtsh"}, <<"ra", "rs">>)

FloatOperands ==
    Shown({"kLfd", "kLfdu", "kLfs", "kLfsu"}, <<"frd", "d16ra">>)
    @@ Shown({"kLfdux", "kLfdx", "kLfsux", "kLfsx"}, <<"frd", "ra", "rb">>)
    @@ Shown({"kPsq_l", "kPsq_lu"}, <<"frd", "d20ra", "w", "i17">>)
    @@ Shown({"kPsq_lux", "kPsq_lx"}, <<"frd", "ra", "rb", "w", "i22">>)
    @@ Shown({"kPsq_st", "kPsq_stu"}, <<"frs", "d20ra", "w", "i17">>)
    @@ Shown({"kPsq_stux", "kPsq_stx"}, <<"frs", "ra", "rb", "w", "i22">>)
    @@ Shown({"kStfd", "kStfdu", "kStfs", "kStfsu"}, <<"frs", "d16ra">>)
    @@ Shown({"kStfdux", "kStfdx", "kStfiwx", "kStfsux", "kStfsx"}, <<"frs", "ra", "rb">>)
    @@ Shown({"kFadd", "kFadds", "kFdiv", "kFdivs", "kFsub", "kFsubs", "kPs_add", "kPs_div",
              "kPs_merge00", "kPs_merge01", "kPs_merge10", "kPs_merge11", "kPs_sub"},
             <<"frd", "fra", "frb">>)
    @@ Shown({"kFmadd", "kFmadds", "kFmsub", "kFmsubs", "kFnmadd", "kFnmadds", "kFnmsub",
              "kFnmsubs", "kFsel", "kPs_madd", "kPs_madds0", "kPs_madds1", "kPs_msub",
              "kPs_nmadd", "kPs_nmsub", "kPs_sel", "kPs_sum0", "kPs_sum1"},
             <<"frd", "fra", "frc", "frb">>)
    @@ Shown({"kFmul", "kFmuls", "kPs_mul", "kPs_muls0", "kPs_muls1"},
             <<"frd", "fra", "frc">>)
    @@ Shown({"kFabs", "kFctiw", "kFctiwz", "kFmr", "kFnabs", "kFneg", "kFres", "kFrsp",
              "kFrsqrte", "kPs_abs", "kPs_mr", "kPs_nabs", "kPs_neg", "kPs_res",
              "kPs_rsqrte"}, <<"frd", "frb">>)
    @@ Shown({"kFcmpo", "kFcmpu", "kPs_cmpo0", "kPs_cmpo1", "kPs_cmpu0", "kPs_cmpu1"},
             <<"crfd", "fra", "frb">>)
    @@ Shown({"kMtfsb0", "kMtfsb1"}, <<"crbd">>)
    @@ Shown({"kMtfsf"}, <<"fm", "frb">>)
    @@ Shown({"kMtfsfi"}, <<"crfd", "imm">>)
    @@ Shown({"kMffs"}, <<"frd">>)

SystemOperands ==
    Shown({"kDcbf", "kDcbi", "kDcbst", "kDcbt", "kDcbtst", "kDcbz", "kDcbz_l", "kIcbi"},
          <<"ra", "rb">>)
    @@ Shown({"kMfsrin"}, <<"rd", "rb">>)
    @@ Shown({"kMtsrin"}, <<"rs", "rb">>)
    @@ Shown({"kMftb"}, <<"rd", "tbr">>)
    @@ Shown({"kMtmsr"}, <<"rs">>)
    @@ Shown({"kMtspr"}, <<"spr", "rs">>)
    @@ Shown({"kMtsr"}, <<"sr", "rs">>)
    @@ Shown({"kMtcrf"}, <<"crm", "rs">>)
    @@ Shown({"kTlbie"}, <<"rb">>)

FieldOperands ==
    Shown({"kMcrf", "kMcrfs"}, <<"crfd", "crfs">>)
    @@ Shown({"kMfspr"}, <<"rd", "spr">>)
    @@ Shown({"kMfsr"}, <<"rd", "sr">>)
    @@ Shown({"kMfcr", "kMfmsr"}, <<"rd">>)
    @@ Shown({"kMcrxr"}, <<"crfd">>)
    @@ Shown({"kCrand", "kCrandc", "kCreqv", "kCrnand", "kCrnor", "kCror", "kCrorc",
              "kCrxor"}, <<"crbd", "crba", "crbb">>)

\* The switch as a whole; an operation without a row has no operands.
Operands == IntegerOperands @@ FloatOperands @@ SystemOperands @@ FieldOperands

-----------------------------------------------------------------------------
(* Suffixes *)

OercOps ==
    {"kAdd", "kAddc", "kAdde", "kAddme", "kAddze", "kDivw", "kDivwu", "kMullw", "kNeg",
     "kSubf", "kSubfc", "kSubfe", "kSubfme", "kSubfze", "kXor"}

RcOps ==
    {"kAnd", "kAndc", "kCntlzw", "kEqv", "kExtsb", "kExtsh", "kFabs", "kFadd", "kFadds",
     "kFctiw", "kFctiwz", "kFdiv", "kFdivs", "kFmadd", "kFmadds", "kFmr", "kFmsub",
     "kFmsubs", "kFmul", "kFmuls", "kFnabs", "kFneg", "kFnmadd", "kFnmadds", "kFnmsub",
     "kFnmsubs", "kFres", "kFrsp", "kFrsqrte", "kFsel", "kFsub", "kFsubs", "kMffs",
     "kMtfsb0", "kMtfsb1", "kMtfsf", "kMtfsfi", "kMulhw", "kMulhwu", "kNand", "kNor",
     "kOr", "kOrc", "kPs_abs", "kPs_add", "kPs_div", "kPs_madd", "kPs_madds0",
     "kPs_madds1", "kPs_merge00", "kPs_merge01", "kPs_merge10", "kPs_merge11", "kPs_mr",
     "kPs_msub", "kPs_mul", "kPs_muls0", "kPs_muls1", "kPs_nabs", "kPs_neg",
     "kPs_nmadd", "kPs_nmsub", "kPs_res", "kPs_rsqrte", "kPs_sel", "kPs_sub",
     "kPs_sum0", "kPs_sum1", "kRlwimi", "kRlwinm", "kRlwnm", "kSlw", "kSraw",
     "kSrawi", "kSrw"}

\* The slip that gives a shift the letters of an addition.
SuffixByBit(op, w) ==
    (IF w.ext % 2 = 1 /\ op \in OercOps \cup RcOps THEN {"o"} ELSE {})
        \cup (IF w.rc = 1 /\ op \in OercOps \cup RcOps THEN {"."} ELSE {})

\* opcode_flags_string, as a set of letters. It looks at the word, not at the flags
\* the decoder found.
Suffix(op, w) ==
    LET last == w.rc = 1           \* rc and lk
        other == w.ext % 2 = 1     \* oe and aa
        letters(a, b) == (IF other THEN {a} ELSE {}) \cup (IF last THEN {b} ELSE {})
    IN  CASE op \in OercOps -> letters("o", ".")
          [] op \in RcOps /\ last -> {"."}
          [] op \in {"kB", "kBc"} -> letters("a", "l")
          [] op \in {"kBcctr", "kBclr"} /\ last -> {"l"}
          [] OTHER -> {}

-----------------------------------------------------------------------------
(* Lines *)

Line(name, suffix, args) == [name |-> name, suffix |-> suffix, args |-> args]

NoLine == Line(<<>>, {}, <<>>)

Condition == <<"lt", "gt", "eq", "so">>
ConditionInv == <<"ge", "le", "ne", "ns">>

\* write_bcx_pseudo: the mnemonic, and the bit or field that it leaves open.
BcxName(w, form) ==
    LET t == BOType(w.d)
    IN  CASE t = "kT" -> <<"b", Condition[(w.a % 4) + 1], form>>
          [] t = "kF" -> <<"b", ConditionInv[(w.a % 4) + 1], form>>
          [] t = "kInvalid" -> <<>>
          [] OTHER -> <<t, form>>

BcxArguments(w) ==
    CASE BOType(w.d) \in {"kDnzf", "kDzf", "kDnzt", "kDzt"} -> <<<<"bit", w.a>>>>
      [] BOType(w.d) \in {"kT", "kF"} /\ w.a >= 4 -> <<<<"cr", w.a \div 4>>>>
      [] OTHER -> <<>>

U8(n) == n % 256

\* guess_rlwinm and guess_rlwimi: a mnemonic and its numbers, which are uint8_t.
guess_rlwinm(sh, mb, me) ==
    IF sh = 0 /\ mb = 0 THEN <<"clrrwi", U8(31 - me)>>
    ELSE IF sh = 0 /\ me = 31 THEN <<"clrlwi", mb>>
    ELSE IF mb = 0 /\ me = 31 THEN IF sh >= 16 THEN <<"rotrwi", 32 - sh>> ELSE <<"rotlwi", sh>>
    ELSE IF mb = 0 THEN IF sh + me = 31 THEN <<"slwi", 31 - me>> ELSE <<"extlwi", me + 1, sh>>
    ELSE IF me = 31 THEN IF sh + mb = 32 THEN <<"srwi", mb>>
                         ELSE <<"extrwi", 32 - mb, U8(sh - (32 - mb))>>
    ELSE IF sh + me = 31 /\ mb + sh <= 31 THEN <<"clrlslwi", sh, mb + sh>>
    ELSE <<>>

\* The slip of a length that is one short.
guess_rlwimi_short(sh, mb, me) ==
    IF sh + mb = 32 THEN <<"inslwi", U8(me - mb), mb>>
    ELSE IF sh + me = 31 THEN <<"insrwi", U8(me - mb), mb>>
    ELSE <<>>

guess_rlwimi(sh, mb, me) ==
    IF sh + mb = 32 THEN <<"inslwi", U8(me + 1 - mb), mb>>
    ELSE IF sh + me = 31 THEN <<"insrwi", U8(me + 1 - mb), mb>>
    ELSE <<>>

Numbers(guess) == [i \in 1 .. Len(guess) - 1 |-> <<"num", guess[i + 1]>>]

\* A comparison names its CR field unless it is the first.
CompareFields(w, fields) ==
    IF w.d \div 4 = 0 THEN fields ELSE <<"crfd">> \o fields

CompareName == [kCmp |-> "cmp", kCmpi |-> "cmpi", kCmpl |-> "cmpl", kCmpli |-> "cmpli"]

\* handle_pseudo_inst: the line, or NoLine where it returns false.
Pseudo(i) ==
    LET w == i.word
        op == i.op
        suffix == Suffix(op, w)
        fields(name, fs) == Line(<<name>>, suffix, Arguments(w, fs))
        guessed(g) == IF g = <<>> THEN NoLine
                      ELSE Line(<<g[1]>>, suffix, Arguments(w, <<"ra", "rs">>) \o Numbers(g))
        when(cond, l) == IF cond THEN l ELSE NoLine
    IN  CASE op = "kBc" ->
                Line(BcxName(w, ""), suffix, BcxArguments(w) \o
                     <<<<"num", i.reads[3].rel>>, <<"loc", BranchTarget(i)>>>>)
          [] op = "kBclr" -> Line(BcxName(w, "lr"), suffix, BcxArguments(w))
          [] op = "kBcctr" -> Line(BcxName(w, "ctr"), suffix, BcxArguments(w))
          [] op \in {"kCmp", "kCmpl"} ->
                Line(<<CompareName[op], w.d % 2>>, {},
                     Arguments(w, CompareFields(w, <<"ra", "rb">>)))
          [] op \in {"kCmpi", "kCmpli"} ->
                Line(<<CompareName[op], w.d % 2>>, {},
                     Arguments(w, CompareFields(w, <<"ra", "simm">>)))
          [] op = "kOri" -> when(w.d = 0 /\ w.a = 0 /\ w.b = 0, Line(<<"nop">>, {}, <<>>))
          [] op = "kAddi" -> when(w.a = 0, fields("li", <<"rd", "simm">>))
          [] op = "kAddis" -> when(w.a = 0, fields("lis", <<"rd", "simm">>))
          [] op = "kOr" -> when(w.d = w.b, fields("mr", <<"ra", "rb">>))
          [] op = "kNor" -> when(w.d = w.b, fields("not", <<"ra", "rb">>))
          [] op = "kMtcrf" -> when(Argument(w, "crm") = <<"num", 255>>,
                                   fields("mtcr", <<"rs">>))
          [] op = "kRlwinm" -> guessed(guess_rlwinm(w.b, w.ext \div 32, w.ext % 32))
          [] op = "kRlwimi" -> guessed(guess_rlwimi(w.b, w.ext \div 32, w.ext % 32))
          [] op = "kRlwnm" -> when(w.ext \div 32 = 0 /\ w.ext % 32 = 31,
                                   fields("rotlw", <<"ra", "rs", "rb">>))
          [] OTHER -> NoLine

\* write_inst_disassembly
write_inst_disassembly(i) ==
    LET pseudo == Pseudo(i)
        args == CASE i.op = "kB" -> <<<<"num", i.reads[1].rel>>, <<"loc", BranchTarget(i)>>>>
                  [] i.op \in DOMAIN Operands -> Arguments(i.word, Operands[i.op])
                  [] OTHER -> <<>>
    IN  IF pseudo # NoLine THEN pseudo ELSE Line(<<i.op>>, Suffix(i.op, i.word), args)

-----------------------------------------------------------------------------
(* The loop *)

Nothing == Disasm(0, [opcd |-> 0, d |-> 0, a |-> 0, b |-> 0, ext |-> 0, rc |-> 0])

Init ==
    /\ pc = "fetch"
    /\ inst = Nothing
    /\ line = NoLine

\* read_instruction. Targets are printed relative to an address taken to be 0.
Fetch ==
    /\ pc = "fetch"
    /\ \E w \in Words : inst' = Disasm(0, w)
    /\ pc' = "print"
    /\ UNCHANGED line

Write ==
    /\ pc = "print"
    /\ line' = write_inst_disassembly(inst)
    /\ pc' = "printed"
    /\ UNCHANGED inst

\* The next turn of the loop.
NewLine ==
    /\ pc = "printed"
    /\ pc' = "fetch"
    /\ inst' = Nothing
    /\ line' = NoLine

Next == Fetch \/ Write \/ NewLine

Spec == Init /\ [][Next]_vars

-----------------------------------------------------------------------------
(* Properties *)

\* The registers a source or destination stands for; a range of registers by its
\* first one, as a line has it.
Registers(x) ==
    CASE x.kind = "GPRSlice" -> {<<"r", x.reg>>}
      [] x.kind = "FPRSlice" -> {<<"f", x.reg>>}
      [] x.kind = "MemRegOff" -> {<<"r", x.base>>}
      [] x.kind = "MemRegReg" -> {<<"r", x.base>>, <<"r", x.index>>}
      [] x.kind = "MultiReg" -> {<<"r", x.low>>}
      [] x.kind = "CrSlice" -> {<<"cr", x.field>>}
      [] OTHER -> {}

Listed(i) == UNION {Registers(x) : x \in Range(i.reads) \cup Range(i.writes)}

Named(l) ==
    {IF a[1] = "mem" THEN <<"r", a[3]>>
     ELSE IF a[1] = "bit" THEN <<"cr", a[2] \div 4>> ELSE a :
        a \in {x \in Range(l.args) : x[1] \in {"r", "f", "cr", "bit", "mem"}}}

\* The operations of opcode 4 that only the later searches would give operands.
LaterSearches == {op \in {Op4[c].op : c \in DOMAIN Op4} :
                    \A c \in DOMAIN Op4 : Op4[c].op = op => Op4[c].writes = <<>>}

\* Moves between CR and FPSCR print a field of FPSCR as one of CR; mcrf lists its
\* destination as its source.
OtherFields == {"kMcrf", "kMcrfs", "kMtfsb0", "kMtfsb1", "kMtfsfi"}

\* A line names the registers that the sources and destinations of the instruction
\* stand for, all of them and no others, although write_inst_disassembly and
\* disasm_single take them from the word by separate tables (Disassembler.cc:1076,
\* PpcDisasm.cc:170). A CR field may be left out of a branch or a comparison. The
\* operations of LaterSearches and OtherFields are known to differ, and so are the
\* words printed nop: not only ori r0,r0,0 but every ori r0,r0,n, n < 2048, that reads and
\* writes r0 and names nothing (Disassembler.cc:1011).
LineNamesOperands ==
    pc = "printed" /\ inst.op \notin LaterSearches \cup OtherFields /\ line.name # <<"nop">> =>
        /\ Named(line) \subseteq Listed(inst)
        /\ \A r \in Listed(inst) \ Named(line) : r[1] = "cr"

\* The letters of a line are the flags that the analyses see, although the printer
\* looks at the bits of the word and has its own list of the operations that have
\* them (Disassembler.cc:465). Operations with a dot in their name show no letter.
\* Both take OE from one accessor, so that they agree although it looks at bit 30
\* and not at bit 21, where the architecture has it (BinInst.hh:117).
SuffixShowsFlags ==
    pc = "printed" /\ inst.op \notin LaterSearches
        /\ inst.op \notin {"kInvalid", "kAddicDot", "kAndiDot", "kAndisDot", "kStwcxDot"} =>
        /\ "." \in line.suffix <=> "kWritesRecord" \in inst.flags
        /\ "o" \in line.suffix <=> "kWritesXER" \in inst.flags
        /\ "l" \in line.suffix <=> "kWritesLR" \in inst.flags
        /\ "a" \in line.suffix <=> "kAbsoluteAddr" \in inst.flags

\* What a rotate mnemonic with numbers n and b stands for: shift, mask begin and end.
Rotate(name, n, b) ==
    CASE name = "clrrwi" -> <<0, 0, 31 - n>>
      [] name = "clrlwi" -> <<0, n, 31>>
      [] name = "rotrwi" -> <<32 - n, 0, 31>>
      [] name = "rotlwi" -> <<n, 0, 31>>
      [] name = "slwi" -> <<n, 0, 31 - n>>
      [] name = "srwi" -> <<32 - n, n, 31>>
      [] name = "extlwi" -> <<b, 0, n - 1>>
      [] name = "extrwi" -> <<b + n, 32 - n, 31>>
      [] name = "clrlslwi" -> <<n, b - n, 31 - n>>
      [] name = "inslwi" -> <<32 - b, b, b + n - 1>>
      [] name = "insrwi" -> <<32 - (b + n), b, b + n - 1>>

\* The simplified mnemonic guess_rlwinm or guess_rlwimi picks stands, modulo the
\* word size, for the shift and mask of the word, so that nothing but the choice
\* among equal readings is guessed (Disassembler.cc:854, 930). The modulus is
\* needed: of a mask that wraps around, some print a number outside 0..31, which
\* stands for the word but which no assembler takes.
RotatesReadBack ==
    pc = "printed" /\ inst.op \in {"kRlwinm", "kRlwimi"} /\ line.name # <<inst.op>> =>
        LET w == inst.word
            n == line.args[3][2]     \* the numbers follow two registers
            b == IF Len(line.args) = 4 THEN line.args[4][2] ELSE 0
            meant == Rotate(line.name[1], n, b)
        IN  /\ meant[1] % 32 = w.b
            /\ meant[2] % 32 = w.ext \div 32
            /\ meant[3] % 32 = w.ext % 32

\* The reserved vectors of a MetaInst and of analyze_block hold what is put into
\* them: four sources, two destinations, three references to the stack pointer
\* (PpcDisasm.hh:249, SubroutineStack.cc:45; past it, ReservedVector.hh:146).
CapacityKept ==
    LET sp(list) == {k \in DOMAIN list : list[k].kind \in {"MemRegOff", "GPRSlice"}
                                            /\ <<"r", 1>> \in Registers(list[k])}
    IN  /\ Len(inst.reads) <= 4
        /\ Len(inst.writes) <= 2
        /\ Cardinality(sp(inst.reads)) + Cardinality(sp(inst.writes)) <= 3

\* What later passes take out of the lists by position, with std::get or for a
\* case of translate_op, and the operations they do it for: <<list, position,
\* kinds, operations>>. They are the graph builder and branch_target, the stack and
\* the prologue analysis, and the translator.
AddsImmediate == {"kAddi", "kAddis", "kAddic", "kAddicDot"}
Translatable == {"GPRSlice", "CrSlice", "SIMM", "UIMM"}
Asked ==
    {<<"reads", 1, {"RelBranch"}, {"kB"}>>,       \* branch_target, SubroutineGraph.cc:104
     <<"reads", 3, {"RelBranch"}, {"kBc"}>>,
     <<"reads", 1, {"CrSlice"}, {"kBc"}>>,                \* translate_block_condition
     <<"reads", 1, {"GPRSlice", "AuxImm"}, AddsImmediate>>,            \* translate_addi
     <<"reads", 2, {"SIMM"}, AddsImmediate>>,   \* with SubroutineStack.cc:133 and Perilogue
     <<"writes", 1, {"GPRSlice"}, AddsImmediate>>,
     <<"writes", 1, {"MemRegOff"}, {"kStb", "kStw", "kStmw", "kStwu"}>>,  \* translate_store
     <<"reads", 1, {"GPRSlice"}, {"kStb", "kStw"}>>,
     <<"reads", 1, {"MultiReg"}, {"kStmw"}>>,                            \* Perilogue
     <<"reads", 1, {"MemRegOff"}, {"kLbz", "kLwz", "kLmw"}>>,          \* translate_load
     <<"writes", 1, {"GPRSlice"}, {"kLbz", "kLwz"}>>,
     <<"writes", 1, {"MultiReg"}, {"kLmw"}>>}
    \cup {<<at[1], at[2], Translatable,                              \* translate_dss_wrr
            {"kAdd", "kAddc", "kAdde", "kMulli", "kMullw", "kSubf", "kCmp", "kCmpi",
             "kCmpl", "kCmpli", "kOr"}>> :
            at \in {<<"writes", 1>>, <<"reads", 1>>, <<"reads", 2>>}}
    \cup {<<list, 1, Translatable, {"kAddme", "kAddze"}>> : list \in {"reads", "writes"}}

\* Where a later pass takes an operand by its position in a list and by its kind,
\* the decoder has put one of that kind there (a std::get that does not match
\* throws; PpcDisasm.hh:280, Perilogue.cc:50, GekkoTranslator.cc:239). Two places
\* ask for what is not there, and throw, for li and for lis: Perilogue.cc:107 takes
\* the base register of an addi to r11 in front of an ABI call, and
\* GekkoTranslator.cc:269 an immediate from the destination of an addis without
\* base. The second part says that these are the words with a zero there, and no
\* others: the base of every other addi and addis is in its place.
PositionsAgreed ==
    /\ \A q \in Asked :
        inst.op \in q[4] => /\ q[2] <= Len(inst[q[1]])
                            /\ inst[q[1]][q[2]].kind \in q[3]
    /\ inst.op \in {"kAddi", "kAddis"} =>
        (inst.reads[1].kind = "GPRSlice" <=> inst.word.a # 0)

\* A load or store that updates its base differs from the plain one in nothing but
\* that it also writes the base (PpcDisasm.cc:312, 773): the word with the opcode
\* of the plain form has the same lists without it.
PlainWord(w) ==
    IF w.opcd = 31 THEN [w EXCEPT !.ext = w.ext - 32] ELSE [w EXCEPT !.opcd = w.opcd - 1]

UpdateOps ==
    {"kLwzu", "kLbzu", "kStwu", "kStbu", "kLhzu", "kLhau", "kSthu", "kLfsu", "kLfdu",
     "kStfsu", "kStfdu", "kPsq_lu", "kPsq_stu", "kLbzux", "kLhzux", "kLhaux", "kLfsux",
     "kLfdux", "kStwux", "kStbux", "kSthux", "kStfsux", "kStfdux"}

UpdatesAddTheBase ==
    inst.op \in UpdateOps =>
        LET plain == Disasm(0, PlainWord(inst.word))
        IN  /\ plain.op \notin UpdateOps \cup {"kInvalid"}
            /\ inst.reads = plain.reads
            /\ inst.writes = plain.writes \o <<Gpr(inst.word.a, "kS4")>>
            /\ inst.flags = plain.flags

\* A bc or bclr says that it writes the counter just when its BO, as bo_type_from_imm
\* classifies it for the translator and the printer, is one that counts; and
\* bo_type_from_imm finds a type for every BO, so that translate_block_condition
\* never reaches its default (PpcDisasm.cc:255, 1572, GekkoTranslator.cc:736).
Counting == {"kDnz", "kDz", "kDnzf", "kDzf", "kDnzt", "kDzt"}

CountersAgree ==
    inst.op \in {"kBc", "kBclr"} =>
        /\ Source(inst.word, Spr("kCtr")) \in Range(inst.writes)
              <=> BOType(inst.word.d) \in Counting
        /\ BOType(inst.word.d) # "kInvalid"
=============================================================================
