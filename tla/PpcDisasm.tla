----------------------------- MODULE PpcDisasm -----------------------------
(***************************************************************************)
(* disasm_single of src/ppc/PpcDisasm.cc: what a word does, as a MetaInst. *)
(* The switches of the code are tables here: a row gives an operation, its *)
(* opcode and the accessors that the case of the switch pushes.            *)
(***************************************************************************)
EXTENDS BinInst

(* Tables. Rows(codes, ...): the operations of the record codes, each with its *)
(* opcode, share what they read, write and flag.                              *)

Rows(codes, reads, writes, flags) ==
    {[code |-> codes[op], op |-> op, reads |-> reads, writes |-> writes,
      flags |-> flags] : op \in DOMAIN codes}

\* A table as a function of the opcode.
Index(rows) ==
    [c \in {r.code : r \in rows} |-> CHOOSE r \in rows : r.code = c]

Invalid == [code |-> 0, op |-> "kInvalid", reads |-> <<>>, writes |-> <<>>,
            flags |-> {}]

Find(table, code) == IF code \in DOMAIN table THEN table[code] ELSE Invalid

\* The switches that set the flags after their last case.
FindFlagged(table, code, flags) == [Find(table, code) EXCEPT !.flags = flags]

\* The slip that leaves the base of an updating form out.
PlainAndUpdateOnce(plain, update, reads, writes, flags) ==
    Rows(plain, reads, writes, flags) \cup Rows(update, reads, writes, flags)

\* A load or store and its updating form, which writes the base register too.
PlainAndUpdate(plain, update, reads, writes, flags) ==
    Rows(plain, reads, writes, flags)
        \cup Rows(update, reads, Append(writes, ra_w), flags)

-----------------------------------------------------------------------------
(* FPSCR bits *)

kFx == {0}
kOx == {3}
kUx == {4}
kZx == {5}
kXx == {6}
kVxsnan == {7}
kVxisi == {8}
kVxidi == {9}
kVxzdz == {10}
kVximz == {11}
kVxvc == {12}
kVxsqrt == {22}
kVxcvi == {23}
kFpcc == 16 .. 19
RoundedBits == (15 .. 19) \cup {13, 14} \cup kFx      \* kFprf, kFr, kFi, kFx
SumBits == RoundedBits \cup kOx \cup kUx \cup kXx \cup kVxsnan \cup kVxisi
ProductBits == RoundedBits \cup kOx \cup kUx \cup kXx \cup kVxsnan \cup kVximz
QuotientBits == RoundedBits \cup kOx \cup kUx \cup kZx \cup kXx
                \cup kVxsnan \cup kVxidi \cup kVxzdz
ReciprocalBits == RoundedBits \cup kOx \cup kUx \cup kZx \cup kVxsnan
RootReciprocalBits == RoundedBits \cup kZx \cup kVxsnan \cup kVxsqrt
UnorderedBits == kFpcc \cup kFx \cup kVxsnan
OrderedBits == UnorderedBits \cup kVxvc

\* fpscr_bits_for_psfunc, for_fs_func and for_fd_func; {} is nullopt.
PsBits(f) ==
    CASE f \in {0, 64} -> UnorderedBits
      [] f \in {10, 11, 20, 21} -> SumBits
      [] f \in (12 .. 15) \cup (28 .. 31) -> SumBits \cup kVximz
      [] f = 18 -> QuotientBits
      [] f = 24 -> ReciprocalBits
      [] f = 25 -> ProductBits
      [] f = 26 -> RootReciprocalBits
      [] f \in {32, 96} -> OrderedBits
      [] OTHER -> {}

\* fmuls gets the exceptions of a sum, unlike fmul and ps_mul.
FsBits(f) ==
    CASE f = 18 -> QuotientBits
      [] f \in {20, 21, 25} -> SumBits
      [] f = 24 -> ReciprocalBits
      [] f \in 28 .. 31 -> SumBits \cup kVximz
      [] OTHER -> {}

FdBits(f) ==
    CASE f = 0 -> kFpcc \cup kVxsnan
      [] f = 12 -> RoundedBits \cup kOx \cup kUx \cup kXx \cup kVxsnan
      [] f \in {14, 15} -> RoundedBits \cup kXx \cup kVxsnan \cup kVxcvi
      [] f = 18 -> QuotientBits
      [] f \in {20, 21} -> SumBits
      [] f = 25 -> ProductBits
      [] f = 26 -> RootReciprocalBits
      [] f \in 28 .. 31 -> SumBits \cup kVximz
      [] f = 32 -> OrderedBits
      [] OTHER -> {}

\* The slip that pushes a destination for each bit.
FpscrWriteEach(bits) ==
    [i \in 1 .. Cardinality(bits) |-> [kind |-> "FPSCRBit", bits |-> bits]]

FpscrWrite(bits) ==
    IF bits = {} THEN <<>> ELSE <<[kind |-> "FPSCRBit", bits |-> bits]>>

-----------------------------------------------------------------------------
(* The tables *)

Packed(field) == <<field, "kPackedSingle">>
Single(field) == <<field, "kSingle">>
Double(field) == <<field, "kDouble">>
Either(field) == <<field, "kSingleOrDouble">>

\* What op_for_psfunc looks up with fewer than ten bits.
LaterCodes ==
    [kPsq_lx |-> 6, kPsq_stx |-> 7, kPsq_lux |-> 38, kPsq_stux |-> 39, kPs_sum0 |-> 10,
     kPs_sum1 |-> 11, kPs_muls0 |-> 12, kPs_muls1 |-> 13, kPs_madds0 |-> 14,
     kPs_madds1 |-> 15, kPs_div |-> 18, kPs_sub |-> 20, kPs_add |-> 21, kPs_sel |-> 23,
     kPs_res |-> 24, kPs_mul |-> 25, kPs_rsqrte |-> 26, kPs_msub |-> 28,
     kPs_madd |-> 29, kPs_nmsub |-> 30, kPs_nmadd |-> 31]

\* op_for_psfunc. The operands are those of the first search, over ten bits:
\* where it finds nothing it sets search_again to false, not true, so that the
\* searches over six and five bits never run.
Op4Rows ==
    Rows([kPs_neg |-> 40, kPs_mr |-> 72, kPs_nabs |-> 136, kPs_abs |-> 264],
         <<Packed("frb")>>, <<Packed("frd")>>, {"rc_fp"})
    \cup Rows([kPs_cmpu0 |-> 0, kPs_cmpo0 |-> 32, kPs_cmpu1 |-> 64, kPs_cmpo1 |-> 96],
              <<Packed("fra"), Packed("frb")>>, <<Cr("crfd")>>, {})
    \cup Rows([kPs_merge00 |-> 528, kPs_merge01 |-> 560, kPs_merge10 |-> 592,
               kPs_merge11 |-> 624], <<Packed("fra"), Packed("frb")>>, <<Packed("frd")>>, {"rc_fp"})
    \cup Rows([kDcbz_l |-> 1014], <<>>, <<Idx("kS4")>>, {})
    \cup Rows(LaterCodes, <<>>, <<>>, {})

Op4 == Index(Op4Rows)

Op19Rows ==
    Rows([kMcrf |-> 0], <<Cr("crfd")>>, <<Cr("crfd")>>, {})
    \cup Rows([kBclr |-> 16], <<Cr("bi"), Spr("kLr"), Aux("bo")>>, <<>>, {"lk"})
    \cup Rows([kBcctr |-> 528], <<Cr("bi"), Spr("kCtr"), Aux("bo")>>, <<>>, {"lk"})
    \cup Rows([kCrnor |-> 33, kCrandc |-> 129, kCrxor |-> 193, kCrnand |-> 225,
               kCrand |-> 257, kCrorc |-> 417, kCror |-> 449],
              <<Cr("crba"), Cr("crbb")>>, <<Cr("crbd")>>, {})
    \cup Rows([kRfi |-> 50, kIsync |-> 150], <<>>, <<>>, {})

Op19 == Index(Op19Rows)

MoveRows ==
    Rows([kMfcr |-> 19, kMfmsr |-> 83], <<>>, <<rd_w>>, {})
    \cup Rows([kMtcrf |-> 144], <<rs_w, Aux("crm")>>, <<>>, {})
    \cup Rows([kMtmsr |-> 146], <<rs_w>>, <<>>, {})
    \cup Rows([kMtsr |-> 210], <<rs_w, Aux("sr")>>, <<>>, {})
    \cup Rows([kMtsrin |-> 242], <<rs_w, rb_w>>, <<>>, {})
    \cup Rows([kMfsr |-> 595], <<Aux("sr")>>, <<rd_w>>, {})
    \cup Rows([kMfsrin |-> 659], <<rb_w>>, <<rd_w>>, {})
    \cup Rows([kMfspr |-> 339], <<Special("spr")>>, <<rd_w>>, {})
    \cup Rows([kMtspr |-> 467], <<rs_w>>, <<Special("spr")>>, {})
    \cup Rows([kMftb |-> 371], <<Special("tbr")>>, <<rd_w>>, {})
    \cup Rows([kMcrxr |-> 512], <<Spr("kXer")>>, <<Cr("crfd"), Spr("kXer")>>, {})
    \cup Rows([kTlbie |-> 306], <<rb_w>>, <<>>, {})
    \cup Rows([kTlbsync |-> 566, kSync |-> 598, kEieio |-> 854], <<>>, <<>>, {})

BitRows ==
    Rows([kSlw |-> 24, kAnd |-> 28, kAndc |-> 60, kNor |-> 124, kEqv |-> 284,
          kXor |-> 316, kOrc |-> 412, kOr |-> 444, kNand |-> 476, kSrw |-> 536],
         <<rs_w, rb_w>>, <<ra_w>>, {"rc"})
    \cup Rows([kSraw |-> 792], <<rs_w, rb_w>>, <<ra_w, Spr("kXer")>>, {"rc"})
    \cup Rows([kSrawi |-> 824], <<rs_w, Aux("sh")>>, <<ra_w, Spr("kXer")>>, {"rc"})
    \cup Rows([kCntlzw |-> 26], <<rs_w>>, <<ra_w>>, {"rc"})
    \cup Rows([kExtsh |-> 922], <<rs_h>>, <<ra_w>>, {"rc"})
    \cup Rows([kExtsb |-> 954], <<rs_b>>, <<ra_w>>, {"rc"})
    \cup Rows([kCmp |-> 0, kCmpl |-> 32], <<ra_w, rb_w, Spr("kXer")>>,
              <<Cr("crfd")>>, {"l"})
    \cup Rows([kTw |-> 4], <<ra_w, rb_w, Aux("to")>>, <<>>, {})
    \cup Rows([kMulhwu |-> 11, kMulhw |-> 75], <<ra_w, rb_w>>, <<rd_w>>, {"rc"})

\* There is no case for 55, lwzux.
IndexedLoadRows ==
    Rows([kLwarx |-> 20, kLwzx |-> 23, kLswx |-> 533, kLwbrx |-> 534],
         <<Idx("kS4")>>, <<rd_w>>, {})
    \cup PlainAndUpdate([kLbzx |-> 87], [kLbzux |-> 119], <<Idx("kS1")>>, <<rd_b>>, {})
    \cup PlainAndUpdate([kLhzx |-> 279, kLhax |-> 343, kLhbrx |-> 790],
              [kLhzux |-> 311, kLhaux |-> 375], <<Idx("kS2")>>, <<rd_h>>, {})
    \cup PlainAndUpdate([kLfsx |-> 535], [kLfsux |-> 567],
              <<Idx("kSingle")>>, <<Single("frd")>>, {})
    \cup PlainAndUpdate([kLfdx |-> 599], [kLfdux |-> 631],
              <<Idx("kDouble")>>, <<Double("frd")>>, {})
    \cup Rows([kEciwx |-> 310], <<ra_w, rb_w>>, <<rd_w>>, {})
    \cup Rows([kLswi |-> 597], <<AtBase, Aux("nb")>>, <<rd_w>>, {})
    \cup Rows([kDcbt |-> 278], <<Idx("kS4")>>, <<>>, {})

IndexedStoreRows ==
    PlainAndUpdate([kStwx |-> 151, kStwbrx |-> 662, kEcowx |-> 438],
              [kStwux |-> 183], <<rs_w>>, <<Idx("kS4")>>, {})
    \cup PlainAndUpdate([kStbx |-> 215], [kStbux |-> 247], <<rs_b>>, <<Idx("kS1")>>, {})
    \cup PlainAndUpdate([kSthx |-> 407, kSthbrx |-> 918], [kSthux |-> 439],
              <<rs_h>>, <<Idx("kS2")>>, {})
    \cup PlainAndUpdate([kStfsx |-> 663], [kStfsux |-> 695],
              <<Single("frs")>>, <<Idx("kSingle")>>, {})
    \cup PlainAndUpdate([kStfdx |-> 727], [kStfdux |-> 759],
              <<Double("frs")>>, <<Idx("kDouble")>>, {})
    \cup Rows([kStfiwx |-> 983], <<Single("frs")>>, <<Idx("kS4")>>, {})
    \cup Rows([kStswx |-> 661], <<rs_w, Spr("kXer")>>, <<Idx("kS4")>>, {})
    \cup Rows([kStwcxDot |-> 150], <<rs_w, Spr("kXer")>>, <<Idx("kS4")>>, {"record"})
    \cup Rows([kStswi |-> 725], <<rs_w, Aux("nb")>>, <<AtBase>>, {})
    \cup Rows([kDcbst |-> 54, kDcbf |-> 86, kDcbtst |-> 246, kDcbi |-> 470,
               kIcbi |-> 982, kDcbz |-> 1014], <<>>, <<Idx("kS4")>>, {})

IndexedRows == IndexedLoadRows \cup IndexedStoreRows

Op31Rows == MoveRows \cup BitRows \cup IndexedRows

Op31 == Index(Op31Rows)

\* Searched with nine bits where ten find nothing; all take rc and oe.
Op31ArithRows ==
    Rows([kSubfc |-> 8, kAddc |-> 10], <<ra_w, rb_w>>, <<rd_w, Spr("kXer")>>, {})
    \cup Rows([kSubf |-> 40, kMullw |-> 235, kAdd |-> 266, kDivwu |-> 459,
               kDivw |-> 491], <<ra_w, rb_w>>, <<rd_w>>, {})
    \cup Rows([kNeg |-> 104], <<ra_w>>, <<rd_w>>, {})
    \cup Rows([kSubfe |-> 136, kAdde |-> 138], <<ra_w, rb_w, Spr("kXer")>>,
              <<rd_w, Spr("kXer")>>, {})
    \cup Rows([kSubfze |-> 200, kAddze |-> 202, kSubfme |-> 232, kAddme |-> 234],
              <<ra_w, Spr("kXer")>>, <<rd_w, Spr("kXer")>>, {})

Op31Arith == Index(Op31ArithRows)

Op59Rows ==
    Rows([kFdivs |-> 18, kFsubs |-> 20, kFadds |-> 21],
         <<Single("fra"), Single("frb")>>, <<Single("frd")>>, {})
    \cup Rows([kFres |-> 24], <<Single("frb")>>, <<Single("frd")>>, {})
    \cup Rows([kFmuls |-> 25], <<Single("fra"), Single("frc")>>, <<Single("frd")>>, {})
    \cup Rows([kFmsubs |-> 28, kFmadds |-> 29, kFnmsubs |-> 30, kFnmadds |-> 31],
              <<Single("fra"), Single("frb"), Single("frc")>>, <<Single("frd")>>, {})

Op59 == Index(Op59Rows)

Op63Rows ==
    Rows([kFcmpu |-> 0, kFcmpo |-> 32], <<Either("fra"), Either("frb")>>, <<Cr("crfd")>>, {})
    \cup Rows([kFrsp |-> 12], <<Double("frb")>>, <<Single("frd")>>, {"rc_fp"})
    \cup Rows([kFctiw |-> 14, kFctiwz |-> 15], <<Either("frb")>>, <<Single("frd")>>, {"rc_fp"})
    \cup Rows([kFneg |-> 40, kFmr |-> 72, kFnabs |-> 136, kFabs |-> 264],
              <<Either("frb")>>, <<Either("frd")>>, {"rc_fp"})
    \cup Rows([kMtfsb1 |-> 38], <<>>, <<Mask("fpscrbd_fx")>>, {"rc_fp"})
    \cup Rows([kMtfsb0 |-> 70], <<>>, <<Mask("fpscrbd")>>, {"rc_fp"})
    \cup Rows([kMcrfs |-> 64], <<Mask("fpscrfs")>>,
              <<Cr("crfd"), Mask("fpscrfs_ex")>>, {})
    \cup Rows([kMtfsfi |-> 134], <<Aux("imm")>>, <<Mask("fpscrfd")>>, {"rc_fp"})
    \cup Rows([kMffs |-> 583], <<Mask("all")>>, <<Single("frd")>>, {"rc_fp"})
    \cup Rows([kMtfsf |-> 711], <<Single("frb")>>, <<Mask("fm")>>, {"rc_fp"})

Op63 == Index(Op63Rows)

\* Searched with five bits where ten find nothing; all take rc_fp.
Op63ArithRows ==
    Rows([kFdiv |-> 18, kFsub |-> 20, kFadd |-> 21],
         <<Double("fra"), Double("frb")>>, <<Double("frd")>>, {})
    \cup Rows([kFsel |-> 23], <<Either("fra"), Either("frb"), Either("frc")>>, <<Either("frd")>>, {})
    \cup Rows([kFmul |-> 25], <<Double("fra"), Double("frc")>>, <<Double("frd")>>, {})
    \cup Rows([kFrsqrte |-> 26], <<Single("frb")>>, <<Single("frd")>>, {})
    \cup Rows([kFmsub |-> 28, kFmadd |-> 29, kFnmsub |-> 30, kFnmadd |-> 31],
              <<Double("fra"), Double("frb"), Double("frc")>>, <<Double("frd")>>, {})

Op63Arith == Index(Op63ArithRows)

ImmediateRows ==
    Rows([kTwi |-> 3], <<Aux("to"), ra_w, Special("simm")>>, <<>>, {})
    \cup Rows([kMulli |-> 7], <<ra_w, Special("simm")>>, <<rd_w>>, {})
    \cup Rows([kSubfic |-> 8, kAddic |-> 12], <<ra_w, Special("simm")>>,
              <<rd_w, Spr("kXer")>>, {})
    \cup Rows([kAddicDot |-> 13], <<ra_w, Special("simm")>>,
              <<rd_w, Spr("kXer")>>, {"record"})
    \cup Rows([kAddi |-> 14, kAddis |-> 15], <<ra_or_zero, Special("simm")>>, <<rd_w>>, {})
    \cup Rows([kCmpli |-> 10], <<ra_w, Special("uimm"), Spr("kXer")>>,
              <<Cr("crfd")>>, {"l"})
    \cup Rows([kCmpi |-> 11], <<ra_w, Special("simm"), Spr("kXer")>>,
              <<Cr("crfd")>>, {"l"})
    \cup Rows([kRlwimi |-> 20, kRlwinm |-> 21],
              <<rs_w, Aux("sh"), Aux("mb"), Aux("me")>>, <<ra_w>>, {"rc"})
    \cup Rows([kRlwnm |-> 23], <<rs_w, rb_w, Aux("mb"), Aux("me")>>, <<ra_w>>, {"rc"})
    \cup Rows([kOri |-> 24, kOris |-> 25, kXori |-> 26, kXoris |-> 27],
              <<rs_w, Special("uimm")>>, <<ra_w>>, {})
    \cup Rows([kAndiDot |-> 28, kAndisDot |-> 29], <<rs_w, Special("uimm")>>,
              <<ra_w>>, {"record"})

OffsetLoadRows ==
    PlainAndUpdate([kLwz |-> 32], [kLwzu |-> 33], <<Off("kS4")>>, <<rd_w>>, {})
    \cup PlainAndUpdate([kLbz |-> 34], [kLbzu |-> 35], <<Off("kS1")>>, <<rd_b>>, {})
    \cup PlainAndUpdate([kLhz |-> 40, kLha |-> 42], [kLhzu |-> 41, kLhau |-> 43],
              <<Off("kS2")>>, <<rd_h>>, {})
    \cup Rows([kLmw |-> 46], <<Off("kS4")>>, <<Multi>>, {})
    \cup PlainAndUpdate([kLfs |-> 48], [kLfsu |-> 49], <<Off("kSingle")>>, <<Single("frd")>>, {})
    \cup PlainAndUpdate([kLfd |-> 50], [kLfdu |-> 51], <<Off("kDouble")>>, <<Double("frd")>>, {})
    \cup PlainAndUpdate([kPsq_l |-> 56], [kPsq_lu |-> 57],
              <<Off20, Aux("i17")>>, <<Packed("frd")>>, {"w"})

OffsetStoreRows ==
    PlainAndUpdate([kStw |-> 36], [kStwu |-> 37], <<rs_w>>, <<Off("kS4")>>, {})
    \cup PlainAndUpdate([kStb |-> 38], [kStbu |-> 39], <<rs_b>>, <<Off("kS1")>>, {})
    \cup PlainAndUpdate([kSth |-> 44], [kSthu |-> 45], <<rs_h>>, <<Off("kS2")>>, {})
    \cup Rows([kStmw |-> 47], <<Multi>>, <<Off("kS4")>>, {})
    \cup PlainAndUpdate([kStfs |-> 52], [kStfsu |-> 53], <<Single("frs")>>, <<Off("kSingle")>>, {})
    \cup PlainAndUpdate([kStfd |-> 54], [kStfdu |-> 55], <<Double("frs")>>, <<Off("kDouble")>>, {})
    \cup PlainAndUpdate([kPsq_st |-> 60], [kPsq_stu |-> 61],
              <<Packed("frs"), Aux("i17")>>, <<Off20>>, {"w"})

OffsetRows == OffsetLoadRows \cup OffsetStoreRows

PrimaryRows ==
    ImmediateRows \cup OffsetRows
    \cup Rows([kBc |-> 16], <<Cr("bi"), Aux("bo"), Special("bd")>>, <<>>, {"aa", "lk"})
    \cup Rows([kB |-> 18], <<Special("li")>>, <<>>, {"aa", "lk"})
    \cup Rows([kSc |-> 17], <<>>, <<>>, {})

Primary == Index(PrimaryRows)

-----------------------------------------------------------------------------
(* One word *)

\* The row of a word: the switch of disasm_single and those it calls.
RowOf(w) ==
    CASE w.opcd = 4 -> Find(Op4, w.ext)
      [] w.opcd = 19 -> Find(Op19, w.ext)
      [] w.opcd = 31 -> IF w.ext \in DOMAIN Op31 THEN Op31[w.ext]
                        ELSE FindFlagged(Op31Arith, w.ext % 512, {"rc", "oe"})
      [] w.opcd = 59 -> FindFlagged(Op59, w.ext % 32, {"rc_fp"})
      [] w.opcd = 63 -> IF w.ext \in DOMAIN Op63 THEN Op63[w.ext]
                        ELSE FindFlagged(Op63Arith, w.ext % 32, {"rc_fp"})
      [] OTHER -> Find(Primary, w.opcd)

\* The slip that looks at the next bit of bo.
CounterWriteNextBit(w, op) ==
    IF op \in {"kBc", "kBclr"} /\ (w.d \div 2) % 2 = 0
    THEN <<Source(w, Spr("kCtr"))>> ELSE <<>>

\* bclr and bc count unless bo says not to; bcctr never does.
CounterWrite(w, op) ==
    IF op \in {"kBc", "kBclr"} /\ (w.d \div 4) % 2 = 0
    THEN <<Source(w, Spr("kCtr"))>> ELSE <<>>

\* The FPSCR bits pushed after the last case, which switches 4, 59 and 63 look up
\* by the function code whatever they found.
FpscrBits(w) ==
    CASE w.opcd = 4 -> PsBits(w.ext)
      [] w.opcd = 59 -> FsBits(w.ext % 32)
      [] w.opcd = 63 -> FdBits(IF w.ext \in DOMAIN Op63 THEN w.ext ELSE w.ext % 32)
      [] OTHER -> {}

\* The slip that pushes the operands from the last to the first.
PushedBackwards(w, accessors) ==
    [i \in DOMAIN accessors |-> Source(w, accessors[Len(accessors) + 1 - i])]

Pushed(w, accessors) == [i \in DOMAIN accessors |-> Source(w, accessors[i])]

\* disasm_single
Disasm(va, w) ==
    LET row == RowOf(w)
    IN  [word |-> w, va |-> va, op |-> row.op, reads |-> Pushed(w, row.reads),
         writes |-> Pushed(w, row.writes) \o CounterWrite(w, row.op)
                        \o FpscrWrite(FpscrBits(w)),
         flags |-> UNION {Flag(w, f) : f \in row.flags}]

\* bo_type_from_imm: bo, most significant bit first, is 0x..., x a bit.
BoBit(bo, mask) == (bo \div mask) % 2
BOType(bo) ==
    LET n0 == BoBit(bo, 16)  n1 == BoBit(bo, 8)  n2 == BoBit(bo, 4)  n3 == BoBit(bo, 2)
    IN  CASE n0 = 0 /\ n1 = 1 /\ n2 = 1 -> "kT"
          [] n0 = 0 /\ n1 = 0 /\ n2 = 1 -> "kF"
          [] n0 = 1 /\ n2 = 1 -> "kAlways"
          [] n0 = 1 /\ n2 = 0 /\ n3 = 0 -> "kDnz"
          [] n0 = 1 /\ n2 = 0 /\ n3 = 1 -> "kDz"
          [] n0 = 0 /\ n1 = 0 /\ n2 = 0 /\ n3 = 0 -> "kDnzf"
          [] n0 = 0 /\ n1 = 0 /\ n2 = 0 /\ n3 = 1 -> "kDzf"
          [] n0 = 0 /\ n1 = 1 /\ n2 = 0 /\ n3 = 0 -> "kDnzt"
          [] n0 = 0 /\ n1 = 1 /\ n2 = 0 /\ n3 = 1 -> "kDzt"
          [] OTHER -> "kInvalid"

\* MetaInst::is_blr
IsBlr(inst) ==
    inst.op = "kBclr" /\ inst.writes = <<>> /\ BOType(inst.word.d) = "kAlways"

\* MetaInst::branch_target, which takes every branch for a relative one. Addresses
\* are read as signed numbers; none of the sums formed here is beyond 32 bits.
BranchTarget(inst) ==
    CASE inst.op = "kB" -> inst.va + inst.reads[1].rel
      [] inst.op = "kBc" -> inst.va + inst.reads[3].rel
      [] OTHER -> 0
=============================================================================
