-------------------------- MODULE PpcDisasmProofs --------------------------
(***************************************************************************)
(* The tables of the decoder, read row by row: a row of each has one of a  *)
(* few shapes, its operations with their codes, what they read, write and  *)
(* flag. The proofs about the printer and about the passes start from what *)
(* is proved here of every word.                                           *)
(***************************************************************************)
EXTENDS PpcDisasm, FiniteSetTheorems, SequenceTheorems, TLAPS

-----------------------------------------------------------------------------
(* The tables of the decoder *)

\* r is the row of one of the operations of codes.
Codes(r, codes) == r.op \in DOMAIN codes /\ r.code = codes[r.op]

Lists(r, reads, writes) == r.reads = reads /\ r.writes = writes

Has(r, codes, reads, writes, flags) ==
    Codes(r, codes) /\ Lists(r, reads, writes) /\ r.flags = flags

WithFlags(r, flags) == [r EXCEPT !.flags = flags]

\* The row of a word that no case of the switches is for.
NoRow(row) == row.op = "kInvalid" /\ row.reads = <<>> /\ row.writes = <<>>

LEMMA RowsRow ==
    ASSUME NEW codes, NEW reads, NEW writes, NEW flags,
           NEW r \in Rows(codes, reads, writes, flags)
    PROVE  Has(r, codes, reads, writes, flags)
BY DEF Rows, Has, Codes, Lists

LEMMA FlaggedRowsRow ==
    ASSUME NEW codes, NEW reads, NEW writes, NEW old, NEW flags,
           NEW r \in Rows(codes, reads, writes, old)
    PROVE  Has(WithFlags(r, flags), codes, reads, writes, flags)
BY DEF Rows, WithFlags, Has, Codes, Lists

LEMMA Appended ==
    ASSUME NEW x, NEW y
    PROVE  Append(<<x>>, y) = <<x, y>>
<1> DEFINE s == Append(<<x>>, y)
<1>1. <<x>> \in Seq({x, y}) /\ y \in {x, y}
    OBVIOUS
<1>2. /\ s \in Seq({x, y}) /\ Len(s) = 2 /\ s[1] = x /\ s[2] = y
    BY <1>1
<1>3. s = [i \in 1 .. 2 |-> s[i]]
    BY <1>2
<1> HIDE DEF s
<1>4. s = <<x, y>>
    BY <1>2, <1>3
<1> QED
    BY <1>4 DEF s

LEMMA PlainAndUpdateRow ==
    ASSUME NEW plain, NEW update, NEW reads, NEW write, NEW flags,
           NEW r \in PlainAndUpdate(plain, update, reads, <<write>>, flags)
    PROVE  \/ Has(r, plain, reads, <<write>>, flags)
           \/ Has(r, update, reads, <<write, ra_w>>, flags)
BY RowsRow, Appended DEF PlainAndUpdate

\* What a table holds at a code.
LEMMA FindRow ==
    ASSUME NEW rows, NEW code
    PROVE  LET row == Find(Index(rows), code)
           IN  \/ row = Invalid /\ code \notin {r.code : r \in rows}
               \/ row \in rows /\ row.code = code
<1>1. CASE code \in {r.code : r \in rows}
    <2>1. PICK r \in rows : r.code = code
        BY <1>1
    <2>2. Index(rows)[code] \in rows /\ Index(rows)[code].code = code
        BY <1>1, <2>1 DEF Index
    <2> QED
        BY <1>1, <2>2 DEF Find, Index
<1>2. CASE code \notin {r.code : r \in rows}
    BY <1>2 DEF Find, Index
<1> QED
    BY <1>1, <1>2

Op4Shape(r) ==
    \/ Has(r, [kPs_neg |-> 40, kPs_mr |-> 72, kPs_nabs |-> 136, kPs_abs |-> 264],
           <<Packed("frb")>>, <<Packed("frd")>>, {"rc_fp"})
    \/ Has(r, [kPs_cmpu0 |-> 0, kPs_cmpo0 |-> 32, kPs_cmpu1 |-> 64,
           kPs_cmpo1 |-> 96], <<Packed("fra"), Packed("frb")>>, <<Cr("crfd")>>, {})
    \/ Has(r, [kPs_merge00 |-> 528, kPs_merge01 |-> 560, kPs_merge10 |-> 592,
           kPs_merge11 |-> 624], <<Packed("fra"), Packed("frb")>>, <<Packed("frd")>>,
           {"rc_fp"})
    \/ Has(r, [kDcbz_l |-> 1014], <<>>, <<Idx("kS4")>>, {})
    \/ Has(r, LaterCodes, <<>>, <<>>, {})

LEMMA Op4Row == \A r \in Op4Rows : Op4Shape(r)
BY RowsRow DEF Op4Rows, Op4Shape

Op19Shape(r) ==
    \/ Has(r, [kMcrf |-> 0], <<Cr("crfd")>>, <<Cr("crfd")>>, {})
    \/ Has(r, [kBclr |-> 16], <<Cr("bi"), Spr("kLr"), Aux("bo")>>, <<>>, {"lk"})
    \/ Has(r, [kBcctr |-> 528], <<Cr("bi"), Spr("kCtr"), Aux("bo")>>, <<>>, {"lk"})
    \/ Has(r, [kCrnor |-> 33, kCrandc |-> 129, kCrxor |-> 193, kCrnand |-> 225,
           kCrand |-> 257, kCrorc |-> 417, kCror |-> 449], <<Cr("crba"), Cr("crbb")>>,
           <<Cr("crbd")>>, {})
    \/ Has(r, [kRfi |-> 50, kIsync |-> 150], <<>>, <<>>, {})

LEMMA Op19Row == \A r \in Op19Rows : Op19Shape(r)
BY RowsRow DEF Op19Rows, Op19Shape

MoveShape(r) ==
    \/ Has(r, [kMfcr |-> 19, kMfmsr |-> 83], <<>>, <<rd_w>>, {})
    \/ Has(r, [kMtcrf |-> 144], <<rs_w, Aux("crm")>>, <<>>, {})
    \/ Has(r, [kMtmsr |-> 146], <<rs_w>>, <<>>, {})
    \/ Has(r, [kMtsr |-> 210], <<rs_w, Aux("sr")>>, <<>>, {})
    \/ Has(r, [kMtsrin |-> 242], <<rs_w, rb_w>>, <<>>, {})
    \/ Has(r, [kMfsr |-> 595], <<Aux("sr")>>, <<rd_w>>, {})
    \/ Has(r, [kMfsrin |-> 659], <<rb_w>>, <<rd_w>>, {})
    \/ Has(r, [kMfspr |-> 339], <<Special("spr")>>, <<rd_w>>, {})
    \/ Has(r, [kMtspr |-> 467], <<rs_w>>, <<Special("spr")>>, {})
    \/ Has(r, [kMftb |-> 371], <<Special("tbr")>>, <<rd_w>>, {})
    \/ Has(r, [kMcrxr |-> 512], <<Spr("kXer")>>, <<Cr("crfd"), Spr("kXer")>>, {})
    \/ Has(r, [kTlbie |-> 306], <<rb_w>>, <<>>, {})
    \/ Has(r, [kTlbsync |-> 566, kSync |-> 598, kEieio |-> 854], <<>>, <<>>, {})

LEMMA MoveRow == \A r \in MoveRows : MoveShape(r)
BY RowsRow DEF MoveRows, MoveShape

BitShape(r) ==
    \/ Has(r, [kSlw |-> 24, kAnd |-> 28, kAndc |-> 60, kNor |-> 124, kEqv |-> 284,
           kXor |-> 316, kOrc |-> 412, kOr |-> 444, kNand |-> 476, kSrw |-> 536], <<rs_w,
           rb_w>>, <<ra_w>>, {"rc"})
    \/ Has(r, [kSraw |-> 792], <<rs_w, rb_w>>, <<ra_w, Spr("kXer")>>, {"rc"})
    \/ Has(r, [kSrawi |-> 824], <<rs_w, Aux("sh")>>, <<ra_w, Spr("kXer")>>, {"rc"})
    \/ Has(r, [kCntlzw |-> 26], <<rs_w>>, <<ra_w>>, {"rc"})
    \/ Has(r, [kExtsh |-> 922], <<rs_h>>, <<ra_w>>, {"rc"})
    \/ Has(r, [kExtsb |-> 954], <<rs_b>>, <<ra_w>>, {"rc"})
    \/ Has(r, [kCmp |-> 0, kCmpl |-> 32], <<ra_w, rb_w, Spr("kXer")>>,
           <<Cr("crfd")>>, {"l"})
    \/ Has(r, [kTw |-> 4], <<ra_w, rb_w, Aux("to")>>, <<>>, {})
    \/ Has(r, [kMulhwu |-> 11, kMulhw |-> 75], <<ra_w, rb_w>>, <<rd_w>>, {"rc"})

LEMMA BitRow == \A r \in BitRows : BitShape(r)
BY RowsRow DEF BitRows, BitShape

IndexedLoadShape(r) ==
    \/ Has(r, [kLwarx |-> 20, kLwzx |-> 23, kLswx |-> 533, kLwbrx |-> 534],
           <<Idx("kS4")>>, <<rd_w>>, {})
    \/ Has(r, [kLbzx |-> 87], <<Idx("kS1")>>, <<rd_b>>, {})
    \/ Has(r, [kLbzux |-> 119], <<Idx("kS1")>>, <<rd_b, ra_w>>, {})
    \/ Has(r, [kLhzx |-> 279, kLhax |-> 343, kLhbrx |-> 790], <<Idx("kS2")>>,
           <<rd_h>>, {})
    \/ Has(r, [kLhzux |-> 311, kLhaux |-> 375], <<Idx("kS2")>>, <<rd_h, ra_w>>, {})
    \/ Has(r, [kLfsx |-> 535], <<Idx("kSingle")>>, <<Single("frd")>>, {})
    \/ Has(r, [kLfsux |-> 567], <<Idx("kSingle")>>, <<Single("frd"), ra_w>>, {})
    \/ Has(r, [kLfdx |-> 599], <<Idx("kDouble")>>, <<Double("frd")>>, {})
    \/ Has(r, [kLfdux |-> 631], <<Idx("kDouble")>>, <<Double("frd"), ra_w>>, {})
    \/ Has(r, [kEciwx |-> 310], <<ra_w, rb_w>>, <<rd_w>>, {})
    \/ Has(r, [kLswi |-> 597], <<AtBase, Aux("nb")>>, <<rd_w>>, {})
    \/ Has(r, [kDcbt |-> 278], <<Idx("kS4")>>, <<>>, {})

LEMMA IndexedLoadRow == \A r \in IndexedLoadRows : IndexedLoadShape(r)
BY RowsRow, PlainAndUpdateRow DEF IndexedLoadRows, IndexedLoadShape

IndexedStoreShape(r) ==
    \/ Has(r, [kStwx |-> 151, kStwbrx |-> 662, kEcowx |-> 438], <<rs_w>>,
           <<Idx("kS4")>>, {})
    \/ Has(r, [kStwux |-> 183], <<rs_w>>, <<Idx("kS4"), ra_w>>, {})
    \/ Has(r, [kStbx |-> 215], <<rs_b>>, <<Idx("kS1")>>, {})
    \/ Has(r, [kStbux |-> 247], <<rs_b>>, <<Idx("kS1"), ra_w>>, {})
    \/ Has(r, [kSthx |-> 407, kSthbrx |-> 918], <<rs_h>>, <<Idx("kS2")>>, {})
    \/ Has(r, [kSthux |-> 439], <<rs_h>>, <<Idx("kS2"), ra_w>>, {})
    \/ Has(r, [kStfsx |-> 663], <<Single("frs")>>, <<Idx("kSingle")>>, {})
    \/ Has(r, [kStfsux |-> 695], <<Single("frs")>>, <<Idx("kSingle"), ra_w>>, {})
    \/ Has(r, [kStfdx |-> 727], <<Double("frs")>>, <<Idx("kDouble")>>, {})
    \/ Has(r, [kStfdux |-> 759], <<Double("frs")>>, <<Idx("kDouble"), ra_w>>, {})
    \/ Has(r, [kStfiwx |-> 983], <<Single("frs")>>, <<Idx("kS4")>>, {})
    \/ Has(r, [kStswx |-> 661], <<rs_w, Spr("kXer")>>, <<Idx("kS4")>>, {})
    \/ Has(r, [kStwcxDot |-> 150], <<rs_w, Spr("kXer")>>, <<Idx("kS4")>>, {"record"})
    \/ Has(r, [kStswi |-> 725], <<rs_w, Aux("nb")>>, <<AtBase>>, {})
    \/ Has(r, [kDcbst |-> 54, kDcbf |-> 86, kDcbtst |-> 246, kDcbi |-> 470,
           kIcbi |-> 982, kDcbz |-> 1014], <<>>, <<Idx("kS4")>>, {})

LEMMA IndexedStoreRow == \A r \in IndexedStoreRows : IndexedStoreShape(r)
BY SMTT(30), RowsRow, PlainAndUpdateRow DEF IndexedStoreRows, IndexedStoreShape

Op31ArithShape(r) ==
    \/ Has(r, [kSubfc |-> 8, kAddc |-> 10], <<ra_w, rb_w>>, <<rd_w, Spr("kXer")>>,
           {"rc", "oe"})
    \/ Has(r, [kSubf |-> 40, kMullw |-> 235, kAdd |-> 266, kDivwu |-> 459,
           kDivw |-> 491], <<ra_w, rb_w>>, <<rd_w>>, {"rc", "oe"})
    \/ Has(r, [kNeg |-> 104], <<ra_w>>, <<rd_w>>, {"rc", "oe"})
    \/ Has(r, [kSubfe |-> 136, kAdde |-> 138], <<ra_w, rb_w, Spr("kXer")>>, <<rd_w,
           Spr("kXer")>>, {"rc", "oe"})
    \/ Has(r, [kSubfze |-> 200, kAddze |-> 202, kSubfme |-> 232, kAddme |-> 234],
           <<ra_w, Spr("kXer")>>, <<rd_w, Spr("kXer")>>, {"rc", "oe"})

LEMMA Op31ArithRow ==
    \A r \in Op31ArithRows : Op31ArithShape(WithFlags(r, {"rc", "oe"}))
BY FlaggedRowsRow DEF Op31ArithRows, Op31ArithShape

Op59Shape(r) ==
    \/ Has(r, [kFdivs |-> 18, kFsubs |-> 20, kFadds |-> 21], <<Single("fra"),
           Single("frb")>>, <<Single("frd")>>, {"rc_fp"})
    \/ Has(r, [kFres |-> 24], <<Single("frb")>>, <<Single("frd")>>, {"rc_fp"})
    \/ Has(r, [kFmuls |-> 25], <<Single("fra"), Single("frc")>>, <<Single("frd")>>,
           {"rc_fp"})
    \/ Has(r, [kFmsubs |-> 28, kFmadds |-> 29, kFnmsubs |-> 30, kFnmadds |-> 31],
           <<Single("fra"), Single("frb"), Single("frc")>>, <<Single("frd")>>, {"rc_fp"})

LEMMA Op59Row ==
    \A r \in Op59Rows : Op59Shape(WithFlags(r, {"rc_fp"}))
BY FlaggedRowsRow DEF Op59Rows, Op59Shape

Op63Shape(r) ==
    \/ Has(r, [kFcmpu |-> 0, kFcmpo |-> 32], <<Either("fra"), Either("frb")>>,
           <<Cr("crfd")>>, {})
    \/ Has(r, [kFrsp |-> 12], <<Double("frb")>>, <<Single("frd")>>, {"rc_fp"})
    \/ Has(r, [kFctiw |-> 14, kFctiwz |-> 15], <<Either("frb")>>, <<Single("frd")>>,
           {"rc_fp"})
    \/ Has(r, [kFneg |-> 40, kFmr |-> 72, kFnabs |-> 136, kFabs |-> 264],
           <<Either("frb")>>, <<Either("frd")>>, {"rc_fp"})
    \/ Has(r, [kMtfsb1 |-> 38], <<>>, <<Mask("fpscrbd_fx")>>, {"rc_fp"})
    \/ Has(r, [kMtfsb0 |-> 70], <<>>, <<Mask("fpscrbd")>>, {"rc_fp"})
    \/ Has(r, [kMcrfs |-> 64], <<Mask("fpscrfs")>>, <<Cr("crfd"),
           Mask("fpscrfs_ex")>>, {})
    \/ Has(r, [kMtfsfi |-> 134], <<Aux("imm")>>, <<Mask("fpscrfd")>>, {"rc_fp"})
    \/ Has(r, [kMffs |-> 583], <<Mask("all")>>, <<Single("frd")>>, {"rc_fp"})
    \/ Has(r, [kMtfsf |-> 711], <<Single("frb")>>, <<Mask("fm")>>, {"rc_fp"})

LEMMA Op63Row == \A r \in Op63Rows : Op63Shape(r)
BY RowsRow DEF Op63Rows, Op63Shape

Op63ArithShape(r) ==
    \/ Has(r, [kFdiv |-> 18, kFsub |-> 20, kFadd |-> 21], <<Double("fra"),
           Double("frb")>>, <<Double("frd")>>, {"rc_fp"})
    \/ Has(r, [kFsel |-> 23], <<Either("fra"), Either("frb"), Either("frc")>>,
           <<Either("frd")>>, {"rc_fp"})
    \/ Has(r, [kFmul |-> 25], <<Double("fra"), Double("frc")>>, <<Double("frd")>>,
           {"rc_fp"})
    \/ Has(r, [kFrsqrte |-> 26], <<Single("frb")>>, <<Single("frd")>>, {"rc_fp"})
    \/ Has(r, [kFmsub |-> 28, kFmadd |-> 29, kFnmsub |-> 30, kFnmadd |-> 31],
           <<Double("fra"), Double("frb"), Double("frc")>>, <<Double("frd")>>, {"rc_fp"})

LEMMA Op63ArithRow ==
    \A r \in Op63ArithRows : Op63ArithShape(WithFlags(r, {"rc_fp"}))
BY FlaggedRowsRow DEF Op63ArithRows, Op63ArithShape

ImmediateShape(r) ==
    \/ Has(r, [kTwi |-> 3], <<Aux("to"), ra_w, Special("simm")>>, <<>>, {})
    \/ Has(r, [kMulli |-> 7], <<ra_w, Special("simm")>>, <<rd_w>>, {})
    \/ Has(r, [kSubfic |-> 8, kAddic |-> 12], <<ra_w, Special("simm")>>, <<rd_w,
           Spr("kXer")>>, {})
    \/ Has(r, [kAddicDot |-> 13], <<ra_w, Special("simm")>>, <<rd_w, Spr("kXer")>>,
           {"record"})
    \/ Has(r, [kAddi |-> 14, kAddis |-> 15], <<ra_or_zero, Special("simm")>>,
           <<rd_w>>, {})
    \/ Has(r, [kCmpli |-> 10], <<ra_w, Special("uimm"), Spr("kXer")>>,
           <<Cr("crfd")>>, {"l"})
    \/ Has(r, [kCmpi |-> 11], <<ra_w, Special("simm"), Spr("kXer")>>, <<Cr("crfd")>>,
           {"l"})
    \/ Has(r, [kRlwimi |-> 20, kRlwinm |-> 21], <<rs_w, Aux("sh"), Aux("mb"),
           Aux("me")>>, <<ra_w>>, {"rc"})
    \/ Has(r, [kRlwnm |-> 23], <<rs_w, rb_w, Aux("mb"), Aux("me")>>, <<ra_w>>,
           {"rc"})
    \/ Has(r, [kOri |-> 24, kOris |-> 25, kXori |-> 26, kXoris |-> 27], <<rs_w,
           Special("uimm")>>, <<ra_w>>, {})
    \/ Has(r, [kAndiDot |-> 28, kAndisDot |-> 29], <<rs_w, Special("uimm")>>,
           <<ra_w>>, {"record"})

LEMMA ImmediateRow == \A r \in ImmediateRows : ImmediateShape(r)
BY RowsRow DEF ImmediateRows, ImmediateShape

OffsetLoadShape(r) ==
    \/ Has(r, [kLwz |-> 32], <<Off("kS4")>>, <<rd_w>>, {})
    \/ Has(r, [kLwzu |-> 33], <<Off("kS4")>>, <<rd_w, ra_w>>, {})
    \/ Has(r, [kLbz |-> 34], <<Off("kS1")>>, <<rd_b>>, {})
    \/ Has(r, [kLbzu |-> 35], <<Off("kS1")>>, <<rd_b, ra_w>>, {})
    \/ Has(r, [kLhz |-> 40, kLha |-> 42], <<Off("kS2")>>, <<rd_h>>, {})
    \/ Has(r, [kLhzu |-> 41, kLhau |-> 43], <<Off("kS2")>>, <<rd_h, ra_w>>, {})
    \/ Has(r, [kLmw |-> 46], <<Off("kS4")>>, <<Multi>>, {})
    \/ Has(r, [kLfs |-> 48], <<Off("kSingle")>>, <<Single("frd")>>, {})
    \/ Has(r, [kLfsu |-> 49], <<Off("kSingle")>>, <<Single("frd"), ra_w>>, {})
    \/ Has(r, [kLfd |-> 50], <<Off("kDouble")>>, <<Double("frd")>>, {})
    \/ Has(r, [kLfdu |-> 51], <<Off("kDouble")>>, <<Double("frd"), ra_w>>, {})
    \/ Has(r, [kPsq_l |-> 56], <<Off20, Aux("i17")>>, <<Packed("frd")>>, {"w"})
    \/ Has(r, [kPsq_lu |-> 57], <<Off20, Aux("i17")>>, <<Packed("frd"), ra_w>>,
           {"w"})

LEMMA OffsetLoadRow == \A r \in OffsetLoadRows : OffsetLoadShape(r)
BY RowsRow, PlainAndUpdateRow DEF OffsetLoadRows, OffsetLoadShape

OffsetStoreShape(r) ==
    \/ Has(r, [kStw |-> 36], <<rs_w>>, <<Off("kS4")>>, {})
    \/ Has(r, [kStwu |-> 37], <<rs_w>>, <<Off("kS4"), ra_w>>, {})
    \/ Has(r, [kStb |-> 38], <<rs_b>>, <<Off("kS1")>>, {})
    \/ Has(r, [kStbu |-> 39], <<rs_b>>, <<Off("kS1"), ra_w>>, {})
    \/ Has(r, [kSth |-> 44], <<rs_h>>, <<Off("kS2")>>, {})
    \/ Has(r, [kSthu |-> 45], <<rs_h>>, <<Off("kS2"), ra_w>>, {})
    \/ Has(r, [kStmw |-> 47], <<Multi>>, <<Off("kS4")>>, {})
    \/ Has(r, [kStfs |-> 52], <<Single("frs")>>, <<Off("kSingle")>>, {})
    \/ Has(r, [kStfsu |-> 53], <<Single("frs")>>, <<Off("kSingle"), ra_w>>, {})
    \/ Has(r, [kStfd |-> 54], <<Double("frs")>>, <<Off("kDouble")>>, {})
    \/ Has(r, [kStfdu |-> 55], <<Double("frs")>>, <<Off("kDouble"), ra_w>>, {})
    \/ Has(r, [kPsq_st |-> 60], <<Packed("frs"), Aux("i17")>>, <<Off20>>, {"w"})
    \/ Has(r, [kPsq_stu |-> 61], <<Packed("frs"), Aux("i17")>>, <<Off20, ra_w>>,
           {"w"})

LEMMA OffsetStoreRow == \A r \in OffsetStoreRows : OffsetStoreShape(r)
BY RowsRow, PlainAndUpdateRow DEF OffsetStoreRows, OffsetStoreShape

BranchShape(r) ==
    \/ Has(r, [kBc |-> 16], <<Cr("bi"), Aux("bo"), Special("bd")>>, <<>>, {"aa",
           "lk"})
    \/ Has(r, [kB |-> 18], <<Special("li")>>, <<>>, {"aa", "lk"})
    \/ Has(r, [kSc |-> 17], <<>>, <<>>, {})

LEMMA BranchRow ==
    \A r \in PrimaryRows : r \in ImmediateRows \cup OffsetRows \/ BranchShape(r)
BY RowsRow DEF PrimaryRows, BranchShape

Op31Shape(r) == MoveShape(r) \/ BitShape(r) \/ IndexedLoadShape(r) \/ IndexedStoreShape(r)

PrimaryShape(r) ==
    ImmediateShape(r) \/ OffsetLoadShape(r) \/ OffsetStoreShape(r) \/ BranchShape(r)

\* The row of a word.
ShapeOf(w, row) ==
    \/ NoRow(row)
    \/ w.opcd = 4 /\ Op4Shape(row) /\ row.code = w.ext /\ row \in Op4Rows
    \/ w.opcd = 19 /\ Op19Shape(row) /\ row.code = w.ext
    \/ w.opcd = 31 /\ Op31Shape(row) /\ row.code = w.ext
    \/ w.opcd = 31 /\ Op31ArithShape(row)
    \/ w.opcd = 59 /\ Op59Shape(row)
    \/ w.opcd = 63 /\ Op63Shape(row) /\ row.code = w.ext /\ w.ext \in DOMAIN Op63
    \/ w.opcd = 63 /\ Op63ArithShape(row)
    \/ w.opcd \notin {4, 19, 31, 59, 63} /\ PrimaryShape(row) /\ row.code = w.opcd

LEMMA RowOfShape ==
    ASSUME NEW w \in Word
    PROVE  ShapeOf(w, RowOf(w))
<1>1. CASE w.opcd = 4
    <2>1. RowOf(w) = Find(Index(Op4Rows), w.ext)
        BY <1>1 DEF RowOf, Op4
    <2> QED
        BY <1>1, <2>1, FindRow, Op4Row DEF ShapeOf, NoRow, Invalid
<1>2. CASE w.opcd = 19
    <2>1. RowOf(w) = Find(Index(Op19Rows), w.ext)
        BY <1>2 DEF RowOf, Op19
    <2> QED
        BY <1>2, <2>1, FindRow, Op19Row DEF ShapeOf, NoRow, Invalid
<1>3. CASE w.opcd = 31 /\ w.ext \in DOMAIN Op31
    <2>1. RowOf(w) = Find(Index(Op31Rows), w.ext) /\ w.ext \in {r.code : r \in Op31Rows}
        BY <1>3 DEF RowOf, Find, Op31, Index
    <2>2. RowOf(w) \in Op31Rows /\ RowOf(w).code = w.ext
        BY <2>1, FindRow
    <2>3. Op31Shape(RowOf(w))
        BY <2>2, MoveRow, BitRow, IndexedLoadRow, IndexedStoreRow
        DEF Op31Rows, IndexedRows, Op31Shape
    <2> QED
        BY <1>3, <2>2, <2>3 DEF ShapeOf
<1>4. CASE w.opcd = 31 /\ w.ext \notin DOMAIN Op31
    <2>1. RowOf(w) = WithFlags(Find(Index(Op31ArithRows), w.ext % 512), {"rc", "oe"})
        BY <1>4 DEF RowOf, Op31Arith, FindFlagged, WithFlags
    <2>2. NoRow(WithFlags(Invalid, {"rc", "oe"}))
        BY DEF NoRow, Invalid, WithFlags
    <2> QED
        BY <1>4, <2>1, <2>2, FindRow, Op31ArithRow DEF ShapeOf
<1>5. CASE w.opcd = 59
    <2>1. RowOf(w) = WithFlags(Find(Index(Op59Rows), w.ext % 32), {"rc_fp"})
        BY <1>5 DEF RowOf, Op59, FindFlagged, WithFlags
    <2>2. NoRow(WithFlags(Invalid, {"rc_fp"}))
        BY DEF NoRow, Invalid, WithFlags
    <2> QED
        BY <1>5, <2>1, <2>2, FindRow, Op59Row DEF ShapeOf
<1>6. CASE w.opcd = 63 /\ w.ext \in DOMAIN Op63
    <2>1. RowOf(w) = Find(Index(Op63Rows), w.ext) /\ w.ext \in {r.code : r \in Op63Rows}
        BY <1>6 DEF RowOf, Find, Op63, Index
    <2>2. RowOf(w) \in Op63Rows /\ RowOf(w).code = w.ext
        BY <2>1, FindRow
    <2> QED
        BY <1>6, <2>2, Op63Row DEF ShapeOf
<1>7. CASE w.opcd = 63 /\ w.ext \notin DOMAIN Op63
    <2>1. RowOf(w) = WithFlags(Find(Index(Op63ArithRows), w.ext % 32), {"rc_fp"})
        BY <1>7 DEF RowOf, Op63Arith, FindFlagged, WithFlags
    <2>2. NoRow(WithFlags(Invalid, {"rc_fp"}))
        BY DEF NoRow, Invalid, WithFlags
    <2> QED
        BY <1>7, <2>1, <2>2, FindRow, Op63ArithRow DEF ShapeOf
<1>8. CASE w.opcd \notin {4, 19, 31, 59, 63}
    <2>1. RowOf(w) = Find(Index(PrimaryRows), w.opcd)
        BY <1>8 DEF RowOf, Primary
    <2>2. \A r \in PrimaryRows : PrimaryShape(r)
        BY ImmediateRow, OffsetLoadRow, OffsetStoreRow, BranchRow DEF OffsetRows, PrimaryShape
    <2> QED
        BY <1>8, <2>1, <2>2, FindRow DEF ShapeOf, NoRow, Invalid
<1> QED
    BY <1>1, <1>2, <1>3, <1>4, <1>5, <1>6, <1>7, <1>8

\* A row of any table.
AnyShape(r) ==
    \/ Op4Shape(r) \/ Op19Shape(r) \/ MoveShape(r) \/ BitShape(r) \/ IndexedLoadShape(r)
    \/ IndexedStoreShape(r) \/ Op31ArithShape(r) \/ Op59Shape(r) \/ Op63Shape(r)
    \/ Op63ArithShape(r) \/ ImmediateShape(r) \/ OffsetLoadShape(r) \/ OffsetStoreShape(r)
    \/ BranchShape(r)

LEMMA RowOfAnyShape == \A w \in Word : NoRow(RowOf(w)) \/ AnyShape(RowOf(w))
BY RowOfShape DEF ShapeOf, AnyShape, Op31Shape, PrimaryShape

-----------------------------------------------------------------------------
(* The lists of an instruction *)

\* Accessors of anything but a register or a memory operand with a base alone.
NoBase(x) ==
    \/ x[1] \in FprFields \cup {"index", "multi", "fixed"}
       /\ x[2] \in {"kS1", "kS2", "kS4", "kPackedSingle", "kSingle", "kDouble",
                   "kSingleOrDouble", "kXer", "kLr", "kCtr"}
    \/ x[2] = "cr" /\ x[1] \in {"bi", "crba", "crbb", "crbd", "crfd"}
    \/ x[2] = "mask" /\ x[1] \in {"fm", "fpscrbd", "fpscrbd_fx", "fpscrfd", "fpscrfs",
                                  "fpscrfs_ex", "all"}
    \/ x[2] = "aux" /\ x[1] \in {"bo", "to", "i17", "imm", "mb", "me", "nb", "sh", "sr", "crm"}
    \/ x[2] = "special" /\ x[1] \in {"spr", "tbr", "simm", "uimm", "bd", "li"}

\* The accessors past the first m have no base.
BasesWithin(accessors, m) ==
    \A k \in DOMAIN accessors : k > m => NoBase(accessors[k])

\* What the reserved vectors have to hold for a row.
Roomy(r) ==
    /\ \E n \in 0 .. 4 : DOMAIN r.reads = 1 .. n
    /\ \E n \in 0 .. 2 : DOMAIN r.writes = 1 .. n
    /\ \/ BasesWithin(r.reads, 2) /\ BasesWithin(r.writes, 1)
       \/ BasesWithin(r.reads, 1) /\ BasesWithin(r.writes, 2)

LEMMA Op4Roomy == \A r : Op4Shape(r) => Roomy(r)
<1> SUFFICES ASSUME NEW r, Op4Shape(r)
             PROVE  Roomy(r)
    OBVIOUS
<1>1. /\ \E n \in 0 .. 4 : DOMAIN r.reads = 1 .. n
      /\ \E n \in 0 .. 2 : DOMAIN r.writes = 1 .. n
    BY DEF Op4Shape, Has, Lists
<1>2. BasesWithin(r.reads, 1)
    BY DEF Op4Shape, Has, Lists, BasesWithin, NoBase, Idx, Cr, Packed, FprFields
<1>3. BasesWithin(r.writes, 2)
    BY DEF Op4Shape, Has, Lists, BasesWithin, NoBase, Idx, Cr, Packed, FprFields
<1> QED
    BY <1>1, <1>2, <1>3 DEF Roomy

LEMMA Op19Roomy == \A r : Op19Shape(r) => Roomy(r)
<1> SUFFICES ASSUME NEW r, Op19Shape(r)
             PROVE  Roomy(r)
    OBVIOUS
<1>1. /\ \E n \in 0 .. 4 : DOMAIN r.reads = 1 .. n
      /\ \E n \in 0 .. 2 : DOMAIN r.writes = 1 .. n
    BY DEF Op19Shape, Has, Lists
<1>2. BasesWithin(r.reads, 2)
    BY DEF Op19Shape, Has, Lists, BasesWithin, NoBase, Aux, Spr, Cr
<1>3. BasesWithin(r.writes, 1)
    BY DEF Op19Shape, Has, Lists, BasesWithin, NoBase, Aux, Spr, Cr
<1> QED
    BY <1>1, <1>2, <1>3 DEF Roomy

LEMMA MoveRoomy == \A r : MoveShape(r) => Roomy(r)
<1> SUFFICES ASSUME NEW r, MoveShape(r)
             PROVE  Roomy(r)
    OBVIOUS
<1>1. /\ \E n \in 0 .. 4 : DOMAIN r.reads = 1 .. n
      /\ \E n \in 0 .. 2 : DOMAIN r.writes = 1 .. n
    BY DEF MoveShape, Has, Lists
<1>2. BasesWithin(r.reads, 2)
    BY DEF MoveShape, Has, Lists, BasesWithin, NoBase, rb_w, rd_w, rs_w, Aux,
        Spr, Cr, Special
<1>3. BasesWithin(r.writes, 1)
    BY DEF MoveShape, Has, Lists, BasesWithin, NoBase, rb_w, rd_w, rs_w, Aux,
        Spr, Cr, Special
<1> QED
    BY <1>1, <1>2, <1>3 DEF Roomy

LEMMA BitRoomy == \A r : BitShape(r) => Roomy(r)
<1> SUFFICES ASSUME NEW r, BitShape(r)
             PROVE  Roomy(r)
    OBVIOUS
<1>1. /\ \E n \in 0 .. 4 : DOMAIN r.reads = 1 .. n
      /\ \E n \in 0 .. 2 : DOMAIN r.writes = 1 .. n
    BY SMTT(30) DEF BitShape, Has, Lists
<1>2. BasesWithin(r.reads, 2)
    BY SMTT(30) DEF BitShape, Has, Lists, BasesWithin, NoBase, Aux, Spr
<1>3. BasesWithin(r.writes, 1)
    BY SMTT(30) DEF BitShape, Has, Lists, BasesWithin, NoBase, Spr
<1> QED
    BY <1>1, <1>2, <1>3 DEF Roomy

\* A row that reads one operand has at most one base among its reads.
LEMMA OneRead ==
    \A r, codes, x, writes, flags :
        Has(r, codes, <<x>>, writes, flags) => BasesWithin(r.reads, 1)
BY DEF Has, Lists, BasesWithin

LEMMA IndexedLoadRoomy == \A r : IndexedLoadShape(r) => Roomy(r)
<1> SUFFICES ASSUME NEW r, IndexedLoadShape(r)
             PROVE  Roomy(r)
    OBVIOUS
<1>1. /\ \E n \in 0 .. 4 : DOMAIN r.reads = 1 .. n
      /\ \E n \in 0 .. 2 : DOMAIN r.writes = 1 .. n
    BY SMTT(30) DEF IndexedLoadShape, Has, Lists
<1>2. \/ BasesWithin(r.reads, 2) /\ BasesWithin(r.writes, 1)
      \/ BasesWithin(r.reads, 1) /\ BasesWithin(r.writes, 2)
    <2>1. \/ BasesWithin(r.reads, 1)
          \/ Has(r, [kEciwx |-> 310], <<ra_w, rb_w>>, <<rd_w>>, {})
          \/ Has(r, [kLswi |-> 597], <<AtBase, Aux("nb")>>, <<rd_w>>, {})
        BY SMTT(30), OneRead DEF IndexedLoadShape
    <2>2. BasesWithin(r.writes, 2)
        BY ONLY SMTT(30), <1>1 DEF BasesWithin
    <2>3. CASE Has(r, [kEciwx |-> 310], <<ra_w, rb_w>>, <<rd_w>>, {})
        BY ONLY SMTT(30), <2>3 DEF Has, Lists, BasesWithin
    <2>4. CASE Has(r, [kLswi |-> 597], <<AtBase, Aux("nb")>>, <<rd_w>>, {})
        <3>1. BasesWithin(r.reads, 1)
            BY ONLY SMTT(30), <2>4 DEF Has, Lists, BasesWithin, NoBase, Aux
        <3> QED
            BY ONLY <3>1, <2>2
    <2> QED
        BY ONLY <2>1, <2>2, <2>3, <2>4
<1> QED
    BY <1>1, <1>2 DEF Roomy

LEMMA IndexedStoreRoomy == \A r : IndexedStoreShape(r) => Roomy(r)
<1> SUFFICES ASSUME NEW r, IndexedStoreShape(r)
             PROVE  Roomy(r)
    OBVIOUS
<1>1. /\ \E n \in 0 .. 4 : DOMAIN r.reads = 1 .. n
      /\ \E n \in 0 .. 2 : DOMAIN r.writes = 1 .. n
    BY SMTT(30) DEF IndexedStoreShape, Has, Lists
<1>2. BasesWithin(r.reads, 1)
    BY SMTT(30) DEF IndexedStoreShape, Has, Lists, BasesWithin, NoBase, ra_w, rs_w, rs_h,
        rs_b, AtBase, Idx, Aux, Spr, Single, Double, FprFields
<1>3. BasesWithin(r.writes, 2)
    BY SMTT(30) DEF IndexedStoreShape, Has, Lists, BasesWithin, NoBase, ra_w, rs_w, rs_h,
        rs_b, AtBase, Idx, Aux, Spr, Single, Double, FprFields
<1> QED
    BY <1>1, <1>2, <1>3 DEF Roomy

LEMMA Op31ArithRoomy == \A r : Op31ArithShape(r) => Roomy(r)
<1> SUFFICES ASSUME NEW r, Op31ArithShape(r)
             PROVE  Roomy(r)
    OBVIOUS
<1>1. /\ \E n \in 0 .. 4 : DOMAIN r.reads = 1 .. n
      /\ \E n \in 0 .. 2 : DOMAIN r.writes = 1 .. n
    BY DEF Op31ArithShape, Has, Lists
<1>2. BasesWithin(r.reads, 2)
    BY DEF Op31ArithShape, Has, Lists, BasesWithin, NoBase, ra_w, rb_w, rd_w,
        Spr
<1>3. BasesWithin(r.writes, 1)
    BY DEF Op31ArithShape, Has, Lists, BasesWithin, NoBase, ra_w, rb_w, rd_w,
        Spr
<1> QED
    BY <1>1, <1>2, <1>3 DEF Roomy

LEMMA Op59Roomy == \A r : Op59Shape(r) => Roomy(r)
<1> SUFFICES ASSUME NEW r, Op59Shape(r)
             PROVE  Roomy(r)
    OBVIOUS
<1>1. /\ \E n \in 0 .. 4 : DOMAIN r.reads = 1 .. n
      /\ \E n \in 0 .. 2 : DOMAIN r.writes = 1 .. n
    BY DEF Op59Shape, Has, Lists
<1>2. BasesWithin(r.reads, 2)
    BY DEF Op59Shape, Has, Lists, BasesWithin, NoBase, Single, FprFields
<1>3. BasesWithin(r.writes, 1)
    BY DEF Op59Shape, Has, Lists, BasesWithin, NoBase, Single, FprFields
<1> QED
    BY <1>1, <1>2, <1>3 DEF Roomy

LEMMA Op63Roomy == \A r : Op63Shape(r) => Roomy(r)
<1> SUFFICES ASSUME NEW r, Op63Shape(r)
             PROVE  Roomy(r)
    OBVIOUS
<1>1. /\ \E n \in 0 .. 4 : DOMAIN r.reads = 1 .. n
      /\ \E n \in 0 .. 2 : DOMAIN r.writes = 1 .. n
    BY DEF Op63Shape, Has, Lists
<1>2. BasesWithin(r.reads, 2)
    BY DEF Op63Shape, Has, Lists, BasesWithin, NoBase, Aux, Cr, Mask, Single,
        Double, Either, FprFields
<1>3. BasesWithin(r.writes, 1)
    BY DEF Op63Shape, Has, Lists, BasesWithin, NoBase, Aux, Cr, Mask, Single,
        Double, Either, FprFields
<1> QED
    BY <1>1, <1>2, <1>3 DEF Roomy

LEMMA Op63ArithRoomy == \A r : Op63ArithShape(r) => Roomy(r)
<1> SUFFICES ASSUME NEW r, Op63ArithShape(r)
             PROVE  Roomy(r)
    OBVIOUS
<1>1. /\ \E n \in 0 .. 4 : DOMAIN r.reads = 1 .. n
      /\ \E n \in 0 .. 2 : DOMAIN r.writes = 1 .. n
    BY DEF Op63ArithShape, Has, Lists
<1>2. BasesWithin(r.reads, 2)
    BY DEF Op63ArithShape, Has, Lists, BasesWithin, NoBase, Single, Double,
        Either, FprFields
<1>3. BasesWithin(r.writes, 1)
    BY DEF Op63ArithShape, Has, Lists, BasesWithin, NoBase, Single, Double,
        Either, FprFields
<1> QED
    BY <1>1, <1>2, <1>3 DEF Roomy

LEMMA ImmediateRoomy == \A r : ImmediateShape(r) => Roomy(r)
<1> SUFFICES ASSUME NEW r, ImmediateShape(r)
             PROVE  Roomy(r)
    OBVIOUS
<1>1. /\ \E n \in 0 .. 4 : DOMAIN r.reads = 1 .. n
      /\ \E n \in 0 .. 2 : DOMAIN r.writes = 1 .. n
    BY SMTT(30) DEF ImmediateShape, Has, Lists
<1>2. BasesWithin(r.reads, 2)
    BY SMTT(30) DEF ImmediateShape, Has, Lists, BasesWithin, NoBase, ra_w, rb_w, rd_w,
        rs_w, ra_or_zero, Aux, Spr, Cr, Special
<1>3. BasesWithin(r.writes, 1)
    BY SMTT(30) DEF ImmediateShape, Has, Lists, BasesWithin, NoBase, ra_w, rb_w, rd_w,
        rs_w, ra_or_zero, Aux, Spr, Cr, Special
<1> QED
    BY <1>1, <1>2, <1>3 DEF Roomy

LEMMA OffsetLoadRoomy == \A r : OffsetLoadShape(r) => Roomy(r)
<1> SUFFICES ASSUME NEW r, OffsetLoadShape(r)
             PROVE  Roomy(r)
    OBVIOUS
<1>1. /\ \E n \in 0 .. 4 : DOMAIN r.reads = 1 .. n
      /\ \E n \in 0 .. 2 : DOMAIN r.writes = 1 .. n
    BY DEF OffsetLoadShape, Has, Lists
<1>2. BasesWithin(r.reads, 1)
    BY DEF OffsetLoadShape, Has, Lists, BasesWithin, NoBase, ra_w, rd_w, rd_h,
        rd_b, Off20, Off, Multi, Aux, Packed, Single, Double, FprFields
<1>3. BasesWithin(r.writes, 2)
    BY DEF OffsetLoadShape, Has, Lists, BasesWithin, NoBase, ra_w, rd_w, rd_h,
        rd_b, Off20, Off, Multi, Aux, Packed, Single, Double, FprFields
<1> QED
    BY <1>1, <1>2, <1>3 DEF Roomy

LEMMA OffsetStoreRoomy == \A r : OffsetStoreShape(r) => Roomy(r)
<1> SUFFICES ASSUME NEW r, OffsetStoreShape(r)
             PROVE  Roomy(r)
    OBVIOUS
<1>1. /\ \E n \in 0 .. 4 : DOMAIN r.reads = 1 .. n
      /\ \E n \in 0 .. 2 : DOMAIN r.writes = 1 .. n
    BY DEF OffsetStoreShape, Has, Lists
<1>2. BasesWithin(r.reads, 1)
    BY DEF OffsetStoreShape, Has, Lists, BasesWithin, NoBase, ra_w, rs_w, rs_h,
        rs_b, Off20, Off, Multi, Aux, Packed, Single, Double, FprFields
<1>3. BasesWithin(r.writes, 2)
    BY DEF OffsetStoreShape, Has, Lists, BasesWithin, NoBase, ra_w, rs_w, rs_h,
        rs_b, Off20, Off, Multi, Aux, Packed, Single, Double, FprFields
<1> QED
    BY <1>1, <1>2, <1>3 DEF Roomy

LEMMA BranchRoomy == \A r : BranchShape(r) => Roomy(r)
<1> SUFFICES ASSUME NEW r, BranchShape(r)
             PROVE  Roomy(r)
    OBVIOUS
<1>1. /\ \E n \in 0 .. 4 : DOMAIN r.reads = 1 .. n
      /\ \E n \in 0 .. 2 : DOMAIN r.writes = 1 .. n
    BY DEF BranchShape, Has, Lists
<1>2. BasesWithin(r.reads, 2)
    BY DEF BranchShape, Has, Lists, BasesWithin, NoBase, Aux, Cr, Special
<1>3. BasesWithin(r.writes, 1)
    BY DEF BranchShape, Has, Lists, BasesWithin, NoBase, Aux, Cr, Special
<1> QED
    BY <1>1, <1>2, <1>3 DEF Roomy

\* Every row keeps within the reserved vectors.
LEMMA RowRoomy == \A w \in Word : Roomy(RowOf(w))
<1> SUFFICES ASSUME NEW w \in Word
             PROVE  Roomy(RowOf(w))
    OBVIOUS
<1>1. CASE NoRow(RowOf(w))
    BY <1>1 DEF NoRow, Roomy, BasesWithin
<1>2. CASE AnyShape(RowOf(w))
    <2> DEFINE row == RowOf(w)
    <2>1. AnyShape(row)
        BY <1>2
    <2> HIDE DEF row
    <2>2. Roomy(row)
        BY <2>1, Op4Roomy, Op19Roomy, MoveRoomy, BitRoomy, IndexedLoadRoomy,
           IndexedStoreRoomy, Op31ArithRoomy, Op59Roomy, Op63Roomy, Op63ArithRoomy,
           ImmediateRoomy, OffsetLoadRoomy, OffsetStoreRoomy, BranchRoomy DEF AnyShape
    <2> QED
        BY <2>2 DEF row
<1> QED
    BY <1>1, <1>2, RowOfAnyShape

\* What is neither a register nor a memory operand with a base alone.
LEMMA NoBaseKind ==
    ASSUME NEW w \in Word, NEW x, NoBase(x)
    PROVE  Source(w, x).kind \notin {"GPRSlice", "MemRegOff"}
<1> USE DEF GprFields, FprFields
<1>1. CASE /\ x[1] \in FprFields
           /\ x[2] \in {"kS1", "kS2", "kS4", "kPackedSingle", "kSingle", "kDouble",
                       "kSingleOrDouble", "kXer", "kLr", "kCtr"}
    BY <1>1 DEF Source
<1>2. CASE /\ x[1] \in {"index", "multi", "fixed"}
           /\ x[2] \in {"kS1", "kS2", "kS4", "kPackedSingle", "kSingle", "kDouble",
                       "kSingleOrDouble", "kXer", "kLr", "kCtr"}
    BY <1>2 DEF Source
<1>3. CASE x[2] = "cr" /\ x[1] \in {"bi", "crba", "crbb", "crbd", "crfd"}
    BY <1>3 DEF Source, CrField, Bit, Field
<1>4. CASE x[2] = "mask" /\ x[1] \in {"fm", "fpscrbd", "fpscrbd_fx", "fpscrfd", "fpscrfs",
                                     "fpscrfs_ex", "all"}
    BY <1>4 DEF Source
<1>5. CASE x[2] = "aux" /\ x[1] \in {"bo", "to", "i17", "imm", "mb", "me", "nb", "sh", "sr", "crm"}
    BY <1>5 DEF Source
<1>6. CASE x[2] = "special" /\ x[1] \in {"spr", "tbr", "simm", "uimm", "bd", "li"}
    BY <1>6 DEF Source, SpecialSource
<1> QED
    BY <1>1, <1>2, <1>3, <1>4, <1>5, <1>6 DEF NoBase

\* What is pushed for a list of accessors.
LEMMA PushedList ==
    ASSUME NEW w, NEW accessors, NEW n \in Nat, DOMAIN accessors = 1 .. n
    PROVE  /\ Pushed(w, accessors) = [i \in 1 .. n |-> Source(w, accessors[i])]
           /\ Len(Pushed(w, accessors)) = n
           /\ DOMAIN Pushed(w, accessors) = 1 .. n
BY DEF Pushed

\* Only an operation that writes at most one register sets bits of FPSCR besides,
\* and a branch that counts writes nothing else.
Room(w, row) ==
    \/ FpscrBits(w) = {} /\ row.op \notin {"kBc", "kBclr"}
    \/ FpscrBits(w) = {} /\ row.writes = <<>>
    \/ row.op \notin {"kBc", "kBclr"} /\ \E n \in 0 .. 1 : DOMAIN row.writes = 1 .. n

LEMMA LaterOps ==
    DOMAIN LaterCodes =
        {"kPsq_lx", "kPsq_stx", "kPsq_lux", "kPsq_stux", "kPs_sum0", "kPs_sum1",
         "kPs_muls0", "kPs_muls1", "kPs_madds0", "kPs_madds1", "kPs_div", "kPs_sub",
         "kPs_add", "kPs_sel", "kPs_res", "kPs_mul", "kPs_rsqrte", "kPs_msub",
         "kPs_madd", "kPs_nmsub", "kPs_nmadd"}
BY DEF LaterCodes

\* The branches that may count are in two tables.
LEMMA CountingRows ==
    ASSUME NEW row, row.op \in {"kBc", "kBclr"}, AnyShape(row)
    PROVE  (Op19Shape(row) \/ BranchShape(row)) /\ row.writes = <<>>
<1>1. ASSUME Op4Shape(row) PROVE FALSE
    BY <1>1, LaterOps DEF Op4Shape, Has, Codes
<1>2. ASSUME MoveShape(row) PROVE FALSE
    BY <1>2 DEF MoveShape, Has, Codes
<1>3. ASSUME BitShape(row) PROVE FALSE
    BY <1>3 DEF BitShape, Has, Codes
<1>4. ASSUME IndexedLoadShape(row) PROVE FALSE
    BY <1>4 DEF IndexedLoadShape, Has, Codes
<1>5. ASSUME IndexedStoreShape(row) PROVE FALSE
    BY SMTT(30), <1>5 DEF IndexedStoreShape, Has, Codes
<1>6. ASSUME Op31ArithShape(row) PROVE FALSE
    BY <1>6 DEF Op31ArithShape, Has, Codes
<1>7. ASSUME Op59Shape(row) PROVE FALSE
    BY <1>7 DEF Op59Shape, Has, Codes
<1>8. ASSUME Op63Shape(row) PROVE FALSE
    BY <1>8 DEF Op63Shape, Has, Codes
<1>9. ASSUME Op63ArithShape(row) PROVE FALSE
    BY <1>9 DEF Op63ArithShape, Has, Codes
<1>10. ASSUME ImmediateShape(row) PROVE FALSE
    BY <1>10 DEF ImmediateShape, Has, Codes
<1>11. ASSUME OffsetLoadShape(row) PROVE FALSE
    BY <1>11 DEF OffsetLoadShape, Has, Codes
<1>12. ASSUME OffsetStoreShape(row) PROVE FALSE
    BY <1>12 DEF OffsetStoreShape, Has, Codes
<1>13. Op19Shape(row) \/ BranchShape(row)
    BY <1>1, <1>2, <1>3, <1>4, <1>5, <1>6, <1>7, <1>8, <1>9, <1>10, <1>11, <1>12 DEF AnyShape
<1>14. ASSUME Op19Shape(row) PROVE row.writes = <<>>
    BY <1>14 DEF Op19Shape, Has, Codes, Lists
<1>15. ASSUME BranchShape(row) PROVE row.writes = <<>>
    BY <1>15 DEF BranchShape, Has, Codes, Lists
<1> QED
    BY <1>13, <1>14, <1>15

\* They write nothing but the counter.
LEMMA BranchesSetNoBits ==
    ASSUME NEW w \in Word, NEW row, ShapeOf(w, row), NoRow(row) \/ AnyShape(row),
           row.op \in {"kBc", "kBclr"}
    PROVE  FpscrBits(w) = {} /\ row.writes = <<>>
<1>1. ShapeOf(w, row) /\ row.op \in {"kBc", "kBclr"}
    OBVIOUS
<1>2. ~NoRow(row)
    BY <1>1 DEF NoRow
<1>3. row.writes = <<>>
    BY <1>1, <1>2, CountingRows
<1>4. ASSUME Op4Shape(row) PROVE FALSE
    BY <1>1, <1>4, LaterOps DEF Op4Shape, Has, Codes
<1>5. ASSUME Op59Shape(row) PROVE FALSE
    BY <1>1, <1>5 DEF Op59Shape, Has, Codes
<1>6. ASSUME Op63Shape(row) PROVE FALSE
    BY <1>1, <1>6 DEF Op63Shape, Has, Codes
<1>7. ASSUME Op63ArithShape(row) PROVE FALSE
    BY <1>1, <1>7 DEF Op63ArithShape, Has, Codes
<1>8. w.opcd \notin {4, 59, 63}
    BY <1>1, <1>2, <1>4, <1>5, <1>6, <1>7 DEF ShapeOf
<1> QED
    BY <1>3, <1>8 DEF FpscrBits

LEMMA RoomForFpscr ==
    ASSUME NEW w \in Word, NEW row, ShapeOf(w, row), NoRow(row) \/ AnyShape(row)
    PROVE  Room(w, row)
<1>1. ShapeOf(w, row) /\ (NoRow(row) \/ AnyShape(row))
    OBVIOUS
<1>2. CASE NoRow(row)
    <2>1. row.op \notin {"kBc", "kBclr"} /\ DOMAIN row.writes = 1 .. 0
        BY <1>2 DEF NoRow
    <2> QED
        BY <2>1 DEF Room
<1>3. CASE row.op \in {"kBc", "kBclr"}
    <2>1. FpscrBits(w) = {} /\ row.writes = <<>>
        BY <1>1, <1>3, BranchesSetNoBits
    <2> QED
        BY <2>1 DEF Room
<1>4. CASE row.op \notin {"kBc", "kBclr"} /\ w.opcd \notin {4, 59, 63}
    <2>1. FpscrBits(w) = {}
        BY <1>4 DEF FpscrBits
    <2> QED
        BY <1>4, <2>1 DEF Room
<1>5. CASE row.op \notin {"kBc", "kBclr"} /\ w.opcd \in {4, 59, 63} /\ ~NoRow(row)
    <2>1. ASSUME Op4Shape(row) PROVE \E n \in 0 .. 1 : DOMAIN row.writes = 1 .. n
        BY <2>1 DEF Op4Shape, Has, Lists
    <2>2. ASSUME Op59Shape(row) PROVE \E n \in 0 .. 1 : DOMAIN row.writes = 1 .. n
        BY <2>2 DEF Op59Shape, Has, Lists
    <2>3. ASSUME Op63ArithShape(row) PROVE \E n \in 0 .. 1 : DOMAIN row.writes = 1 .. n
        BY <2>3 DEF Op63ArithShape, Has, Lists
    <2>4. ASSUME Op63Shape(row)
          PROVE  (\E n \in 0 .. 1 : DOMAIN row.writes = 1 .. n) \/ row.code = 64
        BY <2>4 DEF Op63Shape, Has, Lists, Codes
    <2>5. ASSUME w.opcd = 63, w.ext \in DOMAIN Op63, w.ext = 64
          PROVE  FpscrBits(w) = {}
        BY <2>5 DEF FpscrBits, FdBits
    <2>6. \/ w.opcd = 4 /\ Op4Shape(row)
          \/ w.opcd = 59 /\ Op59Shape(row)
          \/ w.opcd = 63 /\ Op63ArithShape(row)
          \/ w.opcd = 63 /\ Op63Shape(row) /\ row.code = w.ext /\ w.ext \in DOMAIN Op63
        BY <1>1, <1>5 DEF ShapeOf
    <2>7. FpscrBits(w) = {} \/ \E n \in 0 .. 1 : DOMAIN row.writes = 1 .. n
        BY <2>1, <2>2, <2>3, <2>4, <2>5, <2>6
    <2> QED
        BY <1>5, <2>7 DEF Room
<1> QED
    BY <1>1, <1>2, <1>3, <1>4, <1>5

\* The lists of an instruction: what its row pushes, m destinations of l, then the
\* counter and bits of FPSCR.
ListsOf(w, row, i, n, m, l) ==
    /\ DOMAIN row.reads = 1 .. n
    /\ DOMAIN row.writes = 1 .. m
    /\ m <= l
    /\ i.reads = [k \in 1 .. n |-> Source(w, row.reads[k])]
    /\ DOMAIN i.writes = 1 .. l
    /\ Len(i.writes) = l
    /\ \A k \in 1 .. m : i.writes[k] = Source(w, row.writes[k])
    /\ \A k \in m + 1 .. l : i.writes[k].kind \in {"SPR", "FPSCRBit"}

LEMMA InstructionLists ==
    ASSUME NEW w \in Word, NEW va
    PROVE  \E n \in 0 .. 4, m \in 0 .. 2, l \in 0 .. 2 :
               ListsOf(w, RowOf(w), Disasm(va, w), n, m, l)
<1> DEFINE row == RowOf(w)
           counter == CounterWrite(w, row.op)
           fpscr == FpscrWrite(FpscrBits(w))
           pushed == Pushed(w, row.writes)
<1>1. Roomy(row) /\ Room(w, row)
    BY RowRoomy, RoomForFpscr, RowOfShape, RowOfAnyShape
<1>2. PICK n \in 0 .. 4 : DOMAIN row.reads = 1 .. n
    BY <1>1 DEF Roomy
<1>3. PICK m \in 0 .. 2 : DOMAIN row.writes = 1 .. m
    BY <1>1 DEF Roomy
<1>4. /\ Disasm(va, w).reads = Pushed(w, row.reads)
      /\ Disasm(va, w).writes = pushed \o counter \o fpscr
    BY DEF Disasm
<1>5. Pushed(w, row.reads) = [k \in 1 .. n |-> Source(w, row.reads[k])]
    BY <1>2 DEF Pushed
<1>6. pushed = [k \in 1 .. m |-> Source(w, row.writes[k])]
    BY <1>3 DEF Pushed
<1>7. \/ counter = <<>>
      \/ row.op \in {"kBc", "kBclr"} /\ \E x : counter = <<x>> /\ x.kind = "SPR"
    <2>1. Source(w, Spr("kCtr")).kind = "SPR"
        BY DEF Source, Spr, GprFields, FprFields
    <2> QED
        BY <2>1 DEF CounterWrite
<1>8. \/ fpscr = <<>>
      \/ FpscrBits(w) # {} /\ \E x : fpscr = <<x>> /\ x.kind = "FPSCRBit"
    BY DEF FpscrWrite
<1> DEFINE S == {pushed[k] : k \in 1 .. m} \cup {counter[1], fpscr[1]}
<1>9. pushed \in Seq(S) /\ Len(pushed) = m /\ DOMAIN pushed = 1 .. m
    BY <1>6
<1>10. /\ counter \in Seq(S) /\ Len(counter) \in 0 .. 1
       /\ \A k \in 1 .. Len(counter) : counter[k].kind = "SPR"
       /\ Len(counter) = 1 => row.op \in {"kBc", "kBclr"}
    <2>1. CASE counter = <<>>
        BY <2>1
    <2>2. CASE row.op \in {"kBc", "kBclr"} /\ \E x : counter = <<x>> /\ x.kind = "SPR"
        <3>1. PICK x : counter = <<x>> /\ x.kind = "SPR"
            BY <2>2
        <3> QED
            BY <2>2, <3>1
    <2> QED
        BY <1>7, <2>1, <2>2
<1>11. /\ fpscr \in Seq(S) /\ Len(fpscr) \in 0 .. 1
       /\ \A k \in 1 .. Len(fpscr) : fpscr[k].kind = "FPSCRBit"
       /\ Len(fpscr) = 1 => FpscrBits(w) # {}
    <2>1. CASE fpscr = <<>>
        BY <2>1
    <2>2. CASE FpscrBits(w) # {} /\ \E x : fpscr = <<x>> /\ x.kind = "FPSCRBit"
        <3>1. PICK x : fpscr = <<x>> /\ x.kind = "FPSCRBit"
            BY <2>2
        <3> QED
            BY <2>2, <3>1
    <2> QED
        BY <1>8, <2>1, <2>2
<1>12. Room(w, row)
    BY <1>1
<1> DEFINE first == pushed \o counter
           all == first \o fpscr
           l == m + Len(counter) + Len(fpscr)
<1> HIDE DEF pushed, counter, fpscr, S, row
<1>13. /\ first \in Seq(S) /\ Len(first) = m + Len(counter)
       /\ \A k \in 1 .. Len(first) : first[k] = IF k <= m THEN pushed[k] ELSE counter[k - m]
    BY <1>9, <1>10, ConcatProperties
<1> HIDE DEF first
<1>14. /\ all \in Seq(S) /\ Len(all) = l
       /\ \A k \in 1 .. Len(all) :
              all[k] = IF k <= Len(first) THEN first[k] ELSE fpscr[k - Len(first)]
    BY <1>10, <1>11, <1>13, ConcatProperties
<1>15. l \in 0 .. 2 /\ m <= l
    <2>1. row.writes = <<>> => m = 0
        BY <1>3
    <2>2. ASSUME NEW k \in 0 .. 1, DOMAIN row.writes = 1 .. k
          PROVE  m <= 1
        <3>1. m \in 1 .. m => m \in 1 .. k
            BY <1>3, <2>2
        <3> QED
            BY <1>3, <3>1
    <2> QED
        BY <1>10, <1>11, <1>12, <2>1, <2>2 DEF Room
<1> HIDE DEF all, l
<1>16. DOMAIN all = 1 .. l
    BY <1>14, <1>15
<1>17. \A k \in 1 .. m : all[k] = pushed[k]
    BY <1>13, <1>14, <1>15, <1>9, <1>10
<1>18. \A k \in m + 1 .. l : all[k].kind \in {"SPR", "FPSCRBit"}
    <2> SUFFICES ASSUME NEW k \in m + 1 .. l
                 PROVE  all[k].kind \in {"SPR", "FPSCRBit"}
        OBVIOUS
    <2>1. CASE k <= Len(first)
        <3>1. all[k] = counter[k - m] /\ k - m \in 1 .. Len(counter)
            BY <1>10, <1>13, <1>14, <1>15, <2>1
        <3> QED
            BY <1>10, <3>1
    <2>2. CASE k > Len(first)
        <3>1. all[k] = fpscr[k - Len(first)] /\ k - Len(first) \in 1 .. Len(fpscr)
            BY <1>10, <1>11, <1>13, <1>14, <1>15, <2>2 DEF l
        <3> QED
            BY <1>11, <3>1
    <2> QED
        BY <2>1, <2>2, <1>10, <1>13
<1>19. Disasm(va, w).writes = all
    BY <1>4 DEF all, first
<1>20. \A k \in 1 .. m : pushed[k] = Source(w, row.writes[k])
    BY <1>6
<1>21. ListsOf(w, row, Disasm(va, w), n, m, l)
    BY <1>2, <1>3, <1>4, <1>5, <1>14, <1>15, <1>16, <1>17, <1>18, <1>19, <1>20 DEF ListsOf
<1> QED
    BY <1>15, <1>21 DEF row

-----------------------------------------------------------------------------
(* Where the accessors are *)

\* Accessors that translate_dss_wrr and its like have a case for.
ForOperands ==
    {ra_w, rb_w, rd_w, rs_w, Cr("crfd"), Special("simm"), Special("uimm")}

\* What the rows of the operations named by Asked have where it looks.
Placed(r) ==
    /\ r.op = "kB" => r.reads = <<Special("li")>>
    /\ r.op = "kBc" => r.reads = <<Cr("bi"), Aux("bo"), Special("bd")>>
    /\ r.op \in {"kAddi", "kAddis"} =>
           r.reads = <<ra_or_zero, Special("simm")>> /\ r.writes = <<rd_w>>
    /\ r.op \in {"kAddic", "kAddicDot"} =>
           r.reads = <<ra_w, Special("simm")>> /\ r.writes = <<rd_w, Spr("kXer")>>
    /\ r.op = "kStw" => r.reads = <<rs_w>> /\ r.writes = <<Off("kS4")>>
    /\ r.op = "kStwu" => r.reads = <<rs_w>> /\ r.writes = <<Off("kS4"), ra_w>>
    /\ r.op = "kStb" => r.reads = <<rs_b>> /\ r.writes = <<Off("kS1")>>
    /\ r.op = "kLbz" => r.reads = <<Off("kS1")>> /\ r.writes = <<rd_b>>
    /\ r.op = "kStmw" => r.reads = <<Multi>> /\ r.writes = <<Off("kS4")>>
    /\ r.op = "kLwz" => r.reads = <<Off("kS4")>> /\ r.writes = <<rd_w>>
    /\ r.op = "kLmw" => r.reads = <<Off("kS4")>> /\ r.writes = <<Multi>>
    /\ r.op \in {"kAdd", "kAddc", "kAdde", "kMulli", "kMullw", "kSubf", "kCmp", "kCmpi",
                 "kCmpl", "kCmpli", "kOr"} =>
           2 \in DOMAIN r.reads /\ r.reads[2] \in ForOperands
    /\ r.op \in {"kAdd", "kAddc", "kAdde", "kMulli", "kMullw", "kSubf", "kCmp", "kCmpi",
                 "kCmpl", "kCmpli", "kOr", "kAddme", "kAddze"} =>
           /\ 1 \in DOMAIN r.reads /\ r.reads[1] \in ForOperands
           /\ 1 \in DOMAIN r.writes /\ r.writes[1] \in ForOperands

\* The operations that Asked names.
AskedOps ==
    {"kB", "kBc", "kAddi", "kAddis", "kAddic", "kAddicDot", "kStw", "kStmw", "kStwu",
     "kLwz", "kLmw", "kStb", "kLbz", "kAdd", "kAddc", "kAdde", "kMulli", "kMullw",
     "kSubf", "kCmp", "kCmpi", "kCmpl", "kCmpli", "kOr", "kAddme", "kAddze"}

LEMMA NotAsked == \A r : r.op \notin AskedOps => Placed(r)
BY DEF AskedOps, Placed

LEMMA Op4Placed == \A r : Op4Shape(r) => Placed(r)
<1>1. \A r : Op4Shape(r) => r.op \notin AskedOps
    BY LaterOps DEF Op4Shape, Has, Codes, AskedOps
<1> QED
    BY <1>1, NotAsked

LEMMA Op19Placed == \A r : Op19Shape(r) => Placed(r)
<1>1. \A r : Op19Shape(r) => r.op \notin AskedOps
    BY DEF Op19Shape, Has, Codes, AskedOps
<1> QED
    BY <1>1, NotAsked

LEMMA MovePlaced == \A r : MoveShape(r) => Placed(r)
<1>1. \A r : MoveShape(r) => r.op \notin AskedOps
    BY DEF MoveShape, Has, Codes, AskedOps
<1> QED
    BY <1>1, NotAsked

LEMMA BitPlaced == \A r : BitShape(r) => Placed(r)
<1> SUFFICES ASSUME NEW r, BitShape(r), r.op \in AskedOps
             PROVE  Placed(r)
    BY NotAsked
<1>1. \/ r.op \in {"kCmp", "kCmpl"} /\ r.reads = <<ra_w, rb_w, Spr("kXer")>>
                                    /\ r.writes = <<Cr("crfd")>>
      \/ r.op = "kOr" /\ r.reads = <<rs_w, rb_w>> /\ r.writes = <<ra_w>>
    <2>1. r.op \in {"kCmp", "kCmpl", "kOr"}
        BY DEF BitShape, Has, Codes, AskedOps
    <2>2. CASE r.op \in {"kCmp", "kCmpl"}
        BY SMTT(30), <2>2 DEF BitShape, Has, Codes, Lists
    <2>3. CASE r.op = "kOr"
        BY <2>3 DEF BitShape, Has, Codes, Lists
    <2> QED
        BY <2>1, <2>2, <2>3
<1> QED
    BY <1>1 DEF Placed, ForOperands

LEMMA IndexedLoadPlaced == \A r : IndexedLoadShape(r) => Placed(r)
<1>1. \A r : IndexedLoadShape(r) => r.op \notin AskedOps
    BY DEF IndexedLoadShape, Has, Codes, AskedOps
<1> QED
    BY <1>1, NotAsked

LEMMA IndexedStorePlaced == \A r : IndexedStoreShape(r) => Placed(r)
<1>1. \A r : IndexedStoreShape(r) => r.op \notin AskedOps
    BY SMTT(30) DEF IndexedStoreShape, Has, Codes, AskedOps
<1> QED
    BY <1>1, NotAsked

LEMMA Op31ArithPlaced == \A r : Op31ArithShape(r) => Placed(r)
BY DEF Op31ArithShape, Has, Codes, Lists, Placed, ForOperands

LEMMA Op59Placed == \A r : Op59Shape(r) => Placed(r)
<1>1. \A r : Op59Shape(r) => r.op \notin AskedOps
    BY DEF Op59Shape, Has, Codes, AskedOps
<1> QED
    BY <1>1, NotAsked

LEMMA Op63Placed == \A r : Op63Shape(r) => Placed(r)
<1>1. \A r : Op63Shape(r) => r.op \notin AskedOps
    BY DEF Op63Shape, Has, Codes, AskedOps
<1> QED
    BY <1>1, NotAsked

LEMMA Op63ArithPlaced == \A r : Op63ArithShape(r) => Placed(r)
<1>1. \A r : Op63ArithShape(r) => r.op \notin AskedOps
    BY DEF Op63ArithShape, Has, Codes, AskedOps
<1> QED
    BY <1>1, NotAsked

LEMMA ImmediatePlaced == \A r : ImmediateShape(r) => Placed(r)
<1> SUFFICES ASSUME NEW r, ImmediateShape(r), r.op \in AskedOps
             PROVE  Placed(r)
    BY NotAsked
<1>1. \/ r.op = "kMulli" /\ r.reads = <<ra_w, Special("simm")>> /\ r.writes = <<rd_w>>
      \/ /\ r.op \in {"kAddic", "kAddicDot"} /\ r.reads = <<ra_w, Special("simm")>>
         /\ r.writes = <<rd_w, Spr("kXer")>>
      \/ /\ r.op \in {"kAddi", "kAddis"} /\ r.reads = <<ra_or_zero, Special("simm")>>
         /\ r.writes = <<rd_w>>
      \/ /\ r.op = "kCmpli" /\ r.reads = <<ra_w, Special("uimm"), Spr("kXer")>>
         /\ r.writes = <<Cr("crfd")>>
      \/ /\ r.op = "kCmpi" /\ r.reads = <<ra_w, Special("simm"), Spr("kXer")>>
         /\ r.writes = <<Cr("crfd")>>
    BY DEF ImmediateShape, Has, Codes, Lists, AskedOps
<1> QED
    BY <1>1 DEF Placed, ForOperands

LEMMA OffsetLoadPlaced == \A r : OffsetLoadShape(r) => Placed(r)
BY DEF OffsetLoadShape, Has, Codes, Lists, Placed, ForOperands

LEMMA OffsetStorePlaced == \A r : OffsetStoreShape(r) => Placed(r)
BY DEF OffsetStoreShape, Has, Codes, Lists, Placed, ForOperands

LEMMA BranchPlaced == \A r : BranchShape(r) => Placed(r)
BY DEF BranchShape, Has, Codes, Lists, Placed, ForOperands

LEMMA RowPlaced == \A w \in Word : Placed(RowOf(w))
<1> SUFFICES ASSUME NEW w \in Word
             PROVE  Placed(RowOf(w))
    OBVIOUS
<1>1. CASE NoRow(RowOf(w))
    BY <1>1, NotAsked DEF NoRow, AskedOps
<1>2. CASE AnyShape(RowOf(w))
    BY <1>2, Op4Placed, Op19Placed, MovePlaced, BitPlaced, IndexedLoadPlaced,
       IndexedStorePlaced, Op31ArithPlaced, Op59Placed, Op63Placed, Op63ArithPlaced,
       ImmediatePlaced, OffsetLoadPlaced, OffsetStorePlaced, BranchPlaced DEF AnyShape
<1> QED
    BY <1>1, <1>2, RowOfAnyShape

\* The kinds of the sources that the accessors stand for.
LEMMA AccessorKinds ==
    ASSUME NEW w \in Word
    PROVE  /\ \A x \in {ra_w, rb_w, rd_w, rs_w} : Source(w, x).kind = "GPRSlice"
           /\ Source(w, Special("simm")).kind = "SIMM"
           /\ Source(w, Special("uimm")).kind = "UIMM"
           /\ \A x \in {Cr("bi"), Cr("crfd")} : Source(w, x).kind = "CrSlice"
           /\ \A x \in {Special("bd"), Special("li")} : Source(w, x).kind = "RelBranch"
           /\ Source(w, Off("kS4")).kind = "MemRegOff"
           /\ Source(w, Multi).kind = "MultiReg"
<1> USE DEF Source, GprFields, FprFields
<1>1. \A x \in {ra_w, rb_w, rd_w, rs_w} : Source(w, x).kind = "GPRSlice"
    BY DEF ra_w, rb_w, rd_w, rs_w, Gpr
<1>2. Source(w, Special("simm")).kind = "SIMM" /\ Source(w, Special("uimm")).kind = "UIMM"
    BY DEF Special, SpecialSource
<1>3. \A x \in {Cr("bi"), Cr("crfd")} : Source(w, x).kind = "CrSlice"
    BY DEF Cr, CrField, Bit, Field
<1>4. \A x \in {Special("bd"), Special("li")} : Source(w, x).kind = "RelBranch"
    BY DEF Special, SpecialSource
<1>5. Source(w, Off("kS4")).kind = "MemRegOff"
    BY DEF Off, MemRegOff
<1>6. Source(w, Multi).kind = "MultiReg"
    BY DEF Multi
<1> QED
    BY <1>1, <1>2, <1>3, <1>4, <1>5, <1>6

-----------------------------------------------------------------------------
(* Where a memory operand is *)

ValueTypes == {"kS1", "kS2", "kS4", "kPackedSingle", "kSingle", "kDouble"}

OfRegister(x) == x[1] \in GprFields \cup {"ra_or_zero"} /\ x[2] \in ValueTypes
OfOffset(x) == x[1] \in {"d16", "d20", "base"} /\ x[2] \in ValueTypes

\* A memory operand with a base and an offset comes first.
Leading(list) ==
    \A k \in DOMAIN list :
        NoBase(list[k]) \/ OfRegister(list[k]) \/ (k = 1 /\ OfOffset(list[k]))

LEMMA Op4Leading == \A r : Op4Shape(r) => Leading(r.reads) /\ Leading(r.writes)
<1> SUFFICES ASSUME NEW r, Op4Shape(r)
             PROVE  Leading(r.reads) /\ Leading(r.writes)
    OBVIOUS
<1>1. Leading(r.reads)
    BY SMTT(30) DEF Op4Shape, Has, Lists, Leading, NoBase, OfRegister, OfOffset, ValueTypes, Idx, Cr, Packed,
       GprFields, FprFields
<1>2. Leading(r.writes)
    BY SMTT(30) DEF Op4Shape, Has, Lists, Leading, NoBase, OfRegister, OfOffset, ValueTypes, Idx, Cr, Packed,
       GprFields, FprFields
<1> QED
    BY <1>1, <1>2

LEMMA Op19Leading == \A r : Op19Shape(r) => Leading(r.reads) /\ Leading(r.writes)
<1> SUFFICES ASSUME NEW r, Op19Shape(r)
             PROVE  Leading(r.reads) /\ Leading(r.writes)
    OBVIOUS
<1>1. Leading(r.reads)
    BY SMTT(30) DEF Op19Shape, Has, Lists, Leading, NoBase, OfRegister, OfOffset, ValueTypes, Aux, Spr, Cr,
       GprFields, FprFields
<1>2. Leading(r.writes)
    BY SMTT(30) DEF Op19Shape, Has, Lists, Leading, NoBase, OfRegister, OfOffset, ValueTypes, Aux, Spr, Cr,
       GprFields, FprFields
<1> QED
    BY <1>1, <1>2

LEMMA MoveLeading == \A r : MoveShape(r) => Leading(r.reads) /\ Leading(r.writes)
<1> SUFFICES ASSUME NEW r, MoveShape(r)
             PROVE  Leading(r.reads) /\ Leading(r.writes)
    OBVIOUS
<1>1. Leading(r.reads)
    BY SMTT(30) DEF MoveShape, Has, Lists, Leading, NoBase, OfRegister, OfOffset, ValueTypes, rb_w, rd_w, rs_w,
       Aux, Spr, Cr, Special, GprFields, FprFields
<1>2. Leading(r.writes)
    BY SMTT(30) DEF MoveShape, Has, Lists, Leading, NoBase, OfRegister, OfOffset, ValueTypes, rb_w, rd_w, rs_w,
       Aux, Spr, Cr, Special, GprFields, FprFields
<1> QED
    BY <1>1, <1>2

LEMMA BitLeading == \A r : BitShape(r) => Leading(r.reads) /\ Leading(r.writes)
<1> SUFFICES ASSUME NEW r, BitShape(r)
             PROVE  Leading(r.reads) /\ Leading(r.writes)
    OBVIOUS
<1>1. Leading(r.reads)
    BY SMTT(30) DEF BitShape, Has, Lists, Leading, NoBase, OfRegister, OfOffset, ValueTypes, ra_w, rb_w, rd_w,
       rs_w, rs_h, rs_b, Aux, Spr, Cr, GprFields, FprFields
<1>2. Leading(r.writes)
    BY SMTT(30) DEF BitShape, Has, Lists, Leading, NoBase, OfRegister, OfOffset, ValueTypes, ra_w, rb_w, rd_w,
       rs_w, rs_h, rs_b, Aux, Spr, Cr, GprFields, FprFields
<1> QED
    BY <1>1, <1>2

LEMMA IndexedLoadLeading == \A r : IndexedLoadShape(r) => Leading(r.reads) /\ Leading(r.writes)
<1> SUFFICES ASSUME NEW r, IndexedLoadShape(r)
             PROVE  Leading(r.reads) /\ Leading(r.writes)
    OBVIOUS
<1>1. Leading(r.reads)
    BY SMTT(30) DEF IndexedLoadShape, Has, Lists, Leading, NoBase, OfRegister, OfOffset, ValueTypes, ra_w, rb_w,
       rd_w, rd_h, rd_b, AtBase, Idx, Aux, Single, Double, GprFields, FprFields
<1>2. Leading(r.writes)
    BY SMTT(30) DEF IndexedLoadShape, Has, Lists, Leading, NoBase, OfRegister, OfOffset, ValueTypes, ra_w, rb_w,
       rd_w, rd_h, rd_b, AtBase, Idx, Aux, Single, Double, GprFields, FprFields
<1> QED
    BY <1>1, <1>2

LEMMA IndexedStoreLeading == \A r : IndexedStoreShape(r) => Leading(r.reads) /\ Leading(r.writes)
<1> SUFFICES ASSUME NEW r, IndexedStoreShape(r)
             PROVE  Leading(r.reads) /\ Leading(r.writes)
    OBVIOUS
<1>1. Leading(r.reads)
    BY SMTT(30) DEF IndexedStoreShape, Has, Lists, Leading, NoBase, OfRegister, OfOffset, ValueTypes, ra_w,
       rs_w, rs_h, rs_b, AtBase, Idx, Aux, Spr, Single, Double, GprFields, FprFields
<1>2. Leading(r.writes)
    BY SMTT(30) DEF IndexedStoreShape, Has, Lists, Leading, NoBase, OfRegister, OfOffset, ValueTypes, ra_w,
       rs_w, rs_h, rs_b, AtBase, Idx, Aux, Spr, Single, Double, GprFields, FprFields
<1> QED
    BY <1>1, <1>2

LEMMA Op31ArithLeading == \A r : Op31ArithShape(r) => Leading(r.reads) /\ Leading(r.writes)
<1> SUFFICES ASSUME NEW r, Op31ArithShape(r)
             PROVE  Leading(r.reads) /\ Leading(r.writes)
    OBVIOUS
<1>1. Leading(r.reads)
    BY SMTT(30) DEF Op31ArithShape, Has, Lists, Leading, NoBase, OfRegister, OfOffset, ValueTypes, ra_w, rb_w,
       rd_w, Spr, GprFields, FprFields
<1>2. Leading(r.writes)
    BY SMTT(30) DEF Op31ArithShape, Has, Lists, Leading, NoBase, OfRegister, OfOffset, ValueTypes, ra_w, rb_w,
       rd_w, Spr, GprFields, FprFields
<1> QED
    BY <1>1, <1>2

LEMMA Op59Leading == \A r : Op59Shape(r) => Leading(r.reads) /\ Leading(r.writes)
<1> SUFFICES ASSUME NEW r, Op59Shape(r)
             PROVE  Leading(r.reads) /\ Leading(r.writes)
    OBVIOUS
<1>1. Leading(r.reads)
    BY SMTT(30) DEF Op59Shape, Has, Lists, Leading, NoBase, OfRegister, OfOffset, ValueTypes, Single, GprFields,
       FprFields
<1>2. Leading(r.writes)
    BY SMTT(30) DEF Op59Shape, Has, Lists, Leading, NoBase, OfRegister, OfOffset, ValueTypes, Single, GprFields,
       FprFields
<1> QED
    BY <1>1, <1>2

LEMMA Op63Leading == \A r : Op63Shape(r) => Leading(r.reads) /\ Leading(r.writes)
<1> SUFFICES ASSUME NEW r, Op63Shape(r)
             PROVE  Leading(r.reads) /\ Leading(r.writes)
    OBVIOUS
<1>1. Leading(r.reads)
    BY SMTT(30) DEF Op63Shape, Has, Lists, Leading, NoBase, OfRegister, OfOffset, ValueTypes, Aux, Cr, Mask,
       Single, Double, Either, GprFields, FprFields
<1>2. Leading(r.writes)
    BY SMTT(30) DEF Op63Shape, Has, Lists, Leading, NoBase, OfRegister, OfOffset, ValueTypes, Aux, Cr, Mask,
       Single, Double, Either, GprFields, FprFields
<1> QED
    BY <1>1, <1>2

LEMMA Op63ArithLeading == \A r : Op63ArithShape(r) => Leading(r.reads) /\ Leading(r.writes)
<1> SUFFICES ASSUME NEW r, Op63ArithShape(r)
             PROVE  Leading(r.reads) /\ Leading(r.writes)
    OBVIOUS
<1>1. Leading(r.reads)
    BY SMTT(30) DEF Op63ArithShape, Has, Lists, Leading, NoBase, OfRegister, OfOffset, ValueTypes, Single,
       Double, Either, GprFields, FprFields
<1>2. Leading(r.writes)
    BY SMTT(30) DEF Op63ArithShape, Has, Lists, Leading, NoBase, OfRegister, OfOffset, ValueTypes, Single,
       Double, Either, GprFields, FprFields
<1> QED
    BY <1>1, <1>2

LEMMA ImmediateLeading == \A r : ImmediateShape(r) => Leading(r.reads) /\ Leading(r.writes)
<1> SUFFICES ASSUME NEW r, ImmediateShape(r)
             PROVE  Leading(r.reads) /\ Leading(r.writes)
    OBVIOUS
<1>1. Leading(r.reads)
    <2>1. /\ \A f \in {"to", "sh", "mb", "me"} : NoBase(Aux(f))
          /\ NoBase(Special("simm")) /\ NoBase(Special("uimm")) /\ NoBase(Spr("kXer"))
        BY DEF NoBase, Aux, Special, Spr
    <2>2. \A x \in {ra_w, rb_w, rs_w, ra_or_zero} : OfRegister(x)
        BY DEF OfRegister, ValueTypes, ra_w, rb_w, rs_w, ra_or_zero, GprFields
    <2> QED
        BY SMTT(30), <2>1, <2>2 DEF ImmediateShape, Has, Lists, Leading
<1>2. Leading(r.writes)
    BY SMTT(30) DEF ImmediateShape, Has, Lists, Leading, NoBase, OfRegister, OfOffset, ValueTypes, ra_w, rb_w,
       rd_w, rs_w, ra_or_zero, Aux, Spr, Cr, Special, GprFields, FprFields
<1> QED
    BY <1>1, <1>2

LEMMA OffsetLoadLeading == \A r : OffsetLoadShape(r) => Leading(r.reads) /\ Leading(r.writes)
<1> SUFFICES ASSUME NEW r, OffsetLoadShape(r)
             PROVE  Leading(r.reads) /\ Leading(r.writes)
    OBVIOUS
<1>1. Leading(r.reads)
    BY SMTT(30) DEF OffsetLoadShape, Has, Lists, Leading, NoBase, OfRegister, OfOffset, ValueTypes, ra_w, rd_w,
       rd_h, rd_b, Off20, Multi, Off, Aux, Packed, Single, Double, GprFields, FprFields
<1>2. Leading(r.writes)
    BY SMTT(30) DEF OffsetLoadShape, Has, Lists, Leading, NoBase, OfRegister, OfOffset, ValueTypes, ra_w, rd_w,
       rd_h, rd_b, Off20, Multi, Off, Aux, Packed, Single, Double, GprFields, FprFields
<1> QED
    BY <1>1, <1>2

LEMMA OffsetStoreLeading == \A r : OffsetStoreShape(r) => Leading(r.reads) /\ Leading(r.writes)
<1> SUFFICES ASSUME NEW r, OffsetStoreShape(r)
             PROVE  Leading(r.reads) /\ Leading(r.writes)
    OBVIOUS
<1>1. Leading(r.reads)
    BY SMTT(30) DEF OffsetStoreShape, Has, Lists, Leading, NoBase, OfRegister, OfOffset, ValueTypes, ra_w, rs_w,
       rs_h, rs_b, Off20, Multi, Off, Aux, Packed, Single, Double, GprFields, FprFields
<1>2. Leading(r.writes)
    BY SMTT(30) DEF OffsetStoreShape, Has, Lists, Leading, NoBase, OfRegister, OfOffset, ValueTypes, ra_w, rs_w,
       rs_h, rs_b, Off20, Multi, Off, Aux, Packed, Single, Double, GprFields, FprFields
<1> QED
    BY <1>1, <1>2

LEMMA BranchLeading == \A r : BranchShape(r) => Leading(r.reads) /\ Leading(r.writes)
<1> SUFFICES ASSUME NEW r, BranchShape(r)
             PROVE  Leading(r.reads) /\ Leading(r.writes)
    OBVIOUS
<1>1. Leading(r.reads)
    BY SMTT(30) DEF BranchShape, Has, Lists, Leading, NoBase, OfRegister, OfOffset, ValueTypes, Aux, Cr,
       Special, GprFields, FprFields
<1>2. Leading(r.writes)
    BY SMTT(30) DEF BranchShape, Has, Lists, Leading, NoBase, OfRegister, OfOffset, ValueTypes, Aux, Cr,
       Special, GprFields, FprFields
<1> QED
    BY <1>1, <1>2

LEMMA RowLeading == \A w \in Word : Leading(RowOf(w).reads) /\ Leading(RowOf(w).writes)
<1> SUFFICES ASSUME NEW w \in Word
             PROVE  Leading(RowOf(w).reads) /\ Leading(RowOf(w).writes)
    OBVIOUS
<1>1. CASE NoRow(RowOf(w))
    BY <1>1 DEF NoRow, Leading
<1>2. CASE AnyShape(RowOf(w))
    BY <1>2, Op4Leading, Op19Leading, MoveLeading, BitLeading, IndexedLoadLeading,
       IndexedStoreLeading, Op31ArithLeading, Op59Leading, Op63Leading, Op63ArithLeading,
       ImmediateLeading, OffsetLoadLeading, OffsetStoreLeading, BranchLeading DEF AnyShape
<1> QED
    BY <1>1, <1>2, RowOfAnyShape

LEMMA SignedFields ==
    ASSUME NEW w \in Word
    PROVE  simm(w) \in Int /\ d20(w) \in Int
<1>1. w.b \in Int /\ w.ext \in Int /\ w.rc \in Int
    BY DEF Word
<1> DEFINE u == Low(w)
<1>2. u \in Int
    BY <1>1 DEF Low
<1> HIDE DEF u
<1>3. Signed(u, 16) \in Int
    BY <1>2 DEF Signed
<1>4. Signed(u % 2 ^ 12, 12) \in Int
    <2>1. u % 2 ^ 12 \in Int
        BY <1>2
    <2> DEFINE v == u % 2 ^ 12
    <2> HIDE DEF v
    <2>2. v \in Int
        BY <2>1 DEF v
    <2>3. Signed(v, 12) \in Int
        BY <2>2 DEF Signed
    <2> QED
        BY <2>3 DEF v
<1>5. simm(w) = Signed(u, 16) /\ d20(w) = Signed(u % 2 ^ 12, 12)
    BY DEF simm, d20, u
<1> QED
    BY <1>3, <1>4, <1>5

\* The operand that an accessor stands for.
LEMMA OffsetSource ==
    ASSUME NEW w \in Word, NEW x, OfOffset(x)
    PROVE  LET y == Source(w, x)
           IN  y.kind = "MemRegOff" /\ y.base = w.a /\ y.type = x[2] /\ y.off \in Int
<1>1. simm(w) \in Int /\ d20(w) \in Int
    BY SignedFields
<1>2. CASE x[1] = "d16"
    <2>1. Source(w, x) = MemRegOff(w, x[2], simm(w))
        BY <1>2 DEF OfOffset, ValueTypes, Source, GprFields, FprFields
    <2> QED
        BY <1>1, <2>1 DEF MemRegOff
<1>3. CASE x[1] = "d20"
    <2>1. Source(w, x) = MemRegOff(w, x[2], d20(w))
        BY <1>3 DEF OfOffset, ValueTypes, Source, GprFields, FprFields
    <2> QED
        BY <1>1, <2>1 DEF MemRegOff
<1>4. CASE x[1] = "base"
    <2>1. Source(w, x) = MemRegOff(w, x[2], 0)
        BY <1>4 DEF OfOffset, ValueTypes, Source, GprFields, FprFields
    <2> QED
        BY <2>1 DEF MemRegOff
<1> QED
    BY <1>2, <1>3, <1>4 DEF OfOffset

LEMMA RegisterSource ==
    ASSUME NEW w \in Word, NEW x, OfRegister(x)
    PROVE  Source(w, x).kind \in {"GPRSlice", "AuxImm"}
<1>1. CASE x[1] \in GprFields
    BY <1>1 DEF OfRegister, ValueTypes, Source, Gpr, GprFields, FprFields
<1>2. CASE x[1] = "ra_or_zero"
    BY <1>2 DEF OfRegister, ValueTypes, Source, Gpr, GprFields, FprFields
<1> QED
    BY <1>1, <1>2 DEF OfRegister

\* What a list of an instruction holds besides registers.
FirstSlot(list, a) ==
    \A k \in DOMAIN list :
        list[k].kind = "MemRegOff" =>
            k = 1 /\ list[1].base = a /\ list[1].off \in Int

LEMMA InstructionSlots ==
    ASSUME NEW w \in Word, NEW va
    PROVE  LET i == Disasm(va, w)
           IN  FirstSlot(i.reads, w.a) /\ FirstSlot(i.writes, w.a)
<1> DEFINE i == Disasm(va, w)
           row == RowOf(w)
<1>1. PICK n \in 0 .. 4, m \in 0 .. 2, l \in 0 .. 2 : ListsOf(w, row, i, n, m, l)
    BY InstructionLists
<1>2. Leading(row.reads) /\ Leading(row.writes)
    BY RowLeading
<1> HIDE DEF i, row
<1>3. ASSUME NEW list, Leading(list), NEW k \in DOMAIN list,
             Source(w, list[k]).kind = "MemRegOff"
      PROVE  /\ k = 1 /\ Source(w, list[1]).base = w.a
             /\ Source(w, list[1]).off \in Int
    <2>1. ~NoBase(list[k]) /\ ~OfRegister(list[k])
        BY <1>3, NoBaseKind, RegisterSource
    <2>2. k = 1 /\ OfOffset(list[1])
        BY <1>3, <2>1 DEF Leading
    <2> QED
        BY <2>2, OffsetSource
<1>4. FirstSlot(i.reads, w.a)
    BY <1>1, <1>2, <1>3 DEF ListsOf, FirstSlot
<1>5. FirstSlot(i.writes, w.a)
    <2> SUFFICES ASSUME NEW k \in 1 .. l, i.writes[k].kind = "MemRegOff"
                 PROVE  /\ k = 1 /\ i.writes[1].base = w.a
                        /\ i.writes[1].off \in Int
        BY <1>1 DEF ListsOf, FirstSlot
    <2>1. k \in 1 .. m
        BY <1>1 DEF ListsOf
    <2>2. k \in DOMAIN row.writes /\ i.writes[k] = Source(w, row.writes[k])
        BY <1>1, <2>1 DEF ListsOf
    <2>3. /\ k = 1 /\ Source(w, row.writes[1]).base = w.a
          /\ Source(w, row.writes[1]).off \in Int
        BY <1>2, <1>3, <2>2
    <2> QED
        BY <2>2, <2>3
<1> QED
    BY <1>4, <1>5 DEF i

\* The operands of the instructions that name r1 without a slot.
LEMMA InstructionNames ==
    ASSUME NEW w \in Word, NEW va
    PROVE  LET i == Disasm(va, w)
           IN  /\ i.op \in {"kAddi", "kAddic"} =>
                      /\ DOMAIN i.reads = 1 .. 2
                      /\ i.reads[2].kind = "SIMM" /\ i.reads[2].val \in Int
               /\ i.op = "kStwu" =>
                      /\ DOMAIN i.writes = 1 .. 2
                      /\ i.writes[1].kind = "MemRegOff" /\ i.writes[1].off \in Int
                      /\ i.writes[2] = Gpr(w.a, "kS4")
<1> DEFINE i == Disasm(va, w)
           row == RowOf(w)
<1>1. PICK n \in 0 .. 4, m \in 0 .. 2, l \in 0 .. 2 : ListsOf(w, row, i, n, m, l)
    BY InstructionLists
<1>2. Placed(row) /\ i.op = row.op
    BY RowPlaced DEF Disasm
<1> HIDE DEF i, row
<1>3. CASE i.op \in {"kAddi", "kAddic"}
    <2>1. DOMAIN row.reads = 1 .. 2 /\ row.reads[2] = Special("simm")
        BY <1>2, <1>3 DEF Placed
    <2>2. n = 2
        <3>1. n \in 1 .. n => n \in 1 .. 2
            BY <1>1, <2>1 DEF ListsOf
        <3>2. 2 \in 1 .. n
            BY <1>1, <2>1 DEF ListsOf
        <3> QED
            BY <3>1, <3>2
    <2>3. DOMAIN i.reads = 1 .. 2 /\ i.reads[2] = Source(w, Special("simm"))
        BY <1>1, <2>1, <2>2 DEF ListsOf
    <2>4. simm(w) \in Int
        BY SignedFields
    <2>5. Source(w, Special("simm")) = [kind |-> "SIMM", val |-> simm(w)]
        BY DEF Source, Special, SpecialSource, GprFields, FprFields
    <2> QED
        BY <1>3, <2>3, <2>4, <2>5 DEF i
<1>4. CASE i.op = "kStwu"
    <2>1. DOMAIN row.writes = 1 .. 2 /\ row.writes[1] = Off("kS4") /\ row.writes[2] = ra_w
        BY <1>2, <1>4 DEF Placed
    <2>2. m = 2 /\ l = 2
        <3>1. m \in 1 .. m => m \in 1 .. 2
            BY <1>1, <2>1 DEF ListsOf
        <3>2. 2 \in 1 .. m
            BY <1>1, <2>1 DEF ListsOf
        <3> QED
            BY <1>1, <3>1, <3>2 DEF ListsOf
    <2>3. /\ DOMAIN i.writes = 1 .. 2
          /\ i.writes[1] = Source(w, Off("kS4")) /\ i.writes[2] = Source(w, ra_w)
        BY <1>1, <2>1, <2>2 DEF ListsOf
    <2>4. OfOffset(Off("kS4"))
        BY DEF OfOffset, ValueTypes, Off
    <2>5. Source(w, Off("kS4")).kind = "MemRegOff" /\ Source(w, Off("kS4")).off \in Int
        BY <2>4, OffsetSource
    <2>6. Source(w, ra_w) = Gpr(w.a, "kS4")
        BY DEF Source, ra_w, GprFields, FprFields, RegField, Gpr
    <2> QED
        BY <1>4, <2>3, <2>5, <2>6 DEF i
<1> QED
    BY <1>3, <1>4 DEF i

-----------------------------------------------------------------------------
(* The operands of an instruction, by the accessors of its row *)

FollowsRow(w, row, i) ==
    /\ i.op = row.op /\ DOMAIN i.reads = DOMAIN row.reads
    /\ \A k \in DOMAIN row.reads : i.reads[k] = Source(w, row.reads[k])
    /\ \A k \in DOMAIN row.writes :
           k \in DOMAIN i.writes /\ i.writes[k] = Source(w, row.writes[k])

LEMMA InstructionRow ==
    ASSUME NEW w \in Word, NEW va
    PROVE  FollowsRow(w, RowOf(w), Disasm(va, w))
<1> DEFINE i == Disasm(va, w)
           row == RowOf(w)
<1>1. PICK n \in 0 .. 4, m \in 0 .. 2, l \in 0 .. 2 : ListsOf(w, row, i, n, m, l)
    BY InstructionLists
<1>2. i.op = row.op
    BY DEF Disasm
<1> HIDE DEF i, row
<1>3. FollowsRow(w, row, i)
    BY <1>1, <1>2 DEF ListsOf, FollowsRow
<1> QED
    BY <1>3 DEF i, row

\* The operations whose operands the translator asks for.
PairOps == {"kAdd", "kAddc", "kAdde", "kMulli", "kMullw", "kSubf", "kCmp", "kCmpi", "kCmpl",
            "kCmpli", "kOr"}
SingleOps == PairOps \cup {"kAddme", "kAddze"}
OperandOps == SingleOps \cup {"kAddi", "kAddis", "kAddic", "kAddicDot", "kLbz", "kLwz", "kStb",
                              "kStw"}

Plain(x) == x.kind \in {"GPRSlice", "CrSlice", "SIMM", "UIMM"}

\* What translate_op, and what the passes before, find of their operands.
WellPlaced(i) ==
    /\ i.op \in PairOps => 2 \in DOMAIN i.reads /\ Plain(i.reads[2])
    /\ i.op \in SingleOps =>
          /\ 1 \in DOMAIN i.reads /\ Plain(i.reads[1])
          /\ 1 \in DOMAIN i.writes /\ Plain(i.writes[1])
    /\ i.op \in {"kAddi", "kAddis", "kAddic", "kAddicDot"} =>
          /\ DOMAIN i.reads = 1 .. 2
          /\ i.reads[1].kind \in {"GPRSlice", "AuxImm"}
          /\ i.reads[1].kind = "AuxImm" => i.op \in {"kAddi", "kAddis"} /\ i.word.a = 0
          /\ i.reads[1].kind = "GPRSlice" => i.reads[1].reg = i.word.a
          /\ i.reads[2].kind = "SIMM" /\ i.reads[2].val \in Int
          /\ 1 \in DOMAIN i.writes /\ i.writes[1].kind = "GPRSlice"
    /\ i.op \in {"kLbz", "kLwz", "kLmw"} =>
          /\ 1 \in DOMAIN i.reads /\ i.reads[1].kind = "MemRegOff"
          /\ i.reads[1].base = i.word.a
    /\ i.op \in {"kLbz", "kLwz"} => 1 \in DOMAIN i.writes /\ i.writes[1].kind = "GPRSlice"
    /\ i.op \in {"kStb", "kStw", "kStmw"} =>
          /\ 1 \in DOMAIN i.writes /\ i.writes[1].kind = "MemRegOff"
          /\ i.writes[1].base = i.word.a
    /\ i.op \in {"kStb", "kStw"} => 1 \in DOMAIN i.reads /\ i.reads[1].kind = "GPRSlice"
    /\ i.op \in OperandOps => "kWritesLR" \notin i.flags

\* None of the flags is the one of a call.
OwnFlags == {{}, {"rc"}, {"rc_fp"}, {"l"}, {"record"}, {"rc", "oe"}, {"w"}}
NoLink(r) == r.op \in OperandOps => r.flags \in OwnFlags

LEMMA RowNoLink == \A w \in Word : NoLink(RowOf(w))
<1>a. \A r, codes, reads, writes, flags :
          Has(r, codes, reads, writes, flags) => r.flags = flags
    BY DEF Has
<1>b. /\ {} \in OwnFlags /\ {"rc"} \in OwnFlags /\ {"rc_fp"} \in OwnFlags
      /\ {"l"} \in OwnFlags /\ {"record"} \in OwnFlags /\ {"rc", "oe"} \in OwnFlags
      /\ {"w"} \in OwnFlags
    BY DEF OwnFlags
<1> USE DEF NoLink
<1>1. \A r : Op4Shape(r) => NoLink(r)  BY <1>a, <1>b DEF Op4Shape
<1>2. \A r : Op19Shape(r) => NoLink(r)
    BY DEF Op19Shape, Has, Codes, OperandOps, SingleOps, PairOps
<1>3. \A r : MoveShape(r) => NoLink(r)  BY <1>a, <1>b DEF MoveShape
<1>4. \A r : BitShape(r) => NoLink(r)  BY <1>a, <1>b DEF BitShape
<1>5. \A r : IndexedLoadShape(r) => NoLink(r)  BY <1>a, <1>b DEF IndexedLoadShape
<1>6. \A r : IndexedStoreShape(r) => NoLink(r)  BY <1>a, <1>b DEF IndexedStoreShape
<1>7. \A r : Op31ArithShape(r) => NoLink(r)  BY <1>a, <1>b DEF Op31ArithShape
<1>8. \A r : Op59Shape(r) => NoLink(r)  BY <1>a, <1>b DEF Op59Shape
<1>9. \A r : Op63Shape(r) => NoLink(r)  BY <1>a, <1>b DEF Op63Shape
<1>10. \A r : Op63ArithShape(r) => NoLink(r)  BY <1>a, <1>b DEF Op63ArithShape
<1>11. \A r : ImmediateShape(r) => NoLink(r)  BY <1>a, <1>b DEF ImmediateShape
<1>12. \A r : OffsetLoadShape(r) => NoLink(r)  BY <1>a, <1>b DEF OffsetLoadShape
<1>13. \A r : OffsetStoreShape(r) => NoLink(r)  BY <1>a, <1>b DEF OffsetStoreShape
<1>14. \A r : BranchShape(r) => NoLink(r)
    BY DEF BranchShape, Has, Codes, OperandOps, SingleOps, PairOps
<1>15. \A r : NoRow(r) => NoLink(r)
    BY DEF NoRow, OperandOps, SingleOps, PairOps
<1> HIDE DEF NoLink
<1> QED
    BY <1>1, <1>2, <1>3, <1>4, <1>5, <1>6, <1>7, <1>8, <1>9, <1>10, <1>11, <1>12, <1>13,
       <1>14, <1>15, RowOfAnyShape DEF AnyShape

LEMMA OperandKinds ==
    ASSUME NEW w \in Word
    PROVE  /\ \A x \in ForOperands : Plain(Source(w, x))
           /\ \A x \in {ra_w, rd_w, rd_b, rs_w, rs_b} : Source(w, x).kind = "GPRSlice"
           /\ Source(w, ra_w).reg = w.a
           /\ Source(w, Special("simm")).kind = "SIMM" /\ Source(w, Special("simm")).val \in Int
           /\ Source(w, ra_or_zero).kind \in {"GPRSlice", "AuxImm"}
           /\ Source(w, ra_or_zero).kind = "AuxImm" => w.a = 0
           /\ Source(w, ra_or_zero).kind = "GPRSlice" => Source(w, ra_or_zero).reg = w.a
           /\ \A x \in {Off("kS1"), Off("kS4")} :
                 Source(w, x).kind = "MemRegOff" /\ Source(w, x).base = w.a
<1>1. \A x \in ForOperands : Plain(Source(w, x))
    BY AccessorKinds DEF ForOperands, Plain
<1>2. \A x \in {rd_b, rs_b} : Source(w, x).kind = "GPRSlice"
    BY DEF Source, rd_b, rs_b, Gpr, GprFields, FprFields
<1>3. \A x \in {ra_w, rd_w, rs_w} : Source(w, x).kind = "GPRSlice"
    BY AccessorKinds
<1>4. Source(w, ra_w).reg = w.a
    BY DEF Source, ra_w, GprFields, FprFields, RegField, Gpr
<1>5. Source(w, Special("simm")).kind = "SIMM" /\ Source(w, Special("simm")).val \in Int
    BY SignedFields DEF Source, Special, SpecialSource, GprFields, FprFields
<1>6. /\ Source(w, ra_or_zero).kind \in {"GPRSlice", "AuxImm"}
      /\ Source(w, ra_or_zero).kind = "AuxImm" => w.a = 0
      /\ Source(w, ra_or_zero).kind = "GPRSlice" => Source(w, ra_or_zero).reg = w.a
    BY DEF Source, ra_or_zero, GprFields, FprFields, Gpr
<1>7. ASSUME NEW x \in {Off("kS1"), Off("kS4")}
      PROVE  Source(w, x).kind = "MemRegOff" /\ Source(w, x).base = w.a
    BY OffsetSource DEF OfOffset, ValueTypes, Off
<1> QED
    BY <1>1, <1>2, <1>3, <1>4, <1>5, <1>6, <1>7

LEMMA InstructionPlaced ==
    ASSUME NEW w \in Word, NEW va
    PROVE  WellPlaced(Disasm(va, w))
<1> DEFINE i == Disasm(va, w)
           row == RowOf(w)
<1>1. FollowsRow(w, row, i) /\ Placed(row)
    BY InstructionRow, RowPlaced
<1>2. i.word = w
    BY DEF Disasm
<1>3. i.op \in OperandOps => "kWritesLR" \notin i.flags
    <2>1. NoLink(row) /\ i.op = row.op
        BY <1>1, RowNoLink DEF FollowsRow
    <2>2. i.flags = UNION {Flag(w, f) : f \in row.flags}
        BY DEF Disasm
    <2>3. \A f \in {"rc", "rc_fp", "l", "record", "oe", "w"} : "kWritesLR" \notin Flag(w, f)
        BY DEF Flag
    <2>4. \A flags \in OwnFlags : flags \subseteq {"rc", "rc_fp", "l", "record", "oe", "w"}
        BY DEF OwnFlags
    <2> HIDE DEF i, row
    <2> QED
        BY <2>1, <2>2, <2>3, <2>4 DEF NoLink
<1> HIDE DEF i, row
<1>4. i.op \in PairOps => 2 \in DOMAIN i.reads /\ Plain(i.reads[2])
    BY <1>1, OperandKinds DEF PairOps, Placed, FollowsRow
<1>5. i.op \in SingleOps =>
          /\ 1 \in DOMAIN i.reads /\ Plain(i.reads[1])
          /\ 1 \in DOMAIN i.writes /\ Plain(i.writes[1])
    BY <1>1, OperandKinds DEF PairOps, SingleOps, Placed, FollowsRow
<1>6. ASSUME i.op \in {"kAddi", "kAddis", "kAddic", "kAddicDot"}
      PROVE  /\ DOMAIN i.reads = 1 .. 2
             /\ i.reads[1].kind \in {"GPRSlice", "AuxImm"}
             /\ i.reads[1].kind = "AuxImm" => i.op \in {"kAddi", "kAddis"} /\ w.a = 0
             /\ i.reads[1].kind = "GPRSlice" => i.reads[1].reg = w.a
             /\ i.reads[2].kind = "SIMM" /\ i.reads[2].val \in Int
             /\ 1 \in DOMAIN i.writes /\ i.writes[1].kind = "GPRSlice"
    <2>1. /\ DOMAIN row.reads = 1 .. 2 /\ row.reads[2] = Special("simm")
          /\ 1 \in DOMAIN row.writes /\ row.writes[1] = rd_w
          /\ IF i.op \in {"kAddi", "kAddis"} THEN row.reads[1] = ra_or_zero
             ELSE row.reads[1] = ra_w
        BY <1>1, <1>6 DEF Placed, FollowsRow
    <2>2. /\ DOMAIN i.reads = 1 .. 2 /\ i.reads[2] = Source(w, Special("simm"))
          /\ i.reads[1] = Source(w, row.reads[1])
          /\ 1 \in DOMAIN i.writes /\ i.writes[1] = Source(w, rd_w)
        BY <1>1, <2>1 DEF FollowsRow
    <2> QED
        BY <2>1, <2>2, OperandKinds
<1>7. ASSUME i.op \in {"kLbz", "kLwz", "kLmw"}
      PROVE  /\ 1 \in DOMAIN i.reads /\ i.reads[1].kind = "MemRegOff"
             /\ i.reads[1].base = w.a
             /\ i.op # "kLmw" => 1 \in DOMAIN i.writes /\ i.writes[1].kind = "GPRSlice"
    <2>1. /\ 1 \in DOMAIN row.reads /\ row.reads[1] \in {Off("kS1"), Off("kS4")}
          /\ i.op # "kLmw" => 1 \in DOMAIN row.writes /\ row.writes[1] \in {rd_w, rd_b}
        BY <1>1, <1>7 DEF Placed, FollowsRow
    <2>2. /\ 1 \in DOMAIN i.reads /\ i.reads[1] = Source(w, row.reads[1])
          /\ i.op # "kLmw" => 1 \in DOMAIN i.writes /\ i.writes[1] = Source(w, row.writes[1])
        BY <1>1, <2>1 DEF FollowsRow
    <2> QED
        BY <2>1, <2>2, OperandKinds
<1>8. ASSUME i.op \in {"kStb", "kStw", "kStmw"}
      PROVE  /\ 1 \in DOMAIN i.writes /\ i.writes[1].kind = "MemRegOff"
             /\ i.writes[1].base = w.a
             /\ i.op # "kStmw" => 1 \in DOMAIN i.reads /\ i.reads[1].kind = "GPRSlice"
    <2>1. /\ 1 \in DOMAIN row.writes /\ row.writes[1] \in {Off("kS1"), Off("kS4")}
          /\ i.op # "kStmw" => 1 \in DOMAIN row.reads /\ row.reads[1] \in {rs_w, rs_b}
        BY <1>1, <1>8 DEF Placed, FollowsRow
    <2>2. /\ 1 \in DOMAIN i.writes /\ i.writes[1] = Source(w, row.writes[1])
          /\ i.op # "kStmw" => 1 \in DOMAIN i.reads /\ i.reads[1] = Source(w, row.reads[1])
        BY <1>1, <2>1 DEF FollowsRow
    <2> QED
        BY <2>1, <2>2, OperandKinds
<1>9. WellPlaced(i)
    BY <1>2, <1>3, <1>4, <1>5, <1>6, <1>7, <1>8 DEF WellPlaced
<1> QED
    BY <1>9 DEF i

=============================================================================
