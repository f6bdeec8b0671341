------------------------------ MODULE BinInst ------------------------------
(***************************************************************************)
(* src/ppc/BinInst.hh and DataSource.hh: the fields of a 32-bit word and   *)
(* the sources and destinations they stand for. An accessor of BinInst is  *)
(* a pair <<field, type>>; Source gives the value it has in a word.        *)
(***************************************************************************)
EXTENDS Integers, Sequences, FiniteSets

\* BinInst: bits 0-5, 6-10, 11-15, 16-20, 21-30 and 31.
Word == [opcd : 0 .. 63, d : 0 .. 31, a : 0 .. 31, b : 0 .. 31,
         ext : 0 .. 1023, rc : 0 .. 1]

-----------------------------------------------------------------------------
(* Fields *)

\* ext_range_signed: the value u of a field of the given size.
Signed(u, size) == IF u < 2 ^ (size - 1) THEN u ELSE u - 2 ^ size

Low(w) == w.b * 2 ^ 11 + w.ext * 2 + w.rc                     \* bits 16-31
simm(w) == Signed(Low(w), 16)
d20(w) == Signed(Low(w) % 2 ^ 12, 12)
bd(w) == 4 * Signed(Low(w) \div 4, 14)
li(w) == 4 * Signed((w.d * 2 ^ 21 + w.a * 2 ^ 16 + Low(w)) \div 4, 24)

\* spr and tbr: the two halves of the field are swapped.
Swapped(w) == w.b * 32 + w.a

RegField(w) == [ra |-> w.a, rb |-> w.b, rd |-> w.d, rs |-> w.d,
                fra |-> w.a, frb |-> w.b, frc |-> w.ext \div 32,
                frd |-> w.d, frs |-> w.d]

AuxField(w) == [bo |-> w.d, to |-> w.d, i17 |-> (w.b % 16) \div 2,
                i22 |-> (w.ext \div 64) % 8, imm |-> w.b \div 2,
                mb |-> w.ext \div 32, me |-> w.ext % 32, nb |-> w.b,
                sh |-> w.b, sr |-> w.a % 16, zero |-> 0]

\* CrSlice, from a bit number or from a field number.
Bit(n) == [kind |-> "CrSlice", field |-> n \div 4, bits |-> {n % 4}]
Field(n) == [kind |-> "CrSlice", field |-> n, bits |-> 0 .. 3]

CrField(w) == [bi |-> Bit(w.a), crba |-> Bit(w.a), crbb |-> Bit(w.b),
               crbd |-> Bit(w.d), crfd |-> Field(w.d \div 4),
               crfs |-> Field(w.a \div 4)]

WriteMask == (0 .. 31) \ {1, 2}
ExceptionMask == {0} \cup (3 .. 12) \cup (21 .. 23)

\* Bit masks as sets of bit numbers. crm, fpscrfd and fpscrfs shift four bits by
\* the number of the field, fm by four times that number.
MaskField(w) ==
    [crm |-> {i + k : i \in {n \in 0 .. 7 :
                  ((w.a * 32 + w.b) \div 2 ^ (8 - n)) % 2 = 1}, k \in 0 .. 3},
     fm |-> {4 * i + k : i \in {n \in 0 .. 7 :
                  ((w.d * 32 + w.a) \div 2 ^ (8 - n)) % 2 = 1}, k \in 0 .. 3}
            \cap WriteMask,
     fpscrbd |-> {w.d}, fpscrbd_fx |-> {w.d, 0},
     fpscrfd |-> {w.d \div 4 + k : k \in 0 .. 3} \cap WriteMask,
     fpscrfs |-> {w.a \div 4 + k : k \in 0 .. 3},
     fpscrfs_ex |-> {w.a \div 4 + k : k \in 0 .. 3} \cap ExceptionMask,
     all |-> 0 .. 31]

\* The flag accessors. oe and aa are the same bit.
Flag(w, f) ==
    CASE f = "rc" -> IF w.rc = 1 THEN {"kWritesRecord"} ELSE {}
      [] f = "rc_fp" -> IF w.rc = 1 THEN {"kWritesRecord", "kWritesFpRecord"} ELSE {}
      [] f = "lk" -> IF w.rc = 1 THEN {"kWritesLR"} ELSE {}
      [] f = "oe" -> IF w.ext % 2 = 1 THEN {"kWritesXER"} ELSE {}
      [] f = "aa" -> IF w.ext % 2 = 1 THEN {"kAbsoluteAddr"} ELSE {}
      [] f = "w" -> IF w.ext \div 512 = 1 THEN {"kPsLoadsOne"} ELSE {}
      [] f = "l" -> IF w.d % 2 = 1 THEN {"kLongMode"} ELSE {}
      [] f = "record" -> {"kWritesRecord"}

-----------------------------------------------------------------------------
(* Accessors and the values they have in a word *)

ra_w == <<"ra", "kS4">>
rb_w == <<"rb", "kS4">>
rd_w == <<"rd", "kS4">>
rs_w == <<"rs", "kS4">>
rd_h == <<"rd", "kS2">>
rs_h == <<"rs", "kS2">>
rd_b == <<"rd", "kS1">>
rs_b == <<"rs", "kS1">>
ra_or_zero == <<"ra_or_zero", "kS4">>    \* AuxImm{0} stands for r0
Off(type) == <<"d16", type>>             \* MemRegOff{ra, type, d16}
Off20 == <<"d20", "kPackedSingle">>
AtBase == <<"base", "kS1">>              \* MemRegOff{ra, kS1, 0}
Idx(type) == <<"index", type>>           \* MemRegReg{ra, type, rb}
Multi == <<"multi", "kS4">>              \* MultiReg{rs, kS4}
Spr(name) == <<"fixed", name>>
Fpr(field, type) == <<field, type>>
Cr(field) == <<field, "cr">>
Aux(field) == <<field, "aux">>
Mask(field) == <<field, "mask">>
Special(field) == <<field, "special">>

GprFields == {"ra", "rb", "rd", "rs"}
FprFields == {"fra", "frb", "frc", "frd", "frs"}

SpecialSource(w) ==
    [spr |-> [kind |-> "SPR", spr |-> Swapped(w)],
     tbr |-> [kind |-> "TBR", tbr |-> Swapped(w)],
     simm |-> [kind |-> "SIMM", val |-> simm(w)],
     uimm |-> [kind |-> "UIMM", val |-> Low(w)],
     bd |-> [kind |-> "RelBranch", rel |-> bd(w)],
     li |-> [kind |-> "RelBranch", rel |-> li(w)]]

SprNumber == [kXer |-> 1, kLr |-> 8, kCtr |-> 9]

Gpr(reg, type) == [kind |-> "GPRSlice", reg |-> reg, type |-> type]
MemRegOff(w, type, off) ==
    [kind |-> "MemRegOff", base |-> w.a, type |-> type, off |-> off]

Source(w, x) ==
    LET f == x[1]  t == x[2]
    IN  CASE f \in GprFields -> Gpr(RegField(w)[f], t)
          [] f \in FprFields ->
                [kind |-> "FPRSlice", reg |-> RegField(w)[f], type |-> t]
          [] f = "ra_or_zero" ->
                IF w.a # 0 THEN Gpr(w.a, t) ELSE [kind |-> "AuxImm", val |-> 0]
          [] f = "d16" -> MemRegOff(w, t, simm(w))
          [] f = "d20" -> MemRegOff(w, t, d20(w))
          [] f = "base" -> MemRegOff(w, t, 0)
          [] f = "index" ->
                [kind |-> "MemRegReg", base |-> w.a, type |-> t, index |-> w.b]
          [] f = "multi" -> [kind |-> "MultiReg", low |-> w.d, type |-> t]
          [] f = "fixed" -> [kind |-> "SPR", spr |-> SprNumber[t]]
          [] t = "cr" -> CrField(w)[f]
          [] f = "crm" -> [kind |-> "AuxImm", val |-> MaskField(w).crm]
          [] t = "mask" -> [kind |-> "FPSCRBit", bits |-> MaskField(w)[f]]
          [] t = "aux" /\ f # "crm" -> [kind |-> "AuxImm", val |-> AuxField(w)[f]]
          [] t = "special" -> SpecialSource(w)[f]

=============================================================================
