------------------------- MODULE DisassemblerProofs -------------------------
(***************************************************************************)
(* What the printer makes of a word, for every word. The shapes of the     *)
(* decoder's rows are in PpcDisasmProofs: each theorem is read off them,   *)
(* and the loop adds only that an instruction is what some word is decoded *)
(* to and a line what it prints.                                           *)
(***************************************************************************)
EXTENDS Disassembler, PpcDisasmProofs

-----------------------------------------------------------------------------
(* The lists of an instruction stay within what holds them *)

\* The indices of the list that stand for the stack pointer, as CapacityKept counts
\* them.
StackSlots(list) ==
    {k \in DOMAIN list : list[k].kind \in {"MemRegOff", "GPRSlice"}
                            /\ <<"r", 1>> \in Registers(list[k])}

LEMMA SlotsWithin ==
    ASSUME NEW list, NEW n \in Nat, DOMAIN list = 1 .. n, NEW m \in Nat,
           \A k \in 1 .. n : k > m => list[k].kind \notin {"MemRegOff", "GPRSlice"}
    PROVE  Cardinality(StackSlots(list)) \in Nat /\ Cardinality(StackSlots(list)) <= m
<1>1. StackSlots(list) \subseteq 1 .. m
    BY DEF StackSlots
<1>2. IsFiniteSet(1 .. m) /\ Cardinality(1 .. m) = m
    BY FS_Interval
<1> QED
    BY <1>1, <1>2, FS_Subset, FS_CardinalityType

\* What the reserved vectors have to hold for an instruction.
LEMMA InstructionFits ==
    ASSUME NEW w \in Word
    PROVE  LET i == Disasm(0, w)
           IN  /\ Len(i.reads) <= 4
               /\ Len(i.writes) <= 2
               /\ Cardinality(StackSlots(i.reads)) + Cardinality(StackSlots(i.writes)) <= 3
<1> DEFINE i == Disasm(0, w)
           row == RowOf(w)
<1>1. PICK n \in 0 .. 4, m \in 0 .. 2, l \in 0 .. 2 : ListsOf(w, row, i, n, m, l)
    BY InstructionLists
<1>2. Roomy(row)
    BY RowRoomy
<1> HIDE DEF i, row
<1>3. Len(i.reads) = n /\ DOMAIN i.reads = 1 .. n
    BY <1>1 DEF ListsOf
<1>4. ASSUME NEW p \in 0 .. 2, NEW q \in 0 .. 2, p + q <= 3,
             BasesWithin(row.reads, p), BasesWithin(row.writes, q)
      PROVE  Cardinality(StackSlots(i.reads)) + Cardinality(StackSlots(i.writes)) <= 3
    <2>1. \A k \in 1 .. n : k > p => i.reads[k].kind \notin {"MemRegOff", "GPRSlice"}
        BY <1>1, <1>4, NoBaseKind DEF ListsOf, BasesWithin
    <2>2. \A k \in 1 .. l : k > q => i.writes[k].kind \notin {"MemRegOff", "GPRSlice"}
        <3> SUFFICES ASSUME NEW k \in 1 .. l, k > q
                     PROVE  i.writes[k].kind \notin {"MemRegOff", "GPRSlice"}
            OBVIOUS
        <3>1. CASE k \in 1 .. m
            BY <1>1, <1>4, <3>1, NoBaseKind DEF ListsOf, BasesWithin
        <3>2. CASE k \in m + 1 .. l
            BY <1>1, <3>2 DEF ListsOf
        <3> QED
            BY <3>1, <3>2
    <2>3. Cardinality(StackSlots(i.reads)) \in Nat /\ Cardinality(StackSlots(i.reads)) <= p
        BY SMTT(30), <1>3, <2>1, SlotsWithin
    <2>4. DOMAIN i.writes = 1 .. l
        BY <1>1 DEF ListsOf
    <2>5. Cardinality(StackSlots(i.writes)) \in Nat /\ Cardinality(StackSlots(i.writes)) <= q
        BY <2>2, <2>4, SlotsWithin
    <2> QED
        BY <1>4, <2>3, <2>5
<1>5. Cardinality(StackSlots(i.reads)) + Cardinality(StackSlots(i.writes)) <= 3
    BY <1>2, <1>4 DEF Roomy
<1>6. Len(i.writes) <= 2
    BY <1>1 DEF ListsOf
<1> QED
    BY <1>3, <1>5, <1>6 DEF i

-----------------------------------------------------------------------------
(* The loop *)

\* The instruction is what some word is decoded to, and a printed line is the one
\* of the instruction.
Decoded == \E w \in Word : inst = Disasm(0, w)

Printed == pc = "printed" => line = write_inst_disassembly(inst)

LEMMA LoopInvariant == Spec => [](Decoded /\ Printed)
<1>1. Nothing = Disasm(0, [opcd |-> 0, d |-> 0, a |-> 0, b |-> 0, ext |-> 0, rc |-> 0])
      /\ [opcd |-> 0, d |-> 0, a |-> 0, b |-> 0, ext |-> 0, rc |-> 0] \in Word
    BY DEF Nothing, Word
<1>2. Init => Decoded /\ Printed
    BY <1>1 DEF Init, Decoded, Printed
<1>3. ASSUME Decoded, Printed, [Next]_vars
      PROVE  Decoded' /\ Printed'
    <2>1. CASE Fetch
        BY <2>1, WordsAssumption DEF Fetch, Decoded, Printed
    <2>2. CASE Write
        BY <1>3, <2>2 DEF Write, Decoded, Printed
    <2>3. CASE NewLine
        BY <1>1, <2>3 DEF NewLine, Decoded, Printed
    <2>4. CASE UNCHANGED vars
        BY <1>3, <2>4 DEF vars, Decoded, Printed
    <2> QED
        BY <1>3, <2>1, <2>2, <2>3, <2>4 DEF Next
<1> QED
    BY <1>2, <1>3, PTL DEF Spec

\* The reserved vectors of a MetaInst and of analyze_block hold what the decoder
\* puts into them, whatever the words (PpcDisasm.hh:249, SubroutineStack.cc:45).
THEOREM CapacityAlwaysKept == Spec => []CapacityKept
<1>1. Decoded => CapacityKept
    <2> SUFFICES ASSUME Decoded
                 PROVE  CapacityKept
        OBVIOUS
    <2>1. PICK w \in Word : inst = Disasm(0, w)
        BY DEF Decoded
    <2>2. /\ Len(inst.reads) <= 4
          /\ Len(inst.writes) <= 2
          /\ Cardinality(StackSlots(inst.reads)) + Cardinality(StackSlots(inst.writes)) <= 3
        BY <2>1, InstructionFits
    <2> QED
        BY <2>2 DEF CapacityKept, StackSlots
<1> QED
    BY <1>1, LoopInvariant, PTL

-----------------------------------------------------------------------------
(* Positions *)

\* The list has one of the kinds at k.
Kind(list, k, kinds) == k <= Len(list) /\ list[k].kind \in kinds

\* What Asked says of the lists of an instruction.
Answered(i) ==
    /\ i.op = "kB" => Kind(i.reads, 1, {"RelBranch"})
    /\ i.op = "kBc" => Kind(i.reads, 3, {"RelBranch"}) /\ Kind(i.reads, 1, {"CrSlice"})
    /\ i.op \in AddsImmediate =>
           /\ Kind(i.reads, 1, {"GPRSlice", "AuxImm"}) /\ Kind(i.reads, 2, {"SIMM"})
           /\ Kind(i.writes, 1, {"GPRSlice"})
    /\ i.op \in {"kAddi", "kAddis"} =>
           (i.reads[1].kind = "GPRSlice" <=> i.word.a # 0)
    /\ i.op \in {"kStb", "kStw", "kStmw", "kStwu"} => Kind(i.writes, 1, {"MemRegOff"})
    /\ i.op \in {"kStb", "kStw"} => Kind(i.reads, 1, {"GPRSlice"})
    /\ i.op = "kStmw" => Kind(i.reads, 1, {"MultiReg"})
    /\ i.op \in {"kLbz", "kLwz", "kLmw"} => Kind(i.reads, 1, {"MemRegOff"})
    /\ i.op \in {"kLbz", "kLwz"} => Kind(i.writes, 1, {"GPRSlice"})
    /\ i.op = "kLmw" => Kind(i.writes, 1, {"MultiReg"})
    /\ i.op \in {"kAdd", "kAddc", "kAdde", "kMulli", "kMullw", "kSubf", "kCmp", "kCmpi",
                 "kCmpl", "kCmpli", "kOr"} =>
           /\ Kind(i.reads, 1, Translatable) /\ Kind(i.reads, 2, Translatable)
           /\ Kind(i.writes, 1, Translatable)
    /\ i.op \in {"kAddme", "kAddze"} =>
           Kind(i.reads, 1, Translatable) /\ Kind(i.writes, 1, Translatable)

\* ra_or_zero is a register but for the number 0.
LEMMA BaseIs ==
    ASSUME NEW w \in Word
    PROVE  Source(w, ra_or_zero).kind = "GPRSlice" <=> w.a # 0
BY DEF Source, ra_or_zero, GprFields, FprFields, Gpr

LEMMA RowAnswers ==
    ASSUME NEW w \in Word, NEW i, NEW row, Placed(row), row.op = i.op, i.word = w,
           NEW n \in 0 .. 4, NEW m \in 0 .. 2, NEW l \in 0 .. 2,
           ListsOf(w, row, i, n, m, l)
    PROVE  Answered(i)
<1>1. ListsOf(w, row, i, n, m, l)
    OBVIOUS
<1>2. Placed(row) /\ row.op = i.op
    OBVIOUS
<1>3. ASSUME NEW k \in DOMAIN row.reads, NEW kinds, Source(w, row.reads[k]).kind \in kinds
      PROVE  Kind(i.reads, k, kinds)
    BY <1>1, <1>3 DEF ListsOf, Kind
<1>4. ASSUME NEW k \in DOMAIN row.writes, NEW kinds, Source(w, row.writes[k]).kind \in kinds
      PROVE  Kind(i.writes, k, kinds)
    BY <1>1, <1>4 DEF ListsOf, Kind
<1>5. ASSUME NEW x \in ForOperands
      PROVE  Source(w, x).kind \in Translatable
    BY AccessorKinds DEF ForOperands, Translatable
<1>6. CASE i.op = "kB"
    <2>1. 1 \in DOMAIN row.reads /\ row.reads[1] = Special("li")
        BY <1>2, <1>6 DEF Placed
    <2>2. Kind(i.reads, 1, {"RelBranch"})
        BY <1>3, <2>1, AccessorKinds
    <2> QED
        BY <1>6, <2>2 DEF Answered, AddsImmediate
<1>7. CASE i.op = "kBc"
    <2>1. /\ 3 \in DOMAIN row.reads /\ row.reads[3] = Special("bd")
          /\ 1 \in DOMAIN row.reads /\ row.reads[1] = Cr("bi")
        BY <1>2, <1>7 DEF Placed
    <2>2. Kind(i.reads, 3, {"RelBranch"}) /\ Kind(i.reads, 1, {"CrSlice"})
        BY <1>3, <2>1, AccessorKinds
    <2> QED
        BY <1>7, <2>2 DEF Answered, AddsImmediate
<1>8. CASE i.op \in AddsImmediate
    <2>1. /\ 2 \in DOMAIN row.reads /\ row.reads[2] = Special("simm")
          /\ 1 \in DOMAIN row.reads /\ row.reads[1] \in {ra_w, ra_or_zero}
          /\ i.op \in {"kAddi", "kAddis"} => row.reads[1] = ra_or_zero
          /\ 1 \in DOMAIN row.writes /\ row.writes[1] = rd_w
        BY <1>2, <1>8 DEF Placed, AddsImmediate
    <2>2. Kind(i.reads, 2, {"SIMM"}) /\ Kind(i.writes, 1, {"GPRSlice"})
        BY <1>3, <1>4, <2>1, AccessorKinds
    <2>3. Kind(i.reads, 1, {"GPRSlice", "AuxImm"})
        BY <1>3, <2>1, OperandKinds
    <2>4. i.op \in {"kAddi", "kAddis"} => (i.reads[1].kind = "GPRSlice" <=> w.a # 0)
        <3>1. i.reads[1] = Source(w, row.reads[1])
            BY <1>1, <2>1 DEF ListsOf
        <3> QED
            BY <2>1, <3>1, BaseIs
    <2> QED
        BY <1>8, <2>2, <2>3, <2>4 DEF Answered, AddsImmediate
<1>9. CASE i.op \in {"kStb", "kStw", "kStwu", "kStmw"}
    <2>1. /\ 1 \in DOMAIN row.writes /\ row.writes[1] \in {Off("kS1"), Off("kS4")}
          /\ i.op \in {"kStb", "kStw"} => 1 \in DOMAIN row.reads /\ row.reads[1] \in {rs_w, rs_b}
          /\ i.op = "kStmw" => 1 \in DOMAIN row.reads /\ row.reads[1] = Multi
        BY <1>2, <1>9 DEF Placed
    <2>2. Kind(i.writes, 1, {"MemRegOff"})
        BY <1>4, <2>1, OperandKinds
    <2>3. i.op \in {"kStb", "kStw"} => Kind(i.reads, 1, {"GPRSlice"})
        BY <1>3, <2>1, OperandKinds
    <2>4. i.op = "kStmw" => Kind(i.reads, 1, {"MultiReg"})
        BY <1>3, <2>1, AccessorKinds
    <2> QED
        BY <1>9, <2>2, <2>3, <2>4 DEF Answered, AddsImmediate
<1>10. CASE i.op \in {"kLbz", "kLwz", "kLmw"}
    <2>1. /\ 1 \in DOMAIN row.reads /\ row.reads[1] \in {Off("kS1"), Off("kS4")}
          /\ 1 \in DOMAIN row.writes
          /\ i.op \in {"kLbz", "kLwz"} => row.writes[1] \in {rd_w, rd_b}
          /\ i.op = "kLmw" => row.writes[1] = Multi
        BY <1>2, <1>10 DEF Placed
    <2>2. Kind(i.reads, 1, {"MemRegOff"})
        BY <1>3, <2>1, OperandKinds
    <2>3. i.op \in {"kLbz", "kLwz"} => Kind(i.writes, 1, {"GPRSlice"})
        BY <1>4, <2>1, OperandKinds
    <2>4. i.op = "kLmw" => Kind(i.writes, 1, {"MultiReg"})
        BY <1>4, <2>1, AccessorKinds
    <2> QED
        BY <1>10, <2>2, <2>3, <2>4 DEF Answered, AddsImmediate
<1>11. CASE i.op \in {"kAdd", "kAddc", "kAdde", "kMulli", "kMullw", "kSubf", "kCmp", "kCmpi",
                     "kCmpl", "kCmpli", "kOr", "kAddme", "kAddze"}
    <2>1. /\ 1 \in DOMAIN row.reads /\ row.reads[1] \in ForOperands
          /\ 1 \in DOMAIN row.writes /\ row.writes[1] \in ForOperands
        BY <1>2, <1>11 DEF Placed
    <2>2. i.op \notin {"kAddme", "kAddze"} => 2 \in DOMAIN row.reads /\ row.reads[2] \in ForOperands
        BY <1>2, <1>11 DEF Placed
    <2>3. Kind(i.reads, 1, Translatable) /\ Kind(i.writes, 1, Translatable)
        BY <1>3, <1>4, <1>5, <2>1
    <2>4. i.op \notin {"kAddme", "kAddze"} => Kind(i.reads, 2, Translatable)
        BY <1>3, <1>5, <2>2
    <2> QED
        BY <1>11, <2>3, <2>4 DEF Answered, AddsImmediate
<1>12. CASE i.op \notin AskedOps
    BY <1>12 DEF Answered, AskedOps, AddsImmediate
<1> QED
    BY <1>6, <1>7, <1>8, <1>9, <1>10, <1>11, <1>12 DEF AskedOps, AddsImmediate

LEMMA InstructionAnswers == \A w \in Word : Answered(Disasm(0, w))
<1> SUFFICES ASSUME NEW w \in Word
             PROVE  Answered(Disasm(0, w))
    OBVIOUS
<1>1. PICK n \in 0 .. 4, m \in 0 .. 2, l \in 0 .. 2 :
          ListsOf(w, RowOf(w), Disasm(0, w), n, m, l)
    BY InstructionLists
<1>2. Placed(RowOf(w)) /\ RowOf(w).op = Disasm(0, w).op
    BY RowPlaced DEF Disasm
<1>3. Disasm(0, w).word = w
    BY DEF Disasm
<1> QED
    BY <1>1, <1>2, <1>3, RowAnswers

\* Where a later pass takes an operand by its position in a list and by its kind,
\* the decoder has put one of that kind there, whatever the words, but for the base
\* register of li and lis, which have none (PpcDisasm.hh:280, Perilogue.cc:50, 107,
\* GekkoTranslator.cc:239, 269).
THEOREM PositionsAlwaysAgreed == Spec => []PositionsAgreed
<1>1. Decoded => PositionsAgreed
    <2>0. ASSUME Decoded
          PROVE  inst.op \in {"kAddi", "kAddis"} =>
                     (inst.reads[1].kind = "GPRSlice" <=> inst.word.a # 0)
        BY <2>0, InstructionAnswers DEF Decoded, Answered
    <2> SUFFICES ASSUME Decoded, NEW q \in Asked, inst.op \in q[4]
                 PROVE  Kind(inst[q[1]], q[2], q[3])
        BY <2>0 DEF PositionsAgreed, Kind
    <2>1. Answered(inst)
        BY InstructionAnswers DEF Decoded
    <2>2. CASE q \in {<<list, 1, Translatable, {"kAddme", "kAddze"}>> : list \in {"reads", "writes"}}
        BY <2>1, <2>2 DEF Answered
    <2>3. CASE q \in {<<at[1], at[2], Translatable,
                        {"kAdd", "kAddc", "kAdde", "kMulli", "kMullw", "kSubf", "kCmp", "kCmpi",
                         "kCmpl", "kCmpli", "kOr"}>> :
                        at \in {<<"writes", 1>>, <<"reads", 1>>, <<"reads", 2>>}}
        BY <2>1, <2>3 DEF Answered
    <2>4. CASE q \in {<<"reads", 1, {"RelBranch"}, {"kB"}>>,
                     <<"reads", 3, {"RelBranch"}, {"kBc"}>>,
                     <<"reads", 1, {"CrSlice"}, {"kBc"}>>,
                     <<"reads", 1, {"GPRSlice", "AuxImm"}, AddsImmediate>>,
                     <<"reads", 2, {"SIMM"}, AddsImmediate>>,
                     <<"writes", 1, {"GPRSlice"}, AddsImmediate>>}
        BY <2>1, <2>4 DEF Answered
    <2>5. CASE q \in {<<"writes", 1, {"MemRegOff"}, {"kStb", "kStw", "kStmw", "kStwu"}>>,
                     <<"reads", 1, {"GPRSlice"}, {"kStb", "kStw"}>>,
                     <<"reads", 1, {"MultiReg"}, {"kStmw"}>>,
                     <<"reads", 1, {"MemRegOff"}, {"kLbz", "kLwz", "kLmw"}>>,
                     <<"writes", 1, {"GPRSlice"}, {"kLbz", "kLwz"}>>,
                     <<"writes", 1, {"MultiReg"}, {"kLmw"}>>}
        BY <2>1, <2>5 DEF Answered
    <2> QED
        BY <2>2, <2>3, <2>4, <2>5 DEF Asked
<1> QED
    BY <1>1, LoopInvariant, PTL

-----------------------------------------------------------------------------
(* Counters *)

\* bo_type_from_imm is total, and what it calls counting is the bit that the
\* decoder looks at.
LEMMA BranchTypes ==
    ASSUME NEW d \in 0 .. 31
    PROVE  /\ BOType(d) # "kInvalid"
           /\ BOType(d) \in Counting <=> (d \div 4) % 2 = 0
<1>1. /\ BoBit(d, 16) \in 0 .. 1 /\ BoBit(d, 8) \in 0 .. 1
      /\ BoBit(d, 4) \in 0 .. 1 /\ BoBit(d, 2) \in 0 .. 1
    BY DEF BoBit
<1>2. BoBit(d, 4) = (d \div 4) % 2
    BY DEF BoBit
<1>3. BOType(d) # "kInvalid"
    BY <1>1 DEF BOType
<1>4. BOType(d) \in Counting <=> BoBit(d, 4) = 0
    BY <1>1 DEF BOType, Counting
<1> QED
    BY <1>2, <1>3, <1>4

\* What a branch that may count writes.
LEMMA BranchWrites ==
    ASSUME NEW w \in Word, Disasm(0, w).op \in {"kBc", "kBclr"}
    PROVE  Disasm(0, w).writes = IF (w.d \div 4) % 2 = 0 THEN <<Source(w, Spr("kCtr"))>> ELSE <<>>
<1> DEFINE row == RowOf(w)
           counter == CounterWrite(w, row.op)
<1>1. Disasm(0, w).op = row.op
    BY DEF Disasm
<1>2. FpscrBits(w) = {} /\ row.writes = <<>>
    <2>1. ShapeOf(w, row) /\ (NoRow(row) \/ AnyShape(row))
        BY RowOfShape, RowOfAnyShape
    <2> HIDE DEF row
    <2> QED
        BY <1>1, <2>1, BranchesSetNoBits
<1>3. counter = IF (w.d \div 4) % 2 = 0 THEN <<Source(w, Spr("kCtr"))>> ELSE <<>>
    BY <1>1 DEF CounterWrite
<1>4. Pushed(w, <<>>) = <<>>
    BY DEF Pushed
<1>5. Disasm(0, w).writes = <<>> \o counter \o <<>>
    BY <1>2, <1>4 DEF Disasm, FpscrWrite
<1>6. counter \in Seq({Source(w, Spr("kCtr"))})
    <2>1. CASE counter = <<>>
        BY <2>1
    <2>2. CASE counter = <<Source(w, Spr("kCtr"))>>
        BY <2>2
    <2> QED
        BY <1>3, <2>1, <2>2
<1> HIDE DEF counter
<1>7. <<>> \o counter = counter /\ counter \o <<>> = counter
    BY <1>6, ConcatEmptySeq
<1> QED
    BY <1>3, <1>5, <1>7

\* A branch says that it writes the counter just when its BO is one that counts, and
\* bo_type_from_imm has a type for every BO, whatever the words (PpcDisasm.cc:255,
\* 1572, GekkoTranslator.cc:736).
THEOREM CountersAlwaysAgree == Spec => []CountersAgree
<1>1. Decoded => CountersAgree
    <2> SUFFICES ASSUME Decoded, inst.op \in {"kBc", "kBclr"}
                 PROVE  /\ Source(inst.word, Spr("kCtr")) \in Range(inst.writes)
                              <=> BOType(inst.word.d) \in Counting
                        /\ BOType(inst.word.d) # "kInvalid"
        BY DEF CountersAgree
    <2>1. PICK w \in Word : inst = Disasm(0, w)
        BY DEF Decoded
    <2>2. inst.word = w /\ w.d \in 0 .. 31
        BY <2>1 DEF Disasm, Word
    <2>3. inst.writes = IF (w.d \div 4) % 2 = 0 THEN <<Source(w, Spr("kCtr"))>> ELSE <<>>
        BY <2>1, BranchWrites
    <2>4. Source(w, Spr("kCtr")) \in Range(inst.writes) <=> (w.d \div 4) % 2 = 0
        BY <2>3 DEF Range
    <2> QED
        BY <2>2, <2>4, BranchTypes
<1> QED
    BY <1>1, LoopInvariant, PTL

-----------------------------------------------------------------------------
(* Updating forms *)

\* The row of an updating form and that of the plain one.
Twins(r, plain) ==
    /\ plain.op \notin UpdateOps \cup {"kInvalid", "kBc", "kBclr"}
    /\ r.reads = plain.reads
    /\ \E x : plain.writes = <<x>> /\ r.writes = <<x, ra_w>>
    /\ r.flags = plain.flags

HasCode(rows, code) == \E r \in rows : r.code = code

LEMMA RowsCode ==
    ASSUME NEW codes, NEW reads, NEW writes, NEW flags, NEW op \in DOMAIN codes
    PROVE  HasCode(Rows(codes, reads, writes, flags), codes[op])
<1> DEFINE r == [code |-> codes[op], op |-> op, reads |-> reads, writes |-> writes,
                 flags |-> flags]
<1>1. r \in Rows(codes, reads, writes, flags)
    BY DEF Rows
<1>2. r.code = codes[op]
    OBVIOUS
<1> HIDE DEF r
<1> QED
    BY <1>1, <1>2 DEF HasCode

\* The table has the plain code of a load or store.
LEMMA PlainCode ==
    ASSUME NEW plain, NEW update, NEW reads, NEW writes, NEW flags,
           NEW op \in DOMAIN plain
    PROVE  HasCode(PlainAndUpdate(plain, update, reads, writes, flags), plain[op])
BY RowsCode DEF PlainAndUpdate, HasCode

LEMMA OffsetLoadUpdates ==
    ASSUME NEW r, OffsetLoadShape(r), r.op \in UpdateOps
    PROVE  \/ /\ r.code = 33 /\ r.flags = {}
              /\ Lists(r, <<Off("kS4")>>, <<rd_w, ra_w>>)
           \/ /\ r.code = 35 /\ r.flags = {}
              /\ Lists(r, <<Off("kS1")>>, <<rd_b, ra_w>>)
           \/ /\ r.code \in {41, 43} /\ r.flags = {}
              /\ Lists(r, <<Off("kS2")>>, <<rd_h, ra_w>>)
           \/ /\ r.code = 49 /\ r.flags = {}
              /\ Lists(r, <<Off("kSingle")>>, <<Single("frd"), ra_w>>)
           \/ /\ r.code = 51 /\ r.flags = {}
              /\ Lists(r, <<Off("kDouble")>>, <<Double("frd"), ra_w>>)
           \/ /\ r.code = 57 /\ r.flags = {"w"}
              /\ Lists(r, <<Off20, Aux("i17")>>, <<Packed("frd"), ra_w>>)
BY DEF OffsetLoadShape, Has, Codes, UpdateOps

LEMMA OffsetLoadPlain ==
    ASSUME NEW r, OffsetLoadShape(r),
           r.code \in {32, 34, 40, 42, 48, 50, 56}
    PROVE  /\ r.op \notin UpdateOps \cup {"kInvalid", "kBc", "kBclr"}
           /\ \/ /\ r.code = 32 /\ r.flags = {}
                 /\ Lists(r, <<Off("kS4")>>, <<rd_w>>)
              \/ /\ r.code = 34 /\ r.flags = {}
                 /\ Lists(r, <<Off("kS1")>>, <<rd_b>>)
              \/ /\ r.code \in {40, 42} /\ r.flags = {}
                 /\ Lists(r, <<Off("kS2")>>, <<rd_h>>)
              \/ /\ r.code = 48 /\ r.flags = {}
                 /\ Lists(r, <<Off("kSingle")>>, <<Single("frd")>>)
              \/ /\ r.code = 50 /\ r.flags = {}
                 /\ Lists(r, <<Off("kDouble")>>, <<Double("frd")>>)
              \/ /\ r.code = 56 /\ r.flags = {"w"}
                 /\ Lists(r, <<Off20, Aux("i17")>>, <<Packed("frd")>>)
BY DEF OffsetLoadShape, Has, Codes, UpdateOps

LEMMA OffsetLoadCodes ==
    \A c \in {32, 34, 40, 42, 48, 50, 56} : HasCode(OffsetLoadRows, c)
<1>1. HasCode(OffsetLoadRows, 32)
    <2>1. "kLwz" \in DOMAIN [kLwz |-> 32] /\ [kLwz |-> 32]["kLwz"] = 32
        OBVIOUS
    <2>2. HasCode(PlainAndUpdate([kLwz |-> 32],
                                [kLwzu |-> 33], <<Off("kS4")>>, <<rd_w>>, {}), 32)
        BY <2>1, PlainCode
    <2> QED
        BY SMTT(30), <2>2 DEF HasCode, OffsetLoadRows
<1>2. HasCode(OffsetLoadRows, 34)
    <2>1. "kLbz" \in DOMAIN [kLbz |-> 34] /\ [kLbz |-> 34]["kLbz"] = 34
        OBVIOUS
    <2>2. HasCode(PlainAndUpdate([kLbz |-> 34],
                                [kLbzu |-> 35], <<Off("kS1")>>, <<rd_b>>, {}), 34)
        BY <2>1, PlainCode
    <2> QED
        BY SMTT(30), <2>2 DEF HasCode, OffsetLoadRows
<1>3. HasCode(OffsetLoadRows, 40)
    <2>1. "kLhz" \in DOMAIN [kLhz |-> 40, kLha |-> 42] /\ [kLhz |-> 40, kLha |-> 42]["kLhz"] = 40
        OBVIOUS
    <2>2. HasCode(PlainAndUpdate([kLhz |-> 40, kLha |-> 42],
                                [kLhzu |-> 41, kLhau |-> 43], <<Off("kS2")>>, <<rd_h>>, {}), 40)
        BY <2>1, PlainCode
    <2> QED
        BY SMTT(30), <2>2 DEF HasCode, OffsetLoadRows
<1>4. HasCode(OffsetLoadRows, 42)
    <2>1. "kLha" \in DOMAIN [kLhz |-> 40, kLha |-> 42] /\ [kLhz |-> 40, kLha |-> 42]["kLha"] = 42
        OBVIOUS
    <2>2. HasCode(PlainAndUpdate([kLhz |-> 40, kLha |-> 42],
                                [kLhzu |-> 41, kLhau |-> 43], <<Off("kS2")>>, <<rd_h>>, {}), 42)
        BY <2>1, PlainCode
    <2> QED
        BY SMTT(30), <2>2 DEF HasCode, OffsetLoadRows
<1>5. HasCode(OffsetLoadRows, 48)
    <2>1. "kLfs" \in DOMAIN [kLfs |-> 48] /\ [kLfs |-> 48]["kLfs"] = 48
        OBVIOUS
    <2>2. HasCode(PlainAndUpdate([kLfs |-> 48],
                                [kLfsu |-> 49], <<Off("kSingle")>>, <<Single("frd")>>, {}), 48)
        BY <2>1, PlainCode
    <2> QED
        BY SMTT(30), <2>2 DEF HasCode, OffsetLoadRows
<1>6. HasCode(OffsetLoadRows, 50)
    <2>1. "kLfd" \in DOMAIN [kLfd |-> 50] /\ [kLfd |-> 50]["kLfd"] = 50
        OBVIOUS
    <2>2. HasCode(PlainAndUpdate([kLfd |-> 50],
                                [kLfdu |-> 51], <<Off("kDouble")>>, <<Double("frd")>>, {}), 50)
        BY <2>1, PlainCode
    <2> QED
        BY SMTT(30), <2>2 DEF HasCode, OffsetLoadRows
<1>7. HasCode(OffsetLoadRows, 56)
    <2>1. "kPsq_l" \in DOMAIN [kPsq_l |-> 56] /\ [kPsq_l |-> 56]["kPsq_l"] = 56
        OBVIOUS
    <2>2. HasCode(PlainAndUpdate([kPsq_l |-> 56],
                                [kPsq_lu |-> 57], <<Off20, Aux("i17")>>, <<Packed("frd")>>, {"w"}), 56)
        BY <2>1, PlainCode
    <2> QED
        BY SMTT(30), <2>2 DEF HasCode, OffsetLoadRows
<1> QED
    BY <1>1, <1>2, <1>3, <1>4, <1>5, <1>6, <1>7

LEMMA OffsetStoreUpdates ==
    ASSUME NEW r, OffsetStoreShape(r), r.op \in UpdateOps
    PROVE  \/ /\ r.code = 37 /\ r.flags = {}
              /\ Lists(r, <<rs_w>>, <<Off("kS4"), ra_w>>)
           \/ /\ r.code = 39 /\ r.flags = {}
              /\ Lists(r, <<rs_b>>, <<Off("kS1"), ra_w>>)
           \/ /\ r.code = 45 /\ r.flags = {}
              /\ Lists(r, <<rs_h>>, <<Off("kS2"), ra_w>>)
           \/ /\ r.code = 53 /\ r.flags = {}
              /\ Lists(r, <<Single("frs")>>, <<Off("kSingle"), ra_w>>)
           \/ /\ r.code = 55 /\ r.flags = {}
              /\ Lists(r, <<Double("frs")>>, <<Off("kDouble"), ra_w>>)
           \/ /\ r.code = 61 /\ r.flags = {"w"}
              /\ Lists(r, <<Packed("frs"), Aux("i17")>>, <<Off20, ra_w>>)
BY DEF OffsetStoreShape, Has, Codes, UpdateOps

LEMMA OffsetStorePlain ==
    ASSUME NEW r, OffsetStoreShape(r),
           r.code \in {36, 38, 44, 52, 54, 60}
    PROVE  /\ r.op \notin UpdateOps \cup {"kInvalid", "kBc", "kBclr"}
           /\ \/ /\ r.code = 36 /\ r.flags = {}
                 /\ Lists(r, <<rs_w>>, <<Off("kS4")>>)
              \/ /\ r.code = 38 /\ r.flags = {}
                 /\ Lists(r, <<rs_b>>, <<Off("kS1")>>)
              \/ /\ r.code = 44 /\ r.flags = {}
                 /\ Lists(r, <<rs_h>>, <<Off("kS2")>>)
              \/ /\ r.code = 52 /\ r.flags = {}
                 /\ Lists(r, <<Single("frs")>>, <<Off("kSingle")>>)
              \/ /\ r.code = 54 /\ r.flags = {}
                 /\ Lists(r, <<Double("frs")>>, <<Off("kDouble")>>)
              \/ /\ r.code = 60 /\ r.flags = {"w"}
                 /\ Lists(r, <<Packed("frs"), Aux("i17")>>, <<Off20>>)
BY DEF OffsetStoreShape, Has, Codes, UpdateOps

LEMMA OffsetStoreCodes ==
    \A c \in {36, 38, 44, 52, 54, 60} : HasCode(OffsetStoreRows, c)
<1>1. HasCode(OffsetStoreRows, 36)
    <2>1. "kStw" \in DOMAIN [kStw |-> 36] /\ [kStw |-> 36]["kStw"] = 36
        OBVIOUS
    <2>2. HasCode(PlainAndUpdate([kStw |-> 36],
                                [kStwu |-> 37], <<rs_w>>, <<Off("kS4")>>, {}), 36)
        BY <2>1, PlainCode
    <2> QED
        BY SMTT(30), <2>2 DEF HasCode, OffsetStoreRows
<1>2. HasCode(OffsetStoreRows, 38)
    <2>1. "kStb" \in DOMAIN [kStb |-> 38] /\ [kStb |-> 38]["kStb"] = 38
        OBVIOUS
    <2>2. HasCode(PlainAndUpdate([kStb |-> 38],
                                [kStbu |-> 39], <<rs_b>>, <<Off("kS1")>>, {}), 38)
        BY <2>1, PlainCode
    <2> QED
        BY SMTT(30), <2>2 DEF HasCode, OffsetStoreRows
<1>3. HasCode(OffsetStoreRows, 44)
    <2>1. "kSth" \in DOMAIN [kSth |-> 44] /\ [kSth |-> 44]["kSth"] = 44
        OBVIOUS
    <2>2. HasCode(PlainAndUpdate([kSth |-> 44],
                                [kSthu |-> 45], <<rs_h>>, <<Off("kS2")>>, {}), 44)
        BY <2>1, PlainCode
    <2> QED
        BY SMTT(30), <2>2 DEF HasCode, OffsetStoreRows
<1>4. HasCode(OffsetStoreRows, 52)
    <2>1. "kStfs" \in DOMAIN [kStfs |-> 52] /\ [kStfs |-> 52]["kStfs"] = 52
        OBVIOUS
    <2>2. HasCode(PlainAndUpdate([kStfs |-> 52],
                                [kStfsu |-> 53], <<Single("frs")>>, <<Off("kSingle")>>, {}), 52)
        BY <2>1, PlainCode
    <2> QED
        BY SMTT(30), <2>2 DEF HasCode, OffsetStoreRows
<1>5. HasCode(OffsetStoreRows, 54)
    <2>1. "kStfd" \in DOMAIN [kStfd |-> 54] /\ [kStfd |-> 54]["kStfd"] = 54
        OBVIOUS
    <2>2. HasCode(PlainAndUpdate([kStfd |-> 54],
                                [kStfdu |-> 55], <<Double("frs")>>, <<Off("kDouble")>>, {}), 54)
        BY <2>1, PlainCode
    <2> QED
        BY SMTT(30), <2>2 DEF HasCode, OffsetStoreRows
<1>6. HasCode(OffsetStoreRows, 60)
    <2>1. "kPsq_st" \in DOMAIN [kPsq_st |-> 60] /\ [kPsq_st |-> 60]["kPsq_st"] = 60
        OBVIOUS
    <2>2. HasCode(PlainAndUpdate([kPsq_st |-> 60],
                                [kPsq_stu |-> 61], <<Packed("frs"), Aux("i17")>>, <<Off20>>, {"w"}), 60)
        BY <2>1, PlainCode
    <2> QED
        BY SMTT(30), <2>2 DEF HasCode, OffsetStoreRows
<1> QED
    BY <1>1, <1>2, <1>3, <1>4, <1>5, <1>6

LEMMA IndexedLoadUpdates ==
    ASSUME NEW r, IndexedLoadShape(r), r.op \in UpdateOps
    PROVE  \/ /\ r.code = 119 /\ r.flags = {}
              /\ Lists(r, <<Idx("kS1")>>, <<rd_b, ra_w>>)
           \/ /\ r.code \in {311, 375} /\ r.flags = {}
              /\ Lists(r, <<Idx("kS2")>>, <<rd_h, ra_w>>)
           \/ /\ r.code = 567 /\ r.flags = {}
              /\ Lists(r, <<Idx("kSingle")>>, <<Single("frd"), ra_w>>)
           \/ /\ r.code = 631 /\ r.flags = {}
              /\ Lists(r, <<Idx("kDouble")>>, <<Double("frd"), ra_w>>)
BY DEF IndexedLoadShape, Has, Codes, UpdateOps

LEMMA IndexedLoadPlain ==
    ASSUME NEW r, IndexedLoadShape(r),
           r.code \in {87, 279, 343, 535, 599}
    PROVE  /\ r.op \notin UpdateOps \cup {"kInvalid", "kBc", "kBclr"}
           /\ \/ /\ r.code = 87 /\ r.flags = {}
                 /\ Lists(r, <<Idx("kS1")>>, <<rd_b>>)
              \/ /\ r.code \in {279, 343} /\ r.flags = {}
                 /\ Lists(r, <<Idx("kS2")>>, <<rd_h>>)
              \/ /\ r.code = 535 /\ r.flags = {}
                 /\ Lists(r, <<Idx("kSingle")>>, <<Single("frd")>>)
              \/ /\ r.code = 599 /\ r.flags = {}
                 /\ Lists(r, <<Idx("kDouble")>>, <<Double("frd")>>)
BY DEF IndexedLoadShape, Has, Codes, UpdateOps

LEMMA IndexedLoadCodes ==
    \A c \in {87, 279, 343, 535, 599} : HasCode(IndexedLoadRows, c)
<1>1. HasCode(IndexedLoadRows, 87)
    <2>1. "kLbzx" \in DOMAIN [kLbzx |-> 87] /\ [kLbzx |-> 87]["kLbzx"] = 87
        OBVIOUS
    <2>2. HasCode(PlainAndUpdate([kLbzx |-> 87],
                                [kLbzux |-> 119], <<Idx("kS1")>>, <<rd_b>>, {}), 87)
        BY <2>1, PlainCode
    <2> QED
        BY SMTT(30), <2>2 DEF HasCode, IndexedLoadRows
<1>2. HasCode(IndexedLoadRows, 279)
    <2>1. "kLhzx" \in DOMAIN [kLhzx |-> 279, kLhax |-> 343, kLhbrx |-> 790] /\ [kLhzx |-> 279, kLhax |-> 343, kLhbrx |-> 790]["kLhzx"] = 279
        OBVIOUS
    <2>2. HasCode(PlainAndUpdate([kLhzx |-> 279, kLhax |-> 343, kLhbrx |-> 790],
                                [kLhzux |-> 311, kLhaux |-> 375], <<Idx("kS2")>>, <<rd_h>>, {}), 279)
        BY <2>1, PlainCode
    <2> QED
        BY SMTT(30), <2>2 DEF HasCode, IndexedLoadRows
<1>3. HasCode(IndexedLoadRows, 343)
    <2>1. "kLhax" \in DOMAIN [kLhzx |-> 279, kLhax |-> 343, kLhbrx |-> 790] /\ [kLhzx |-> 279, kLhax |-> 343, kLhbrx |-> 790]["kLhax"] = 343
        OBVIOUS
    <2>2. HasCode(PlainAndUpdate([kLhzx |-> 279, kLhax |-> 343, kLhbrx |-> 790],
                                [kLhzux |-> 311, kLhaux |-> 375], <<Idx("kS2")>>, <<rd_h>>, {}), 343)
        BY <2>1, PlainCode
    <2> QED
        BY SMTT(30), <2>2 DEF HasCode, IndexedLoadRows
<1>4. HasCode(IndexedLoadRows, 535)
    <2>1. "kLfsx" \in DOMAIN [kLfsx |-> 535] /\ [kLfsx |-> 535]["kLfsx"] = 535
        OBVIOUS
    <2>2. HasCode(PlainAndUpdate([kLfsx |-> 535],
                                [kLfsux |-> 567], <<Idx("kSingle")>>, <<Single("frd")>>, {}), 535)
        BY <2>1, PlainCode
    <2> QED
        BY SMTT(30), <2>2 DEF HasCode, IndexedLoadRows
<1>5. HasCode(IndexedLoadRows, 599)
    <2>1. "kLfdx" \in DOMAIN [kLfdx |-> 599] /\ [kLfdx |-> 599]["kLfdx"] = 599
        OBVIOUS
    <2>2. HasCode(PlainAndUpdate([kLfdx |-> 599],
                                [kLfdux |-> 631], <<Idx("kDouble")>>, <<Double("frd")>>, {}), 599)
        BY <2>1, PlainCode
    <2> QED
        BY SMTT(30), <2>2 DEF HasCode, IndexedLoadRows
<1> QED
    BY <1>1, <1>2, <1>3, <1>4, <1>5

LEMMA IndexedStoreUpdates ==
    ASSUME NEW r, IndexedStoreShape(r), r.op \in UpdateOps
    PROVE  \/ /\ r.code = 183 /\ r.flags = {}
              /\ Lists(r, <<rs_w>>, <<Idx("kS4"), ra_w>>)
           \/ /\ r.code = 247 /\ r.flags = {}
              /\ Lists(r, <<rs_b>>, <<Idx("kS1"), ra_w>>)
           \/ /\ r.code = 439 /\ r.flags = {}
              /\ Lists(r, <<rs_h>>, <<Idx("kS2"), ra_w>>)
           \/ /\ r.code = 695 /\ r.flags = {}
              /\ Lists(r, <<Single("frs")>>, <<Idx("kSingle"), ra_w>>)
           \/ /\ r.code = 759 /\ r.flags = {}
              /\ Lists(r, <<Double("frs")>>, <<Idx("kDouble"), ra_w>>)
BY SMTT(30) DEF IndexedStoreShape, Has, Codes, UpdateOps

LEMMA IndexedStorePlain ==
    ASSUME NEW r, IndexedStoreShape(r),
           r.code \in {151, 215, 407, 663, 727}
    PROVE  /\ r.op \notin UpdateOps \cup {"kInvalid", "kBc", "kBclr"}
           /\ \/ /\ r.code = 151 /\ r.flags = {}
                 /\ Lists(r, <<rs_w>>, <<Idx("kS4")>>)
              \/ /\ r.code = 215 /\ r.flags = {}
                 /\ Lists(r, <<rs_b>>, <<Idx("kS1")>>)
              \/ /\ r.code = 407 /\ r.flags = {}
                 /\ Lists(r, <<rs_h>>, <<Idx("kS2")>>)
              \/ /\ r.code = 663 /\ r.flags = {}
                 /\ Lists(r, <<Single("frs")>>, <<Idx("kSingle")>>)
              \/ /\ r.code = 727 /\ r.flags = {}
                 /\ Lists(r, <<Double("frs")>>, <<Idx("kDouble")>>)
BY SMTT(30) DEF IndexedStoreShape, Has, Codes, UpdateOps

LEMMA IndexedStoreCodes ==
    \A c \in {151, 215, 407, 663, 727} : HasCode(IndexedStoreRows, c)
<1>1. HasCode(IndexedStoreRows, 151)
    <2>1. "kStwx" \in DOMAIN [kStwx |-> 151, kStwbrx |-> 662, kEcowx |-> 438] /\ [kStwx |-> 151, kStwbrx |-> 662, kEcowx |-> 438]["kStwx"] = 151
        OBVIOUS
    <2>2. HasCode(PlainAndUpdate([kStwx |-> 151, kStwbrx |-> 662, kEcowx |-> 438],
                                [kStwux |-> 183], <<rs_w>>, <<Idx("kS4")>>, {}), 151)
        BY <2>1, PlainCode
    <2> QED
        BY SMTT(30), <2>2 DEF HasCode, IndexedStoreRows
<1>2. HasCode(IndexedStoreRows, 215)
    <2>1. "kStbx" \in DOMAIN [kStbx |-> 215] /\ [kStbx |-> 215]["kStbx"] = 215
        OBVIOUS
    <2>2. HasCode(PlainAndUpdate([kStbx |-> 215],
                                [kStbux |-> 247], <<rs_b>>, <<Idx("kS1")>>, {}), 215)
        BY <2>1, PlainCode
    <2> QED
        BY SMTT(30), <2>2 DEF HasCode, IndexedStoreRows
<1>3. HasCode(IndexedStoreRows, 407)
    <2>1. "kSthx" \in DOMAIN [kSthx |-> 407, kSthbrx |-> 918] /\ [kSthx |-> 407, kSthbrx |-> 918]["kSthx"] = 407
        OBVIOUS
    <2>2. HasCode(PlainAndUpdate([kSthx |-> 407, kSthbrx |-> 918],
                                [kSthux |-> 439], <<rs_h>>, <<Idx("kS2")>>, {}), 407)
        BY <2>1, PlainCode
    <2> QED
        BY SMTT(30), <2>2 DEF HasCode, IndexedStoreRows
<1>4. HasCode(IndexedStoreRows, 663)
    <2>1. "kStfsx" \in DOMAIN [kStfsx |-> 663] /\ [kStfsx |-> 663]["kStfsx"] = 663
        OBVIOUS
    <2>2. HasCode(PlainAndUpdate([kStfsx |-> 663],
                                [kStfsux |-> 695], <<Single("frs")>>, <<Idx("kSingle")>>, {}), 663)
        BY <2>1, PlainCode
    <2> QED
        BY SMTT(30), <2>2 DEF HasCode, IndexedStoreRows
<1>5. HasCode(IndexedStoreRows, 727)
    <2>1. "kStfdx" \in DOMAIN [kStfdx |-> 727] /\ [kStfdx |-> 727]["kStfdx"] = 727
        OBVIOUS
    <2>2. HasCode(PlainAndUpdate([kStfdx |-> 727],
                                [kStfdux |-> 759], <<Double("frs")>>, <<Idx("kDouble")>>, {}), 727)
        BY <2>1, PlainCode
    <2> QED
        BY SMTT(30), <2>2 DEF HasCode, IndexedStoreRows
<1> QED
    BY <1>1, <1>2, <1>3, <1>4, <1>5

LEMMA OffsetLoadTwins ==
    ASSUME NEW r, OffsetLoadShape(r), r.op \in UpdateOps
    PROVE  /\ r.code \in {33, 35, 41, 43, 49, 51, 57}
           /\ \A plain : OffsetLoadShape(plain) /\ plain.code = r.code - 1 => Twins(r, plain)
<1>1. r.code \in {33, 35, 41, 43, 49, 51, 57}
    BY OffsetLoadUpdates
<1> SUFFICES ASSUME NEW plain, OffsetLoadShape(plain), plain.code = r.code - 1
             PROVE  Twins(r, plain)
    BY <1>1
<1>2. plain.code \in {32, 34, 40, 42, 48, 50, 56}
    BY <1>1
<1>3. plain.op \notin UpdateOps \cup {"kInvalid", "kBc", "kBclr"}
    BY <1>2, OffsetLoadPlain
<1>4. r.reads = plain.reads
    BY <1>2, OffsetLoadUpdates, OffsetLoadPlain DEF Lists
<1>6. r.flags = plain.flags
    <2>1. CASE r.code = 57
        BY SMTT(30), <2>1, <1>2, OffsetLoadUpdates, OffsetLoadPlain DEF Lists
    <2>2. CASE r.code # 57
        BY SMTT(30), <2>2, <1>1, <1>2, OffsetLoadUpdates, OffsetLoadPlain DEF Lists
    <2> QED
        BY <2>1, <2>2
<1>5. \E x : plain.writes = <<x>> /\ r.writes = <<x, ra_w>>
    BY <1>2, OffsetLoadUpdates, OffsetLoadPlain DEF Lists
<1> QED
    BY <1>3, <1>4, <1>5, <1>6 DEF Twins

LEMMA OffsetStoreTwins ==
    ASSUME NEW r, OffsetStoreShape(r), r.op \in UpdateOps
    PROVE  /\ r.code \in {37, 39, 45, 53, 55, 61}
           /\ \A plain : OffsetStoreShape(plain) /\ plain.code = r.code - 1 => Twins(r, plain)
<1>1. r.code \in {37, 39, 45, 53, 55, 61}
    BY OffsetStoreUpdates
<1> SUFFICES ASSUME NEW plain, OffsetStoreShape(plain), plain.code = r.code - 1
             PROVE  Twins(r, plain)
    BY <1>1
<1>2. plain.code \in {36, 38, 44, 52, 54, 60}
    BY <1>1
<1>3. plain.op \notin UpdateOps \cup {"kInvalid", "kBc", "kBclr"}
    BY <1>2, OffsetStorePlain
<1>4. r.reads = plain.reads
    BY <1>2, OffsetStoreUpdates, OffsetStorePlain DEF Lists
<1>6. r.flags = plain.flags
    <2>1. CASE r.code = 61
        BY SMTT(30), <2>1, <1>2, OffsetStoreUpdates, OffsetStorePlain DEF Lists
    <2>2. CASE r.code # 61
        BY SMTT(30), <2>2, <1>1, <1>2, OffsetStoreUpdates, OffsetStorePlain DEF Lists
    <2> QED
        BY <2>1, <2>2
<1>5. \E x : plain.writes = <<x>> /\ r.writes = <<x, ra_w>>
    BY <1>2, OffsetStoreUpdates, OffsetStorePlain DEF Lists
<1> QED
    BY <1>3, <1>4, <1>5, <1>6 DEF Twins

LEMMA IndexedLoadTwins ==
    ASSUME NEW r, IndexedLoadShape(r), r.op \in UpdateOps
    PROVE  /\ r.code \in {119, 311, 375, 567, 631}
           /\ \A plain : IndexedLoadShape(plain) /\ plain.code = r.code - 32 => Twins(r, plain)
<1>1. r.code \in {119, 311, 375, 567, 631}
    BY IndexedLoadUpdates
<1> SUFFICES ASSUME NEW plain, IndexedLoadShape(plain), plain.code = r.code - 32
             PROVE  Twins(r, plain)
    BY <1>1
<1>2. plain.code \in {87, 279, 343, 535, 599}
    BY <1>1
<1>3. plain.op \notin UpdateOps \cup {"kInvalid", "kBc", "kBclr"}
    BY SMTT(30), <1>2, IndexedLoadPlain
<1>4. r.reads = plain.reads
    BY SMTT(30), <1>2, IndexedLoadUpdates, IndexedLoadPlain DEF Lists
<1>6. r.flags = plain.flags
    BY SMTT(30), <1>2, IndexedLoadUpdates, IndexedLoadPlain DEF Lists
<1>5. \E x : plain.writes = <<x>> /\ r.writes = <<x, ra_w>>
    BY SMTT(30), <1>2, IndexedLoadUpdates, IndexedLoadPlain DEF Lists
<1> QED
    BY <1>3, <1>4, <1>5, <1>6 DEF Twins

LEMMA IndexedStoreTwins ==
    ASSUME NEW r, IndexedStoreShape(r), r.op \in UpdateOps
    PROVE  /\ r.code \in {183, 247, 439, 695, 759}
           /\ \A plain : IndexedStoreShape(plain) /\ plain.code = r.code - 32 => Twins(r, plain)
<1>1. r.code \in {183, 247, 439, 695, 759}
    BY IndexedStoreUpdates
<1> SUFFICES ASSUME NEW plain, IndexedStoreShape(plain), plain.code = r.code - 32
             PROVE  Twins(r, plain)
    BY <1>1
<1>2. plain.code \in {151, 215, 407, 663, 727}
    BY <1>1
<1>3. plain.op \notin UpdateOps \cup {"kInvalid", "kBc", "kBclr"}
    BY SMTT(30), <1>2, IndexedStorePlain
<1>4. r.reads = plain.reads
    BY SMTT(30), <1>2, IndexedStoreUpdates, IndexedStorePlain DEF Lists
<1>6. r.flags = plain.flags
    BY SMTT(30), <1>2, IndexedStoreUpdates, IndexedStorePlain DEF Lists
<1>5. \E x : plain.writes = <<x>> /\ r.writes = <<x, ra_w>>
    BY SMTT(30), <1>2, IndexedStoreUpdates, IndexedStorePlain DEF Lists
<1> QED
    BY <1>3, <1>4, <1>5, <1>6 DEF Twins

\* Only loads and stores have their codes.
LEMMA PrimaryTwins ==
    ASSUME NEW r, PrimaryShape(r), r.op \in UpdateOps
    PROVE  /\ r.code \in {33, 35, 37, 39, 41, 43, 45, 49, 51, 53, 55, 57, 61}
           /\ HasCode(PrimaryRows, r.code - 1)
           /\ \A plain : PrimaryShape(plain) /\ plain.code = r.code - 1 => Twins(r, plain)
<1>1. OffsetLoadShape(r) \/ OffsetStoreShape(r)
    <2>1. ASSUME ImmediateShape(r) PROVE FALSE
        BY <2>1 DEF ImmediateShape, Has, Codes, UpdateOps
    <2>2. ASSUME BranchShape(r) PROVE FALSE
        BY <2>2 DEF BranchShape, Has, Codes, UpdateOps
    <2> QED
        BY <2>1, <2>2 DEF PrimaryShape
<1>2. ASSUME NEW plain, ImmediateShape(plain) \/ BranchShape(plain)
      PROVE  plain.code <= 29 /\ plain.code \in Nat
    <2>1. ASSUME ImmediateShape(plain) PROVE plain.code <= 29 /\ plain.code \in Nat
        BY SMTT(30), <2>1 DEF ImmediateShape, Has, Codes
    <2>2. ASSUME BranchShape(plain) PROVE plain.code <= 29 /\ plain.code \in Nat
        BY <2>2 DEF BranchShape, Has, Codes
    <2> QED
        BY <1>2, <2>1, <2>2
<1>3. CASE OffsetLoadShape(r)
    <2>1. r.code \in {33, 35, 41, 43, 49, 51, 57}
        BY <1>3, OffsetLoadTwins
    <2>2. ASSUME NEW plain, OffsetStoreShape(plain)
          PROVE  plain.code \notin {32, 34, 40, 42, 48, 50, 56}
        BY <2>2 DEF OffsetStoreShape, Has, Codes
    <2>3. \A plain : PrimaryShape(plain) /\ plain.code = r.code - 1 => OffsetLoadShape(plain)
        BY <1>2, <2>1, <2>2 DEF PrimaryShape
    <2>4. HasCode(OffsetLoadRows, r.code - 1)
        BY <2>1, OffsetLoadCodes
    <2> QED
        BY <1>3, <2>1, <2>3, <2>4, OffsetLoadTwins DEF HasCode, PrimaryRows, OffsetRows
<1>4. CASE OffsetStoreShape(r)
    <2>1. r.code \in {37, 39, 45, 53, 55, 61}
        BY <1>4, OffsetStoreTwins
    <2>2. ASSUME NEW plain, OffsetLoadShape(plain)
          PROVE  plain.code \notin {36, 38, 44, 52, 54, 60}
        BY <2>2 DEF OffsetLoadShape, Has, Codes
    <2>3. \A plain : PrimaryShape(plain) /\ plain.code = r.code - 1 => OffsetStoreShape(plain)
        BY <1>2, <2>1, <2>2 DEF PrimaryShape
    <2>4. HasCode(OffsetStoreRows, r.code - 1)
        BY <2>1, OffsetStoreCodes
    <2> QED
        BY <1>4, <2>1, <2>3, <2>4, OffsetStoreTwins DEF HasCode, PrimaryRows, OffsetRows
<1> QED
    BY <1>1, <1>3, <1>4

LEMMA IndexedTwins ==
    ASSUME NEW r, Op31Shape(r), r.op \in UpdateOps
    PROVE  /\ r.code \in {119, 183, 247, 311, 375, 439, 567, 631, 695, 759}
           /\ HasCode(Op31Rows, r.code - 32)
           /\ \A plain : Op31Shape(plain) /\ plain.code = r.code - 32 => Twins(r, plain)
<1>1. IndexedLoadShape(r) \/ IndexedStoreShape(r)
    <2>1. ASSUME MoveShape(r) PROVE FALSE
        BY <2>1 DEF MoveShape, Has, Codes, UpdateOps
    <2>2. ASSUME BitShape(r) PROVE FALSE
        BY <2>2 DEF BitShape, Has, Codes, UpdateOps
    <2> QED
        BY <2>1, <2>2 DEF Op31Shape
<1>2. ASSUME NEW plain, MoveShape(plain) \/ BitShape(plain),
             NEW c \in {87, 151, 215, 279, 343, 407, 535, 599, 663, 727}
      PROVE  plain.code # c
    <2>1. ASSUME MoveShape(plain)
          PROVE  plain.code \in
              {19, 83, 144, 146, 210, 242, 306, 339, 371, 467, 512, 566, 595, 598,
              659, 854}
        BY <2>1 DEF MoveShape, Has, Codes
    <2>2. ASSUME BitShape(plain)
          PROVE  plain.code \in
              {0, 4, 11, 24, 26, 28, 32, 60, 75, 124, 284, 316, 412, 444, 476, 536,
              792, 824, 922, 954}
        BY <2>2 DEF BitShape, Has, Codes
    <2> QED
        BY <1>2, <2>1, <2>2
<1>3. CASE IndexedLoadShape(r)
    <2>1. r.code \in {119, 311, 375, 567, 631}
        BY <1>3, IndexedLoadTwins
    <2>2. ASSUME NEW plain, IndexedStoreShape(plain)
          PROVE  plain.code \in
                     {54, 86, 150, 151, 183, 215, 246, 247, 407, 438, 439, 470, 661, 662,
                     663, 695, 725, 727, 759, 918, 982, 983, 1014}
        BY SMTT(30), <2>2 DEF IndexedStoreShape, Has, Codes
    <2>3. \A plain : Op31Shape(plain) /\ plain.code = r.code - 32 => IndexedLoadShape(plain)
        BY <1>2, <2>1, <2>2 DEF Op31Shape
    <2>4. HasCode(IndexedLoadRows, r.code - 32)
        BY <2>1, IndexedLoadCodes
    <2> QED
        BY <1>3, <2>1, <2>3, <2>4, IndexedLoadTwins DEF HasCode, Op31Rows, IndexedRows
<1>4. CASE IndexedStoreShape(r)
    <2>1. r.code \in {183, 247, 439, 695, 759}
        BY <1>4, IndexedStoreTwins
    <2>2. ASSUME NEW plain, IndexedLoadShape(plain)
          PROVE  plain.code \in
                     {20, 23, 87, 119, 278, 279, 310, 311, 343, 375, 533, 534, 535, 567,
                     597, 599, 631, 790}
        BY <2>2 DEF IndexedLoadShape, Has, Codes
    <2>3. \A plain : Op31Shape(plain) /\ plain.code = r.code - 32 => IndexedStoreShape(plain)
        BY <1>2, <2>1, <2>2 DEF Op31Shape
    <2>4. HasCode(IndexedStoreRows, r.code - 32)
        BY <2>1, IndexedStoreCodes
    <2> QED
        BY <1>4, <2>1, <2>3, <2>4, IndexedStoreTwins DEF HasCode, Op31Rows, IndexedRows
<1> QED
    BY <1>1, <1>3, <1>4

\* The row that the switches find where their table has the code.
LEMMA Op31At ==
    ASSUME NEW w \in Word, w.opcd = 31, HasCode(Op31Rows, w.ext)
    PROVE  Op31Shape(RowOf(w)) /\ RowOf(w).code = w.ext
<1>1. w.ext \in {r.code : r \in Op31Rows}
    BY DEF HasCode
<1>2. RowOf(w) = Find(Index(Op31Rows), w.ext)
    BY <1>1 DEF RowOf, Find, Op31, Index
<1>3. RowOf(w) \in Op31Rows /\ RowOf(w).code = w.ext
    BY <1>1, <1>2, FindRow
<1> QED
    BY <1>3, MoveRow, BitRow, IndexedLoadRow, IndexedStoreRow DEF Op31Rows, IndexedRows, Op31Shape

LEMMA PrimaryAt ==
    ASSUME NEW w \in Word, w.opcd \notin {4, 19, 31, 59, 63}, HasCode(PrimaryRows, w.opcd)
    PROVE  PrimaryShape(RowOf(w)) /\ RowOf(w).code = w.opcd
<1>1. w.opcd \in {r.code : r \in PrimaryRows}
    BY DEF HasCode
<1>2. RowOf(w) = Find(Index(PrimaryRows), w.opcd)
    BY DEF RowOf, Primary
<1>3. RowOf(w) \in PrimaryRows /\ RowOf(w).code = w.opcd
    BY <1>1, <1>2, FindRow
<1> QED
    BY <1>3, ImmediateRow, OffsetLoadRow, OffsetStoreRow, BranchRow DEF OffsetRows, PrimaryShape

LEMMA UpdateShapes ==
    ASSUME NEW w \in Word, NEW row, ShapeOf(w, row), row.op \in UpdateOps
    PROVE  \/ w.opcd = 31 /\ Op31Shape(row) /\ row.code = w.ext
           \/ w.opcd \notin {4, 19, 31, 59, 63} /\ PrimaryShape(row) /\ row.code = w.opcd
<1>1. ShapeOf(w, row) /\ row.op \in UpdateOps
    OBVIOUS
<1>2. ~NoRow(row)
    BY <1>1 DEF NoRow, UpdateOps
<1>3. ~Op4Shape(row)
    BY <1>1, LaterOps DEF Op4Shape, Has, Codes, UpdateOps
<1>4. ~Op19Shape(row)
    BY <1>1 DEF Op19Shape, Has, Codes, UpdateOps
<1>5. ~Op31ArithShape(row)
    BY <1>1 DEF Op31ArithShape, Has, Codes, UpdateOps
<1>6. ~Op59Shape(row)
    BY <1>1 DEF Op59Shape, Has, Codes, UpdateOps
<1>7. ~Op63Shape(row)
    BY <1>1 DEF Op63Shape, Has, Codes, UpdateOps
<1>8. ~Op63ArithShape(row)
    BY <1>1 DEF Op63ArithShape, Has, Codes, UpdateOps
<1> QED
    BY <1>1, <1>2, <1>3, <1>4, <1>5, <1>6, <1>7, <1>8 DEF ShapeOf

\* The words give the accessors of the list the same values.
Alike(w, p, list) == \A k \in DOMAIN list : Source(p, list[k]) = Source(w, list[k])

\* No accessor looks at the primary opcode.
LEMMA OpcodeApart ==
    ASSUME NEW w \in Word, NEW c
    PROVE  LET p == [w EXCEPT !.opcd = c]
           IN  /\ \A x : Source(p, x) = Source(w, x)
               /\ \A f : Flag(p, f) = Flag(w, f)
<1> DEFINE p == [w EXCEPT !.opcd = c]
<1>1. p.d = w.d /\ p.a = w.a /\ p.b = w.b /\ p.ext = w.ext /\ p.rc = w.rc
    BY DEF Word
<1> HIDE DEF p
<1>2. RegField(p) = RegField(w)
    BY <1>1 DEF RegField
<1>3. Low(p) = Low(w) /\ simm(p) = simm(w) /\ d20(p) = d20(w) /\ bd(p) = bd(w) /\ li(p) = li(w)
    BY <1>1 DEF Low, simm, d20, bd, li
<1>4. CrField(p) = CrField(w)
    BY <1>1 DEF CrField
<1>5. AuxField(p) = AuxField(w)
    BY <1>1 DEF AuxField
<1>6. MaskField(p) = MaskField(w)
    BY <1>1 DEF MaskField
<1>7. SpecialSource(p) = SpecialSource(w)
    BY <1>1, <1>3 DEF SpecialSource, Swapped
<1>8. \A x : Source(p, x) = Source(w, x)
    BY <1>1, <1>2, <1>3, <1>4, <1>5, <1>6, <1>7 DEF Source, MemRegOff
<1>9. \A f : Flag(p, f) = Flag(w, f)
    BY <1>1 DEF Flag
<1> QED
    BY <1>8, <1>9 DEF p

\* Nor an accessor of an indexed load or store at the function code.
LEMMA FunctionCodeApart ==
    ASSUME NEW w \in Word, NEW c, NEW x,
           x \in {rd_w, rd_h, rd_b, rs_w, rs_h, rs_b, ra_w, Idx("kS4"), Idx("kS2"), Idx("kS1"),
                  Idx("kSingle"), Idx("kDouble"), Single("frd"), Double("frd"),
                  Single("frs"), Double("frs")}
    PROVE  Source([w EXCEPT !.ext = c], x) = Source(w, x)
<1> DEFINE p == [w EXCEPT !.ext = c]
<1> SUFFICES Source(p, x) = Source(w, x)
    OBVIOUS
<1>1. p.d = w.d /\ p.a = w.a /\ p.b = w.b
    BY DEF Word
<1> HIDE DEF p
<1>2. \A f \in {"ra", "rd", "rs", "frd", "frs"} : RegField(p)[f] = RegField(w)[f]
    BY <1>1 DEF RegField
<1>3. /\ x[1] \in {"ra", "rd", "rs", "index", "frd", "frs"}
      /\ x[2] \notin {"cr", "mask", "aux", "special"}
    BY DEF rd_w, rd_h, rd_b, rs_w, rs_h, rs_b, ra_w, Idx, Single, Double
<1>4. CASE x[1] \in {"ra", "rd", "rs"}
    <2>1. Source(p, x) = Gpr(RegField(p)[x[1]], x[2])
        BY <1>3, <1>4 DEF Source, GprFields, FprFields
    <2>2. Source(w, x) = Gpr(RegField(w)[x[1]], x[2])
        BY <1>3, <1>4 DEF Source, GprFields, FprFields
    <2> QED
        BY <1>2, <1>4, <2>1, <2>2
<1>5. CASE x[1] \in {"frd", "frs"}
    <2>1. Source(p, x) = [kind |-> "FPRSlice", reg |-> RegField(p)[x[1]], type |-> x[2]]
        BY <1>3, <1>5 DEF Source, GprFields, FprFields
    <2>2. Source(w, x) = [kind |-> "FPRSlice", reg |-> RegField(w)[x[1]], type |-> x[2]]
        BY <1>3, <1>5 DEF Source, GprFields, FprFields
    <2> QED
        BY <1>2, <1>5, <2>1, <2>2
<1>6. CASE x[1] = "index"
    BY <1>1, <1>3, <1>6 DEF Source, GprFields, FprFields
<1> QED
    BY <1>3, <1>4, <1>5, <1>6

LEMMA IndexedAlike ==
    ASSUME NEW w \in Word, NEW c, NEW r, Op31Shape(r), r.op \in UpdateOps
    PROVE  /\ Alike(w, [w EXCEPT !.ext = c], r.reads)
           /\ Alike(w, [w EXCEPT !.ext = c], r.writes)
           /\ r.flags = {}
<1>1. IndexedLoadShape(r) \/ IndexedStoreShape(r)
    <2>1. ASSUME MoveShape(r) PROVE FALSE
        BY <2>1 DEF MoveShape, Has, Codes, UpdateOps
    <2>2. ASSUME BitShape(r) PROVE FALSE
        BY <2>2 DEF BitShape, Has, Codes, UpdateOps
    <2> QED
        BY <2>1, <2>2 DEF Op31Shape
<1> DEFINE Those == {rd_w, rd_h, rd_b, rs_w, rs_h, rs_b, ra_w, Idx("kS4"), Idx("kS2"),
                     Idx("kS1"), Idx("kSingle"), Idx("kDouble"), Single("frd"), Double("frd"),
                     Single("frs"), Double("frs")}
<1>2. /\ \A k \in DOMAIN r.reads : r.reads[k] \in Those
      /\ r.flags = {}
    BY <1>1, IndexedLoadUpdates, IndexedStoreUpdates DEF Lists
<1>3. \A k \in DOMAIN r.writes : r.writes[k] \in Those
    BY <1>1, IndexedLoadUpdates, IndexedStoreUpdates DEF Lists
<1> QED
    BY <1>2, <1>3, FunctionCodeApart DEF Alike

LEMMA UpdateTwins ==
    ASSUME NEW w \in Word, RowOf(w).op \in UpdateOps
    PROVE  LET p == PlainWord(w)
           IN  /\ p \in Word
               /\ p.a = w.a
               /\ w.opcd \notin {4, 59, 63} /\ p.opcd \notin {4, 59, 63}
               /\ Twins(RowOf(w), RowOf(p))
               /\ Alike(w, p, RowOf(w).reads) /\ Alike(w, p, RowOf(w).writes)
               /\ \A f \in RowOf(w).flags : Flag(p, f) = Flag(w, f)
<1> DEFINE row == RowOf(w)
           p == PlainWord(w)
<1>1. /\ row.op \in UpdateOps
      /\ \/ w.opcd = 31 /\ Op31Shape(row) /\ row.code = w.ext
         \/ w.opcd \notin {4, 19, 31, 59, 63} /\ PrimaryShape(row) /\ row.code = w.opcd
    BY RowOfShape, UpdateShapes
<1> HIDE DEF row
<1>2. CASE w.opcd = 31 /\ Op31Shape(row) /\ row.code = w.ext
    <2>1. /\ w.ext \in {119, 183, 247, 311, 375, 439, 567, 631, 695, 759}
          /\ HasCode(Op31Rows, w.ext - 32)
          /\ \A plain : Op31Shape(plain) /\ plain.code = w.ext - 32 => Twins(row, plain)
        BY <1>1, <1>2, IndexedTwins
    <2>2. p = [w EXCEPT !.ext = w.ext - 32]
        BY <1>2 DEF PlainWord
    <2>3. p \in Word /\ p.opcd = 31 /\ p.ext = w.ext - 32 /\ p.a = w.a
        BY <1>2, <2>1, <2>2 DEF Word
    <2> HIDE DEF p
    <2>4. Twins(row, RowOf(p))
        BY <2>1, <2>3, Op31At
    <2>5. Alike(w, p, row.reads) /\ Alike(w, p, row.writes) /\ row.flags = {}
        BY <1>1, <1>2, <2>2, IndexedAlike
    <2> QED
        BY <1>2, <2>3, <2>4, <2>5 DEF row, p
<1>3. CASE w.opcd \notin {4, 19, 31, 59, 63} /\ PrimaryShape(row) /\ row.code = w.opcd
    <2>1. /\ w.opcd \in {33, 35, 37, 39, 41, 43, 45, 49, 51, 53, 55, 57, 61}
          /\ HasCode(PrimaryRows, w.opcd - 1)
          /\ \A plain : PrimaryShape(plain) /\ plain.code = w.opcd - 1 => Twins(row, plain)
        BY <1>1, <1>3, PrimaryTwins
    <2>2. p = [w EXCEPT !.opcd = w.opcd - 1]
        BY <1>3 DEF PlainWord
    <2>3. p \in Word /\ p.opcd = w.opcd - 1 /\ p.a = w.a
        BY <2>1, <2>2 DEF Word
    <2>4. p.opcd \notin {4, 19, 31, 59, 63}
        BY <2>1, <2>3
    <2> HIDE DEF p
    <2>5. Twins(row, RowOf(p))
        BY <2>1, <2>3, <2>4, PrimaryAt
    <2>6. /\ \A x : Source(p, x) = Source(w, x)
          /\ \A f : Flag(p, f) = Flag(w, f)
        BY <2>2, OpcodeApart
    <2>7. Alike(w, p, row.reads) /\ Alike(w, p, row.writes)
        BY <2>6 DEF Alike
    <2> QED
        BY <1>3, <2>3, <2>4, <2>5, <2>6, <2>7 DEF row, p
<1> QED
    BY <1>1, <1>2, <1>3

\* What an operation writes that neither counts nor sets bits of FPSCR.
LEMMA PlainWrites ==
    ASSUME NEW w \in Word, RowOf(w).op \notin {"kBc", "kBclr"}, w.opcd \notin {4, 59, 63},
           NEW n \in Nat, DOMAIN RowOf(w).writes = 1 .. n
    PROVE  Disasm(0, w).writes = Pushed(w, RowOf(w).writes)
<1> DEFINE pushed == Pushed(w, RowOf(w).writes)
<1>1. Disasm(0, w).writes = pushed \o <<>> \o <<>>
    BY DEF Disasm, CounterWrite, FpscrWrite, FpscrBits
<1>2. pushed = [k \in 1 .. n |-> Source(w, RowOf(w).writes[k])]
    BY DEF Pushed
<1>3. pushed \in Seq({pushed[k] : k \in 1 .. n})
    BY <1>2
<1> HIDE DEF pushed
<1>4. pushed \o <<>> = pushed
    BY <1>3, ConcatEmptySeq
<1> QED
    BY <1>1, <1>4 DEF pushed

LEMMA PushedAlike ==
    ASSUME NEW w, NEW p, NEW list, Alike(w, p, list)
    PROVE  Pushed(p, list) = Pushed(w, list)
BY DEF Alike, Pushed

LEMMA InstructionUpdates ==
    ASSUME NEW w \in Word, Disasm(0, w).op \in UpdateOps
    PROVE  LET i == Disasm(0, w)
               plain == Disasm(0, PlainWord(w))
           IN  /\ plain.op \notin UpdateOps \cup {"kInvalid"}
               /\ i.reads = plain.reads
               /\ i.writes = plain.writes \o <<Gpr(w.a, "kS4")>>
               /\ i.flags = plain.flags
<1> DEFINE row == RowOf(w)
           p == PlainWord(w)
           plain == RowOf(p)
<1>1. row.op \in UpdateOps
    BY DEF Disasm
<1>2. /\ p \in Word /\ p.a = w.a
      /\ w.opcd \notin {4, 59, 63} /\ p.opcd \notin {4, 59, 63}
      /\ Twins(row, plain)
      /\ Alike(w, p, row.reads) /\ Alike(w, p, row.writes)
      /\ \A f \in row.flags : Flag(p, f) = Flag(w, f)
    BY <1>1, UpdateTwins
<1> HIDE DEF p
<1>3. PICK x : plain.writes = <<x>> /\ row.writes = <<x, ra_w>>
    BY <1>2 DEF Twins
<1>4. /\ plain.op \notin UpdateOps \cup {"kInvalid", "kBc", "kBclr"}
      /\ row.reads = plain.reads /\ row.flags = plain.flags
    BY <1>2 DEF Twins
<1>5. Disasm(0, w).reads = Disasm(0, p).reads
    BY <1>2, <1>4, PushedAlike DEF Disasm
<1>6. Disasm(0, w).flags = Disasm(0, p).flags
    BY <1>2, <1>4 DEF Disasm
<1>7. Disasm(0, w).writes = <<Source(w, x), Gpr(w.a, "kS4")>>
    <2>1. DOMAIN row.writes = 1 .. 2 /\ row.op \notin {"kBc", "kBclr"}
        BY <1>1, <1>3 DEF UpdateOps
    <2>2. Disasm(0, w).writes = Pushed(w, <<x, ra_w>>)
        BY <1>2, <1>3, <2>1, PlainWrites
    <2>3. Source(w, ra_w) = Gpr(w.a, "kS4")
        BY DEF Source, ra_w, GprFields, FprFields, RegField
    <2> QED
        BY <2>2, <2>3 DEF Pushed
<1>8. Disasm(0, p).writes = <<Source(w, x)>>
    <2>1. DOMAIN plain.writes = 1 .. 1 /\ plain.op \notin {"kBc", "kBclr"}
        BY <1>3, <1>4
    <2>2. Disasm(0, p).writes = Pushed(p, <<x>>)
        BY <1>2, <1>3, <2>1, PlainWrites
    <2>3. Source(p, x) = Source(w, x)
        <3>1. 1 \in DOMAIN row.writes /\ row.writes[1] = x
            BY <1>3
        <3> QED
            BY <1>2, <3>1 DEF Alike
    <2> QED
        BY <2>2, <2>3 DEF Pushed
<1>9. \A y, z : <<y>> \o <<z>> = <<y, z>>
    <2> TAKE y, z
    <2>1. Append(<<y>>, z) = <<y, z>>
        BY Appended
    <2>2. <<y>> \in Seq({y, z}) /\ z \in {y, z}
        OBVIOUS
    <2>3. <<y>> \o <<z>> = Append(<<y>>, z)
        BY <2>2, AppendIsConcat
    <2> QED
        BY <2>1, <2>3
<1>10. Disasm(0, p).op = plain.op
    BY DEF Disasm
<1> QED
    BY <1>4, <1>5, <1>6, <1>7, <1>8, <1>9, <1>10 DEF p

\* A load or store that updates its base differs from the plain one in nothing but
\* that it also writes the base, whatever the words (PpcDisasm.cc:312, 773).
THEOREM UpdatesAlwaysAddTheBase == Spec => []UpdatesAddTheBase
<1>1. Decoded => UpdatesAddTheBase
    <2> SUFFICES ASSUME Decoded, inst.op \in UpdateOps
                 PROVE  UpdatesAddTheBase
        BY DEF UpdatesAddTheBase
    <2>1. PICK w \in Word : inst = Disasm(0, w)
        BY DEF Decoded
    <2>2. inst.word = w
        BY <2>1 DEF Disasm
    <2> QED
        BY <2>1, <2>2, InstructionUpdates DEF UpdatesAddTheBase
<1> QED
    BY <1>1, LoopInvariant, PTL

-----------------------------------------------------------------------------
(* Letters *)

\* Operations whose name ends with a dot show no letter.
Dotted == {"kAddicDot", "kAndiDot", "kAndisDot", "kStwcxDot"}

BranchOps == {"kB", "kBc", "kBcctr", "kBclr"}

\* How the flags of a row go with the lists of opcode_flags_string.
Lettered(r) ==
    \/ r.op \in DOMAIN LaterCodes \cup Dotted
    \/ r.op \in RcOps /\ r.flags \in {{"rc"}, {"rc_fp"}}
    \/ r.op \in OercOps /\ r.flags = {"rc", "oe"}
    \/ r.op = "kXor" /\ r.flags = {"rc"} /\ r.code = 316
    \/ r.op \in {"kB", "kBc"} /\ r.flags = {"aa", "lk"}
    \/ r.op \in {"kBcctr", "kBclr"} /\ r.flags = {"lk"}
    \/ r.op \notin OercOps \cup RcOps \cup BranchOps /\ r.flags \in {{}, {"l"}, {"w"}}

LEMMA Op4Lettered == \A r : Op4Shape(r) => Lettered(r)
BY DEF Op4Shape, Has, Codes, Lettered, OercOps, RcOps, BranchOps

LEMMA Op19Lettered == \A r : Op19Shape(r) => Lettered(r)
BY DEF Op19Shape, Has, Codes, Lettered, OercOps, RcOps, BranchOps

LEMMA MoveLettered == \A r : MoveShape(r) => Lettered(r)
BY DEF MoveShape, Has, Codes, Lettered, OercOps, RcOps, BranchOps

LEMMA BitLettered == \A r : BitShape(r) => Lettered(r)
BY DEF BitShape, Has, Codes, Lettered, OercOps, RcOps, BranchOps

LEMMA IndexedLoadLettered == \A r : IndexedLoadShape(r) => Lettered(r)
BY SMTT(30) DEF IndexedLoadShape, Has, Codes, Lettered, OercOps, RcOps, BranchOps

LEMMA IndexedStoreLettered == \A r : IndexedStoreShape(r) => Lettered(r)
BY SMTT(30) DEF IndexedStoreShape, Has, Codes, Lettered, Dotted, OercOps, RcOps, BranchOps

LEMMA Op31ArithLettered == \A r : Op31ArithShape(r) => Lettered(r)
BY DEF Op31ArithShape, Has, Codes, Lettered, OercOps

LEMMA Op59Lettered == \A r : Op59Shape(r) => Lettered(r)
BY DEF Op59Shape, Has, Codes, Lettered, RcOps

LEMMA Op63Lettered == \A r : Op63Shape(r) => Lettered(r)
BY DEF Op63Shape, Has, Codes, Lettered, OercOps, RcOps, BranchOps

LEMMA Op63ArithLettered == \A r : Op63ArithShape(r) => Lettered(r)
BY DEF Op63ArithShape, Has, Codes, Lettered, RcOps

LEMMA ImmediateLettered == \A r : ImmediateShape(r) => Lettered(r)
BY DEF ImmediateShape, Has, Codes, Lettered, Dotted, OercOps, RcOps, BranchOps

LEMMA OffsetLoadLettered == \A r : OffsetLoadShape(r) => Lettered(r)
BY DEF OffsetLoadShape, Has, Codes, Lettered, OercOps, RcOps, BranchOps

LEMMA OffsetStoreLettered == \A r : OffsetStoreShape(r) => Lettered(r)
BY DEF OffsetStoreShape, Has, Codes, Lettered, OercOps, RcOps, BranchOps

LEMMA BranchLettered == \A r : BranchShape(r) => Lettered(r)
BY DEF BranchShape, Has, Codes, Lettered, OercOps, RcOps, BranchOps

LEMMA RowLettered ==
    ASSUME NEW w \in Word
    PROVE  RowOf(w).op = "kInvalid" \/ Lettered(RowOf(w))
BY RowOfAnyShape, Op4Lettered, Op19Lettered, MoveLettered, BitLettered, IndexedLoadLettered,
   IndexedStoreLettered, Op31ArithLettered, Op59Lettered, Op63Lettered, Op63ArithLettered,
   ImmediateLettered, OffsetLoadLettered, OffsetStoreLettered, BranchLettered
   DEF AnyShape, NoRow

\* The operations that opcode 4's later searches would find have no operands
\* anywhere in its table.
LEMMA LaterRow ==
    ASSUME NEW w \in Word, w.opcd = 4, RowOf(w).op \in DOMAIN LaterCodes
    PROVE  RowOf(w).op \in LaterSearches
<1> DEFINE row == RowOf(w)
<1>1. row = Find(Op4, w.ext)
    BY DEF RowOf
<1>2. w.ext \in DOMAIN Op4 /\ row = Op4[w.ext]
    BY <1>1, LaterOps DEF Find, Invalid
<1>3. ASSUME NEW c \in DOMAIN Op4, Op4[c].op = row.op
      PROVE  Op4[c].writes = <<>>
    <2> DEFINE r == Op4[c]
    <2>1. Op4Shape(r)
        <3>1. Find(Index(Op4Rows), c) = r /\ c \in {x.code : x \in Op4Rows}
            BY DEF Find, Op4, Index
        <3> QED
            BY <3>1, FindRow, Op4Row
    <2>2. r.op \in DOMAIN LaterCodes
        BY <1>3
    <2> HIDE DEF r, row
    <2>3. r.writes = <<>>
        BY <2>1, <2>2, LaterOps DEF Op4Shape, Has, Codes, Lists
    <2> QED
        BY <2>3 DEF r
<1> QED
    BY <1>2, <1>3 DEF LaterSearches

LEMMA LaterTable ==
    ASSUME NEW w \in Word, RowOf(w).op \in DOMAIN LaterCodes
    PROVE  w.opcd = 4
<1> DEFINE row == RowOf(w)
<1>1. ShapeOf(w, row) /\ row.op \in DOMAIN LaterCodes
    BY RowOfShape
<1> HIDE DEF row
<1>2. ~NoRow(row)
    BY <1>1, LaterOps DEF NoRow
<1>3. ~Op19Shape(row)
    BY <1>1, LaterOps DEF Op19Shape, Has, Codes
<1>4. ~Op31ArithShape(row)
    BY <1>1, LaterOps DEF Op31ArithShape, Has, Codes
<1>5. ~MoveShape(row)
    BY <1>1, LaterOps DEF MoveShape, Has, Codes
<1>6. ~BitShape(row)
    BY <1>1, LaterOps DEF BitShape, Has, Codes
<1>7. ~IndexedLoadShape(row)
    BY <1>1, LaterOps DEF IndexedLoadShape, Has, Codes
<1>8. ~IndexedStoreShape(row)
    BY SMTT(30), <1>1, LaterOps DEF IndexedStoreShape, Has, Codes
<1>9. ~Op59Shape(row)
    BY <1>1, LaterOps DEF Op59Shape, Has, Codes
<1>10. ~Op63Shape(row)
    BY <1>1, LaterOps DEF Op63Shape, Has, Codes
<1>11. ~Op63ArithShape(row)
    BY <1>1, LaterOps DEF Op63ArithShape, Has, Codes
<1>12. ~ImmediateShape(row)
    BY <1>1, LaterOps DEF ImmediateShape, Has, Codes
<1>13. ~OffsetLoadShape(row)
    BY <1>1, LaterOps DEF OffsetLoadShape, Has, Codes
<1>14. ~OffsetStoreShape(row)
    BY <1>1, LaterOps DEF OffsetStoreShape, Has, Codes
<1>15. ~BranchShape(row)
    BY <1>1, LaterOps DEF BranchShape, Has, Codes
<1> QED
    BY <1>1, <1>2, <1>3, <1>4, <1>5, <1>6, <1>7, <1>8, <1>9, <1>10, <1>11, <1>12, <1>13,
       <1>14, <1>15 DEF ShapeOf, Op31Shape, PrimaryShape

\* The lists of opcode_flags_string do not overlap.
LEMMA ListsApart ==
    /\ OercOps \cap RcOps = {}
    /\ (OercOps \cup RcOps) \cap BranchOps = {}
<1>1. \A op \in OercOps : op \notin RcOps
    BY DEF OercOps, RcOps
<1>2. \A op \in BranchOps : op \notin OercOps
    BY DEF OercOps, BranchOps
<1>3. \A op \in BranchOps : op \notin RcOps
    BY DEF RcOps, BranchOps
<1> QED
    BY <1>1, <1>2, <1>3

\* The letters of a line are the flags of its instruction.
Agree(suffix, flags) ==
    /\ "." \in suffix <=> "kWritesRecord" \in flags
    /\ "o" \in suffix <=> "kWritesXER" \in flags
    /\ "l" \in suffix <=> "kWritesLR" \in flags
    /\ "a" \in suffix <=> "kAbsoluteAddr" \in flags

\* The letters that the printer finds in the word are the flags that the decoder
\* found by its row.
LEMMA LettersAgree ==
    ASSUME NEW w \in Word, NEW r, Lettered(r),
           r.op \notin DOMAIN LaterCodes \cup Dotted, r.op = "kXor" => r.code = w.ext
    PROVE  Agree(Suffix(r.op, w), UNION {Flag(w, f) : f \in r.flags})
<1> DEFINE suffix == Suffix(r.op, w)
           flags == UNION {Flag(w, f) : f \in r.flags}
<1> SUFFICES Agree(suffix, flags)
    OBVIOUS
<1>1. CASE r.op \in RcOps /\ r.flags \in {{"rc"}, {"rc_fp"}}
    <2>1. flags \in {Flag(w, "rc"), Flag(w, "rc_fp")}
        BY <1>1
    <2>2. suffix = IF w.rc = 1 THEN {"."} ELSE {}
        BY <1>1, ListsApart DEF Suffix, BranchOps
    <2> HIDE DEF suffix, flags
    <2> QED
        BY <2>1, <2>2 DEF Flag, Agree
<1>2. CASE r.op \in OercOps /\ r.flags = {"rc", "oe"}
    <2>1. flags = Flag(w, "rc") \cup Flag(w, "oe")
        BY <1>2
    <2>2. suffix = (IF w.ext % 2 = 1 THEN {"o"} ELSE {}) \cup (IF w.rc = 1 THEN {"."} ELSE {})
        BY <1>2, ListsApart DEF Suffix, BranchOps
    <2> HIDE DEF suffix, flags
    <2> QED
        BY <2>1, <2>2 DEF Flag, Agree
<1>3. CASE r.op = "kXor" /\ r.flags = {"rc"} /\ r.code = 316
    <2>1. flags = Flag(w, "rc") /\ w.ext % 2 = 0
        BY <1>3
    <2>2. r.op \in OercOps
        BY <1>3 DEF OercOps
    <2>3. suffix = (IF w.ext % 2 = 1 THEN {"o"} ELSE {}) \cup (IF w.rc = 1 THEN {"."} ELSE {})
        BY <2>2, ListsApart DEF Suffix, BranchOps
    <2> HIDE DEF suffix, flags
    <2> QED
        BY <2>1, <2>3 DEF Flag, Agree
<1>4. CASE r.op \in {"kB", "kBc"} /\ r.flags = {"aa", "lk"}
    <2>1. flags = Flag(w, "aa") \cup Flag(w, "lk")
        BY <1>4
    <2>2. r.op \notin OercOps \cup RcOps
        BY <1>4, ListsApart DEF BranchOps
    <2>3. suffix = (IF w.ext % 2 = 1 THEN {"a"} ELSE {}) \cup (IF w.rc = 1 THEN {"l"} ELSE {})
        BY <1>4, <2>2 DEF Suffix
    <2> HIDE DEF suffix, flags
    <2> QED
        BY <2>1, <2>3 DEF Flag, Agree
<1>5. CASE r.op \in {"kBcctr", "kBclr"} /\ r.flags = {"lk"}
    <2>1. flags = Flag(w, "lk")
        BY <1>5
    <2>2. r.op \notin OercOps \cup RcOps
        BY <1>5, ListsApart DEF BranchOps
    <2>3. suffix = IF w.rc = 1 THEN {"l"} ELSE {}
        BY <1>5, <2>2 DEF Suffix
    <2> HIDE DEF suffix, flags
    <2> QED
        BY <2>1, <2>3 DEF Flag, Agree
<1>6. CASE r.op \notin OercOps \cup RcOps \cup BranchOps /\ r.flags \in {{}, {"l"}, {"w"}}
    <2>1. suffix = {}
        BY <1>6 DEF Suffix, BranchOps
    <2>2. flags \subseteq {"kLongMode", "kPsLoadsOne"}
        BY <1>6 DEF Flag
    <2> HIDE DEF suffix, flags
    <2> QED
        BY <2>1, <2>2 DEF Agree
<1> QED
    BY <1>1, <1>2, <1>3, <1>4, <1>5, <1>6 DEF Lettered

\* A line has the letters of its operation, whichever mnemonic it has.
LEMMA LineLetters ==
    ASSUME NEW i
    PROVE  write_inst_disassembly(i).suffix = Suffix(i.op, i.word)
<1> DEFINE suffix == Suffix(i.op, i.word)
<1>1. ASSUME i.op \in {"kCmp", "kCmpl", "kCmpi", "kCmpli", "kOri"}
      PROVE  suffix = {}
    <2>1. i.op \notin OercOps
        BY <1>1 DEF OercOps
    <2>2. i.op \notin RcOps
        BY <1>1 DEF RcOps
    <2> QED
        BY <1>1, <2>1, <2>2 DEF Suffix
<1> HIDE DEF suffix
<1>2. CASE Pseudo(i) # NoLine
    <2>1. Pseudo(i).suffix = suffix
        <3>1. CASE i.op \in {"kCmp", "kCmpl", "kCmpi", "kCmpli", "kOri"}
            BY <1>1, <1>2, <3>1 DEF Pseudo, Line
        <3>2. CASE i.op \in {"kBc", "kBclr", "kBcctr"}
            BY <3>2 DEF Pseudo, Line, suffix
        <3>3. CASE i.op \in {"kAddi", "kAddis", "kOr", "kNor", "kMtcrf", "kRlwnm"}
            BY <1>2, <3>3 DEF Pseudo, Line, suffix
        <3>4. CASE i.op \in {"kRlwinm", "kRlwimi"}
            BY <1>2, <3>4 DEF Pseudo, Line, suffix
        <3>5. CASE i.op \notin {"kCmp", "kCmpl", "kCmpi", "kCmpli", "kOri", "kBc", "kBclr",
                               "kBcctr", "kAddi", "kAddis", "kOr", "kNor", "kMtcrf", "kRlwnm",
                               "kRlwinm", "kRlwimi"}
            BY <1>2, <3>5 DEF Pseudo
        <3> QED
            BY <3>1, <3>2, <3>3, <3>4, <3>5
    <2> QED
        BY <1>2, <2>1 DEF write_inst_disassembly, suffix
<1>3. CASE Pseudo(i) = NoLine
    BY <1>3 DEF write_inst_disassembly, Line, suffix
<1> QED
    BY <1>2, <1>3 DEF suffix

LEMMA XorCode ==
    ASSUME NEW w \in Word, NEW row, ShapeOf(w, row), row.op = "kXor"
    PROVE  row.code = w.ext
<1>1. ShapeOf(w, row) /\ row.op = "kXor"
    OBVIOUS
<1>2. ~NoRow(row)
    BY <1>1 DEF NoRow
<1>3. ~Op31ArithShape(row)
    BY <1>1 DEF Op31ArithShape, Has, Codes
<1>4. ~Op59Shape(row)
    BY <1>1 DEF Op59Shape, Has, Codes
<1>5. ~Op63ArithShape(row)
    BY <1>1 DEF Op63ArithShape, Has, Codes
<1>6. ~PrimaryShape(row)
    <2>1. ~ImmediateShape(row)
        BY <1>1 DEF ImmediateShape, Has, Codes
    <2>2. ~OffsetLoadShape(row)
        BY <1>1 DEF OffsetLoadShape, Has, Codes
    <2>3. ~OffsetStoreShape(row)
        BY <1>1 DEF OffsetStoreShape, Has, Codes
    <2>4. ~BranchShape(row)
        BY <1>1 DEF BranchShape, Has, Codes
    <2> QED
        BY <2>1, <2>2, <2>3, <2>4 DEF PrimaryShape
<1> QED
    BY <1>1, <1>2, <1>3, <1>4, <1>5, <1>6 DEF ShapeOf

\* The letters of a line are the flags that the analyses see, whatever the words,
\* although the printer looks at the bits of the word and has its own lists of the
\* operations that have them (Disassembler.cc:465).
THEOREM SuffixAlwaysShowsFlags == Spec => []SuffixShowsFlags
<1>1. Decoded /\ Printed => SuffixShowsFlags
    <2> SUFFICES ASSUME Decoded, Printed, pc = "printed", inst.op \notin LaterSearches,
                        inst.op \notin {"kInvalid", "kAddicDot", "kAndiDot", "kAndisDot",
                                        "kStwcxDot"}
                 PROVE  Agree(line.suffix, inst.flags)
        BY DEF SuffixShowsFlags, Agree
    <2>1. PICK w \in Word : inst = Disasm(0, w)
        BY DEF Decoded
    <2> DEFINE row == RowOf(w)
    <2>2. /\ inst.op = row.op /\ inst.word = w
          /\ inst.flags = UNION {Flag(w, f) : f \in row.flags}
        BY <2>1 DEF Disasm
    <2>3. line.suffix = Suffix(row.op, w)
        BY <2>2, LineLetters DEF Printed
    <2>4. row.op \notin DOMAIN LaterCodes
        BY <2>2, LaterTable, LaterRow
    <2>5. ShapeOf(w, row) /\ (row.op = "kInvalid" \/ Lettered(row))
        BY RowOfShape, RowLettered
    <2> HIDE DEF row
    <2>6. row.op = "kXor" => row.code = w.ext
        BY <2>5, XorCode
    <2>7. Lettered(row) /\ row.op \notin DOMAIN LaterCodes \cup Dotted
        BY <2>2, <2>4, <2>5 DEF Dotted
    <2> QED
        BY <2>2, <2>3, <2>6, <2>7, LettersAgree
<1> QED
    BY <1>1, LoopInvariant, PTL

-----------------------------------------------------------------------------
(* Rotates *)

\* What a guess reads back as: the numbers that follow its mnemonic stand for the
\* shift and mask.
Stands(meant, sh, mb, me) ==
    meant[1] % 32 = sh /\ meant[2] % 32 = mb /\ meant[3] % 32 = me

ReadsBack(g, sh, mb, me) ==
    /\ Len(g) \in 2 .. 3
    /\ DOMAIN g = 1 .. Len(g)
    /\ Stands(Rotate(g[1], g[2], IF Len(g) = 3 THEN g[3] ELSE 0), sh, mb, me)

LEMMA OneNumber ==
    ASSUME NEW name, NEW n, NEW sh, NEW mb, NEW me,
           Stands(Rotate(name, n, 0), sh, mb, me)
    PROVE  ReadsBack(<<name, n>>, sh, mb, me)
BY DEF ReadsBack

LEMMA TwoNumbers ==
    ASSUME NEW name, NEW n, NEW b, NEW sh, NEW mb, NEW me,
           Stands(Rotate(name, n, b), sh, mb, me)
    PROVE  ReadsBack(<<name, n, b>>, sh, mb, me)
BY DEF ReadsBack

LEMMA RlwinmReadsBack ==
    ASSUME NEW sh \in 0 .. 31, NEW mb \in 0 .. 31, NEW me \in 0 .. 31,
           guess_rlwinm(sh, mb, me) # <<>>
    PROVE  ReadsBack(guess_rlwinm(sh, mb, me), sh, mb, me)
<1>1. CASE sh = 0 /\ mb = 0
    <2>1. guess_rlwinm(sh, mb, me) = <<"clrrwi", U8(31 - me)>>
        BY <1>1 DEF guess_rlwinm
    <2>2. Rotate("clrrwi", U8(31 - me), 0) = <<0, 0, 31 - U8(31 - me)>>
        BY DEF Rotate
    <2>3. 0 % 32 = sh /\ 0 % 32 = mb /\ (31 - U8(31 - me)) % 32 = me
        BY <1>1 DEF U8
    <2> QED
        BY <2>1, <2>2, <2>3, OneNumber DEF Stands
<1>2. CASE sh = 0 /\ me = 31 /\ mb # 0
    <2>1. guess_rlwinm(sh, mb, me) = <<"clrlwi", mb>>
        BY <1>2 DEF guess_rlwinm
    <2>2. Rotate("clrlwi", mb, 0) = <<0, mb, 31>>
        BY DEF Rotate
    <2>3. 0 % 32 = sh /\ mb % 32 = mb /\ 31 % 32 = me
        BY <1>2 DEF U8
    <2> QED
        BY <2>1, <2>2, <2>3, OneNumber DEF Stands
<1>3. CASE sh # 0 /\ mb = 0 /\ me = 31 /\ sh >= 16
    <2>1. guess_rlwinm(sh, mb, me) = <<"rotrwi", 32 - sh>>
        BY <1>3 DEF guess_rlwinm
    <2>2. Rotate("rotrwi", 32 - sh, 0) = <<32 - (32 - sh), 0, 31>>
        BY DEF Rotate
    <2>3. (32 - (32 - sh)) % 32 = sh /\ 0 % 32 = mb /\ 31 % 32 = me
        BY <1>3 DEF U8
    <2> QED
        BY <2>1, <2>2, <2>3, OneNumber DEF Stands
<1>4. CASE sh # 0 /\ mb = 0 /\ me = 31 /\ sh < 16
    <2>1. guess_rlwinm(sh, mb, me) = <<"rotlwi", sh>>
        BY <1>4 DEF guess_rlwinm
    <2>2. Rotate("rotlwi", sh, 0) = <<sh, 0, 31>>
        BY DEF Rotate
    <2>3. sh % 32 = sh /\ 0 % 32 = mb /\ 31 % 32 = me
        BY <1>4 DEF U8
    <2> QED
        BY <2>1, <2>2, <2>3, OneNumber DEF Stands
<1>5. CASE sh # 0 /\ mb = 0 /\ me # 31 /\ sh + me = 31
    <2>1. guess_rlwinm(sh, mb, me) = <<"slwi", 31 - me>>
        BY <1>5 DEF guess_rlwinm
    <2>2. Rotate("slwi", 31 - me, 0) = <<31 - me, 0, 31 - (31 - me)>>
        BY DEF Rotate
    <2>3. (31 - me) % 32 = sh /\ 0 % 32 = mb /\ (31 - (31 - me)) % 32 = me
        BY <1>5 DEF U8
    <2> QED
        BY <2>1, <2>2, <2>3, OneNumber DEF Stands
<1>6. CASE sh # 0 /\ mb = 0 /\ me # 31 /\ sh + me # 31
    <2>1. guess_rlwinm(sh, mb, me) = <<"extlwi", me + 1, sh>>
        BY <1>6 DEF guess_rlwinm
    <2>2. Rotate("extlwi", me + 1, sh) = <<sh, 0, (me + 1) - 1>>
        BY DEF Rotate
    <2>3. sh % 32 = sh /\ 0 % 32 = mb /\ ((me + 1) - 1) % 32 = me
        BY <1>6 DEF U8
    <2> QED
        BY <2>1, <2>2, <2>3, TwoNumbers DEF Stands
<1>7. CASE sh # 0 /\ mb # 0 /\ me = 31 /\ sh + mb = 32
    <2>1. guess_rlwinm(sh, mb, me) = <<"srwi", mb>>
        BY <1>7 DEF guess_rlwinm
    <2>2. Rotate("srwi", mb, 0) = <<32 - mb, mb, 31>>
        BY DEF Rotate
    <2>3. (32 - mb) % 32 = sh /\ mb % 32 = mb /\ 31 % 32 = me
        BY <1>7 DEF U8
    <2> QED
        BY <2>1, <2>2, <2>3, OneNumber DEF Stands
<1>8. CASE sh # 0 /\ mb # 0 /\ me = 31 /\ sh + mb # 32
    <2>1. guess_rlwinm(sh, mb, me) = <<"extrwi", 32 - mb, U8(sh - (32 - mb))>>
        BY <1>8 DEF guess_rlwinm
    <2>2. Rotate("extrwi", 32 - mb, U8(sh - (32 - mb))) = <<U8(sh - (32 - mb)) + (32 - mb), 32 - (32 - mb), 31>>
        BY DEF Rotate
    <2>3. (U8(sh - (32 - mb)) + (32 - mb)) % 32 = sh /\ (32 - (32 - mb)) % 32 = mb /\ 31 % 32 = me
        BY <1>8 DEF U8
    <2> QED
        BY <2>1, <2>2, <2>3, TwoNumbers DEF Stands
<1>9. CASE mb # 0 /\ me # 31 /\ sh + me = 31 /\ mb + sh <= 31
    <2>1. guess_rlwinm(sh, mb, me) = <<"clrlslwi", sh, mb + sh>>
        BY <1>9 DEF guess_rlwinm
    <2>2. Rotate("clrlslwi", sh, mb + sh) = <<sh, (mb + sh) - sh, 31 - sh>>
        BY DEF Rotate
    <2>3. sh % 32 = sh /\ ((mb + sh) - sh) % 32 = mb /\ (31 - sh) % 32 = me
        BY <1>9 DEF U8
    <2> QED
        BY <2>1, <2>2, <2>3, TwoNumbers DEF Stands
<1>10. CASE mb # 0 /\ me # 31 /\ ~(sh + me = 31 /\ mb + sh <= 31)
    BY <1>10 DEF guess_rlwinm
<1> QED
    BY <1>1, <1>2, <1>3, <1>4, <1>5, <1>6, <1>7, <1>8, <1>9, <1>10

LEMMA RlwimiReadsBack ==
    ASSUME NEW sh \in 0 .. 31, NEW mb \in 0 .. 31, NEW me \in 0 .. 31,
           guess_rlwimi(sh, mb, me) # <<>>
    PROVE  ReadsBack(guess_rlwimi(sh, mb, me), sh, mb, me)
<1>1. CASE sh + mb = 32
    <2>1. guess_rlwimi(sh, mb, me) = <<"inslwi", U8(me + 1 - mb), mb>>
        BY <1>1 DEF guess_rlwimi
    <2>2. Rotate("inslwi", U8(me + 1 - mb), mb) = <<32 - mb, mb, mb + U8(me + 1 - mb) - 1>>
        BY DEF Rotate
    <2>3. (32 - mb) % 32 = sh /\ mb % 32 = mb /\ (mb + U8(me + 1 - mb) - 1) % 32 = me
        BY <1>1 DEF U8
    <2> QED
        BY <2>1, <2>2, <2>3, TwoNumbers DEF Stands
<1>2. CASE sh + mb # 32 /\ sh + me = 31
    <2>1. guess_rlwimi(sh, mb, me) = <<"insrwi", U8(me + 1 - mb), mb>>
        BY <1>2 DEF guess_rlwimi
    <2>2. Rotate("insrwi", U8(me + 1 - mb), mb) = <<32 - (mb + U8(me + 1 - mb)), mb, mb + U8(me + 1 - mb) - 1>>
        BY DEF Rotate
    <2>3. (32 - (mb + U8(me + 1 - mb))) % 32 = sh /\ mb % 32 = mb /\ (mb + U8(me + 1 - mb) - 1) % 32 = me
        BY <1>2 DEF U8
    <2> QED
        BY <2>1, <2>2, <2>3, TwoNumbers DEF Stands
<1>3. CASE sh + mb # 32 /\ sh + me # 31
    BY <1>3 DEF guess_rlwimi
<1> QED
    BY <1>1, <1>2, <1>3

\* What follows two arguments.
LEMMA AfterTwo ==
    ASSUME NEW S, NEW s \in Seq(S), NEW t \in Seq(S), Len(s) = 2, Len(t) \in 1 .. 2
    PROVE  /\ Len(s \o t) = 2 + Len(t)
           /\ (s \o t)[3] = t[1]
           /\ Len(t) = 2 => (s \o t)[4] = t[2]
<1> DEFINE both == s \o t
<1>1. /\ Len(both) = Len(s) + Len(t)
      /\ \A k \in 1 .. Len(s) + Len(t) :
             both[k] = IF k <= Len(s) THEN s[k] ELSE t[k - Len(s)]
    BY ConcatProperties
<1>2. Len(t) = 1 \/ Len(t) = 2
    OBVIOUS
<1> HIDE DEF both
<1> QED
    BY <1>1, <1>2 DEF both

\* The line of a rotate that is not shown by its own name.
Rotated(g, w, suffix) ==
    Line(<<g[1]>>, suffix, Arguments(w, <<"ra", "rs">>) \o Numbers(g))

\* The line has the name and the numbers of the guess.
Shows(l, g) ==
    /\ l.name[1] = g[1]
    /\ Len(l.args) = Len(g) + 1
    /\ l.args[3][2] = g[2]
    /\ Len(g) = 3 => l.args[4][2] = g[3]

LEMMA RotateLine ==
    ASSUME NEW g, NEW w, NEW suffix, Len(g) \in 2 .. 3, DOMAIN g = 1 .. Len(g)
    PROVE  Shows(Rotated(g, w, suffix), g)
<1> DEFINE l == Rotated(g, w, suffix)
           shown == Arguments(w, <<"ra", "rs">>)
           numbers == Numbers(g)
           S == {shown[1], shown[2], numbers[1], numbers[2]}
<1>1. l.name[1] = g[1] /\ l.args = shown \o numbers
    BY DEF Line, Rotated
<1>2. shown = [k \in 1 .. 2 |-> shown[k]]
    BY DEF Arguments
<1>3. numbers = [k \in 1 .. Len(g) - 1 |-> <<"num", g[k + 1]>>]
    BY DEF Numbers
<1> HIDE DEF shown, numbers, l
<1>4. shown \in Seq(S) /\ Len(shown) = 2
    BY <1>2
<1>5. Len(g) = 2 \/ Len(g) = 3
    OBVIOUS
<1>6. /\ numbers \in Seq(S) /\ Len(numbers) = Len(g) - 1
      /\ numbers[1][2] = g[2]
      /\ Len(g) = 3 => numbers[2][2] = g[3]
    <2>1. CASE Len(g) = 2
        BY <1>3, <2>1
    <2>2. CASE Len(g) = 3
        BY <1>3, <2>2
    <2> QED
        BY <1>5, <2>1, <2>2
<1> HIDE DEF S
<1>7. Len(numbers) \in 1 .. 2
    BY <1>5, <1>6
<1>8. /\ Len(shown \o numbers) = 2 + Len(numbers)
      /\ (shown \o numbers)[3] = numbers[1]
      /\ Len(numbers) = 2 => (shown \o numbers)[4] = numbers[2]
    BY <1>4, <1>6, <1>7, AfterTwo
<1> QED
    BY <1>1, <1>5, <1>6, <1>8 DEF l, Shows

LEMMA RotateReadsBack ==
    ASSUME NEW i, i.word \in Word, i.op \in {"kRlwinm", "kRlwimi"},
           write_inst_disassembly(i).name # <<i.op>>
    PROVE  LET l == write_inst_disassembly(i)
           IN  Stands(Rotate(l.name[1], l.args[3][2],
                             IF Len(l.args) = 4 THEN l.args[4][2] ELSE 0),
                      i.word.b, i.word.ext \div 32, i.word.ext % 32)
<1> DEFINE l == write_inst_disassembly(i)
           sh == i.word.b
           mb == i.word.ext \div 32
           me == i.word.ext % 32
           g == IF i.op = "kRlwinm" THEN guess_rlwinm(sh, mb, me) ELSE guess_rlwimi(sh, mb, me)
<1>1. sh \in 0 .. 31 /\ mb \in 0 .. 31 /\ me \in 0 .. 31
    <2>1. i.word.b \in 0 .. 31 /\ i.word.ext \in 0 .. 1023
        BY DEF Word
    <2>2. \A n \in 0 .. 1023 : n \div 32 \in 0 .. 31 /\ n % 32 \in 0 .. 31
        OBVIOUS
    <2>3. \A n : n = i.word.ext => n \div 32 \in 0 .. 31 /\ n % 32 \in 0 .. 31
        BY ONLY ZenonT(30), <2>1, <2>2
    <2> QED
        BY ONLY Zenon, <2>1, <2>3 DEF sh, mb, me
<1>2. Pseudo(i) # NoLine /\ l = Pseudo(i)
    BY DEF write_inst_disassembly, Line
<1>3. /\ g # <<>>
      /\ l = Rotated(g, i.word, Suffix(i.op, i.word))
    <2>1. CASE i.op = "kRlwinm"
        BY <1>2, <2>1 DEF Pseudo, Rotated
    <2>2. CASE i.op = "kRlwimi"
        BY <1>2, <2>2 DEF Pseudo, Rotated
    <2> QED
        BY <2>1, <2>2
<1>4. ReadsBack(g, sh, mb, me)
    <2> HIDE DEF sh, mb, me
    <2>1. CASE i.op = "kRlwinm"
        BY <1>1, <1>3, <2>1, RlwinmReadsBack
    <2>2. CASE i.op = "kRlwimi"
        BY <1>1, <1>3, <2>2, RlwimiReadsBack
    <2> QED
        BY <2>1, <2>2
<1> HIDE DEF l, sh, mb, me, g
<1>5. Len(g) \in 2 .. 3 /\ DOMAIN g = 1 .. Len(g)
    BY <1>4 DEF ReadsBack
<1>6. Shows(l, g)
    BY <1>3, <1>5, RotateLine
<1>7. (IF Len(l.args) = 4 THEN l.args[4][2] ELSE 0) = (IF Len(g) = 3 THEN g[3] ELSE 0)
    BY <1>5, <1>6 DEF Shows
<1>8. Stands(Rotate(l.name[1], l.args[3][2], IF Len(l.args) = 4 THEN l.args[4][2] ELSE 0), sh, mb, me)
    BY <1>4, <1>6, <1>7 DEF ReadsBack, Shows
<1> QED
    BY <1>8 DEF l, sh, mb, me

\* The simplified mnemonic that guess_rlwinm or guess_rlwimi picks stands for the
\* shift and mask of the word, whatever they are (Disassembler.cc:854, 930).
THEOREM RotatesAlwaysReadBack == Spec => []RotatesReadBack
<1>1. Decoded /\ Printed => RotatesReadBack
    <2> SUFFICES ASSUME Decoded, Printed, pc = "printed", inst.op \in {"kRlwinm", "kRlwimi"},
                        line.name # <<inst.op>>
                 PROVE  Stands(Rotate(line.name[1], line.args[3][2],
                                      IF Len(line.args) = 4 THEN line.args[4][2] ELSE 0),
                               inst.word.b, inst.word.ext \div 32, inst.word.ext % 32)
        BY DEF RotatesReadBack, Stands
    <2>1. PICK w \in Word : inst = Disasm(0, w)
        BY DEF Decoded
    <2>2. inst.word \in Word
        BY <2>1 DEF Disasm
    <2>3. line = write_inst_disassembly(inst)
        BY DEF Printed
    <2> QED
        BY <2>2, <2>3, RotateReadsBack
<1> QED
    BY <1>1, LoopInvariant, PTL
=============================================================================
