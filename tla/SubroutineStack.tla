--------------------------- MODULE SubroutineStack ---------------------------
(***************************************************************************)
(* src/ppc/SubroutineStack.cc: the variables and parameters a routine      *)
(* keeps on its stack, found from the instructions that name r1. A stack   *)
(* value is the size of the frame and, per region, the variables by their  *)
(* offset; the order of the two vectors is left out.                       *)
(***************************************************************************)
EXTENDS PpcDisasm, SequencesExt

NewStack == [size |-> 0, vars |-> <<>>, params |-> <<>>]

NewVariable == [types |-> {}, refs |-> {}, is_frame_storage |-> FALSE]

convert_data_type(type) ==
    CASE type = "kS1" -> {"kByte"}
      [] type = "kS2" -> {"kHalfWord"}
      [] type = "kS4" -> {"kWord"}
      [] type = "kSingle" -> {"kSingle"}
      [] type = "kDouble" -> {"kDouble"}
      [] OTHER -> {}

in_param_region(st, offset) == offset > st.size + 4

RegionOf(st, offset) == IF in_param_region(st, offset) THEN "params" ELSE "vars"

\* variable_for_offset finds one.
HasVariable(st, offset) == offset \in DOMAIN st[RegionOf(st, offset)]

variable_for_offset(st, offset) == st[RegionOf(st, offset)][offset]

IsParam(st, offset) == RegionOf(st, offset) = "params"

Put(region, offset, variable) ==
    [o \in DOMAIN region \cup {offset} |-> IF o = offset THEN variable ELSE region[o]]

\* The slip that knows one region.
ReferInVars(st, va, reftype, offset, types) ==
    LET old == IF offset \in DOMAIN st.vars THEN st.vars[offset] ELSE NewVariable
        new == [old EXCEPT !.types = @ \cup types, !.refs = @ \cup {<<va, reftype>>}]
    IN  [st EXCEPT !.vars = Put(@, offset, new)]

\* The find_if and the two branches after it, in analyze_readwrite and
\* analyze_sp_mem_ref.
Refer(st, va, reftype, offset, types) ==
    LET region == RegionOf(st, offset)
        old == IF HasVariable(st, offset) THEN variable_for_offset(st, offset)
               ELSE NewVariable
        new == [old EXCEPT !.types = @ \cup types, !.refs = @ \cup {<<va, reftype>>}]
    IN  [st EXCEPT ![region] = Put(@, offset, new)]

\* abs, back in an int16_t: the least one is its own.
Abs(n) == IF n < 0 /\ n # -(2 ^ 15) THEN -n ELSE n

\* A pair of singles is two variables.
analyze_readwrite(st, va, mem, reftype) ==
    LET offset == Abs(mem.off)
    IN  IF mem.type = "kPackedSingle"
        THEN Refer(Refer(st, va, reftype, offset, {"kSingle"}),
                   va, reftype, offset + 4, {"kSingle"})
        ELSE Refer(st, va, reftype, offset, convert_data_type(mem.type))

analyze_sp_mem_ref(st, inst) ==
    IF inst.op \in {"kAddi", "kAddic"}
    THEN Refer(st, inst.va, "kAddress", inst.reads[2].val, {})
    ELSE st

\* Frame sizes are uint16_t.
analyze_sp_modify(st, inst) ==
    IF inst.op = "kStwu" THEN [st EXCEPT !.size = (-inst.writes[1].off) % 2 ^ 16] ELSE st

IsR1(x) == x.kind = "GPRSlice" /\ x.reg = 1
IsSlot(x) == x.kind = "MemRegOff" /\ x.base = 1

\* What get_read_op or get_write_op returns: no instruction has two.
Slots(operands) == {x \in Range(operands) : IsSlot(x)}
SlotOf(operands) == CHOOSE x \in Slots(operands) : TRUE

Sized(st, inst) ==
    IF \E x \in Range(inst.writes) : IsR1(x) THEN analyze_sp_modify(st, inst) ELSE st

\* The references of an instruction, in the order of the operands.
Referred(st, inst) ==
    LET read == IF Slots(inst.reads) = {} THEN st
                ELSE analyze_readwrite(st, inst.va, SlotOf(inst.reads), "kRead")
        named == IF \E x \in Range(inst.reads) : IsR1(x)
                 THEN analyze_sp_mem_ref(read, inst) ELSE read
    IN  IF Slots(inst.writes) = {} THEN named
        ELSE analyze_readwrite(named, inst.va, SlotOf(inst.writes), "kWrite")

\* The slip that takes the frame to be allocated when the instruction is over.
analyze_block_inst_late(st, inst) == Sized(Referred(st, inst), inst)

\* One turn of the loop of analyze_block: a new size counts for the references of
\* the same instruction already.
analyze_block_inst(st, inst) == Referred(Sized(st, inst), inst)

\* stack.variable_for_offset(offset)->_is_frame_storage = true
MarkFrameStorage(st, offset) ==
    [st EXCEPT ![RegionOf(st, offset)][offset].is_frame_storage = TRUE]
=============================================================================
