--------------------------- MODULE RegisterBinding ---------------------------
(***************************************************************************)
(* The temporaries of the IR (src/ir/RegisterBinding.hh and                *)
(* compute_block_binds of src/ir/GekkoTranslator.cc), on the result of the *)
(* liveness analysis. Each maximal piece of a block through which a        *)
(* register is live becomes a temporary of the block; those that meet at   *)
(* the end of a block are united, and each set is a temporary of the       *)
(* routine.                                                                *)
(*                                                                         *)
(* As in RegisterLiveness this is one register class. Blocks, and then     *)
(* forwarding lists, are taken in any order: the numbering of temporaries  *)
(* depends on it, and is left out. The client binds every real block once. *)
(* (translate, GekkoTranslator.cc:780, returns on real vertices instead,   *)
(* and takes the data of a pseudo vertex, which has none.)                 *)
(***************************************************************************)
EXTENDS RegisterLiveness, FiniteSetsExt

CONSTANT AbiRegs    \* kRegSets._abi_regs

ASSUME AbiRegsAssumption == AbiRegs \subseteq Reg

VARIABLES
    stage,        \* "blocks", "unite", "collected"
    unbound,      \* the blocks compute_block_binds has still to be called for
    block_temps,  \* _block_temps
    is_param, is_ret,    \* those of them with the flag
    forwarding_list,     \* per block, what has not been united yet
    root,         \* the end of each chain of _parent in the union-find forest
    gtemp         \* the temporary of the routine a block's belongs to

bindVars == <<stage, unbound, block_temps, is_param, is_ret, forwarding_list,
              root, gtemp>>
allVars == <<vars, bindVars>>

\* BlockBindInfo: the register is live from instruction lo to instruction hi. The
\* addresses are 4 * (lo - 1) and, exclusive, 4 * hi from the start of the block.
IsBlockTemp(t) ==
    /\ t = [block |-> t.block, reg |-> t.reg, lo |-> t.lo, hi |-> t.hi]
    /\ t.block \in Block /\ t.reg \in Reg \ AbiRegs
    /\ t.hi \in 1 .. Len(Code(t.block)) /\ t.lo \in 1 .. t.hi

BindTypeOK ==
    /\ stage \in {"blocks", "unite", "collected"} /\ unbound \subseteq Block
    /\ \A t \in block_temps : IsBlockTemp(t)
    /\ is_param \subseteq block_temps /\ is_ret \subseteq block_temps
    /\ forwarding_list \in [Block -> SUBSET block_temps]
    /\ root \in [block_temps -> block_temps]
    /\ gtemp \in [DOMAIN gtemp -> block_temps]
    /\ stage = "collected" => DOMAIN gtemp = block_temps

-----------------------------------------------------------------------------
(* compute_block_binds *)

\* The slip that never moves the start of a region.
RgnBeginAtStart(b, r, k) == 1

\* rgn_begin when instruction k is reached: the last one that made r live, or the
\* start of the block.
RgnBegin(b, r, k) ==
    Max({1} \cup {j \in 1 .. k : r \in live_out[b][j] \ live_in[b][j]})

Region(b, r, k) == [block |-> b, reg |-> r, lo |-> RgnBegin(b, r, k), hi |-> k]

\* r is live up to instruction k and not after it.
Closed(b) ==
    {Region(b, x[1], x[2]) : x \in {x \in (Reg \ AbiRegs) \X (1 .. Len(Code(b))) :
                                       x[1] \in live_in[b][x[2]] \ live_out[b][x[2]]}}

\* r is live at the end of the block.
Open(b) == {Region(b, r, Len(Code(b))) : r \in output[b] \ AbiRegs}

\* A value nobody wants: a temporary of one instruction.
UnusedTemps(b) ==
    {[block |-> b, reg |-> x[1], lo |-> x[2], hi |-> x[2]] :
        x \in {x \in (Reg \ AbiRegs) \X (1 .. Len(Code(b))) :
                  x[1] \in Def(Code(b)[x[2]]) \ (live_in[b][x[2]] \cup live_out[b][x[2]])}}

\* For every register of regs, the first temporary of b that ends: param_in and
\* connect_in hold it until then.
FirstOf(b, regs) ==
    {t \in Closed(b) \cup Open(b) :
        t.reg \in regs /\ \A s \in Closed(b) \cup Open(b) : s.reg = t.reg => t.hi <= s.hi}

\* The slip that does not publish the inputs of a block to those before.
PublishOutOnly(b) == [v \in Block |-> IF v = b THEN forwarding_list[v] \cup Open(b)
                                      ELSE forwarding_list[v]]

\* publish_out and publish_in: the list of a block holds what is live at its end
\* and what is live where its successors start. The list of the preheader gets
\* no two temporaries of one register and is left out.
Published(b) ==
    [v \in Block |-> forwarding_list[v]
        \cup (IF v = b THEN Open(b) ELSE {})
        \cup (IF v \in Preds(b) THEN FirstOf(b, input[b]) ELSE {})]

ComputeBlockBinds(b) ==
    LET new == Closed(b) \cup Open(b) \cup UnusedTemps(b)
    IN  /\ stage = "blocks" /\ b \in unbound
        /\ unbound' = unbound \ {b}
        /\ block_temps' = block_temps \cup new
        /\ root' = [t \in block_temps \cup new |-> IF t \in new THEN t ELSE root[t]]
        /\ is_param' = is_param \cup FirstOf(b, routine_inputs[b])
        /\ is_ret' = is_ret \cup {t \in Open(b) : IsExit(b) /\ t.reg \in ReturnSet}
        /\ forwarding_list' = Published(b)
        /\ UNCHANGED <<stage, gtemp>>

-----------------------------------------------------------------------------
(* collect_block_scope_temps *)

\* The length of the chains, which caching shortens, changes no answer.
representative(tid) == root[tid]

StartUnite ==
    /\ stage = "blocks" /\ unbound = {}
    /\ stage' = "unite"
    /\ UNCHANGED <<unbound, block_temps, is_param, is_ret, forwarding_list, root, gtemp>>

\* What std::partition moves to the end of the list.
Group(v, reg) == {t \in forwarding_list[v] : t.reg = reg}

\* rep gets the flag if one of those it stands for from now on has it.
Flagged(flag, reps, rep) == IF reps \cap flag # {} THEN flag \cup {rep} ELSE flag

\* One group of one list. Which of its members comes first, and lends the group
\* its representative, is up to std::partition.
Unite(v, reg) ==
    LET reps == {representative(t) : t \in Group(v, reg)}
    IN  /\ stage = "unite" /\ \E t \in forwarding_list[v] : t.reg = reg
        /\ \E rep \in reps :
              /\ root' = [t \in block_temps |-> IF root[t] \in reps THEN rep ELSE root[t]]
              /\ is_param' = Flagged(is_param, reps, rep)
              /\ is_ret' = Flagged(is_ret, reps, rep)
        /\ forwarding_list' = [forwarding_list EXCEPT ![v] = @ \ Group(v, reg)]
        /\ UNCHANGED <<stage, unbound, block_temps, gtemp>>

\* The flags of a temporary of the routine are those of the representative.
Collect ==
    /\ stage = "unite" /\ \A v \in Block : forwarding_list[v] = {}
    /\ gtemp' = [t \in block_temps |-> representative(t)]
    /\ stage' = "collected"
    /\ UNCHANGED <<unbound, block_temps, is_param, is_ret, forwarding_list, root>>

Unbound ==
    /\ stage = "blocks" /\ unbound = Block
    /\ block_temps = {} /\ is_param = {} /\ is_ret = {}
    /\ forwarding_list = [v \in Block |-> {}]
    /\ root = [t \in {} |-> t] /\ gtemp = [t \in {} |-> t]

BindInit == Init /\ Unbound

\* translate_subroutine runs after the analysis.
BindNext ==
    \/ Next /\ UNCHANGED bindVars
    \/ /\ pc = "done" /\ UNCHANGED vars
       /\ \/ \E b \in Block : ComputeBlockBinds(b)
          \/ StartUnite
          \/ \E v \in Block, reg \in Reg : Unite(v, reg)
          \/ Collect

BindSpec == BindInit /\ [][BindNext]_allVars /\ WF_allVars(BindNext)

-----------------------------------------------------------------------------
(* Properties *)

Collected == stage = "collected"

\* query_temp: the temporaries of r at instruction k of b.
TempsAt(b, k, r) ==
    {gtemp[t] : t \in {t \in block_temps :
                          t.block = b /\ t.reg = r /\ t.lo <= k /\ k <= t.hi}}

\* The insertion into _temp_ranges, which stands inside an assert
\* (RegisterBinding.hh:139), always finds room: however uses, definitions and
\* calls alternate, no register has two temporaries in one place.
RegionsApart ==
    \A s, t \in block_temps :
        s # t /\ s.block = t.block /\ s.reg = t.reg => s.hi < t.lo \/ t.hi < s.lo

\* A call has destroyed what r held before instruction k of b.
Destroyed(b, k, r) ==
    \E i \in 1 .. k - 1 :
        /\ r \in Kill(Code(b)[i])
        /\ \A j \in i + 1 .. k - 1 : r \notin Def(Code(b)[j]) \cup Use(Code(b)[j])

\* translate_op dereferences what query_temp returns: every operand has one
\* temporary, values nobody wants included. Not so a register read after a call
\* has destroyed its value, which compiled code does not do.
OperandsBound ==
    Collected => \A b \in Block : \A k \in 1 .. Len(Code(b)) :
        /\ \A r \in Def(Code(b)[k]) \ AbiRegs : Cardinality(TempsAt(b, k, r)) = 1
        /\ \A r \in Use(Code(b)[k]) \ AbiRegs :
              Cardinality(TempsAt(b, k, r)) = 1 \/ Destroyed(b, k, r)

\* No instruction of S changes r in b.
Unchanged(b, S, r) == \A j \in S : r \notin Kill(Code(b)[j]) \cup Def(Code(b)[j])

\* The blocks control may go to from b through blocks that leave r alone.
Onward(b, r) ==
    Reached(Block, Succs(b),
            {e \in Block \X Block : e[2] \in Succs(e[1]) /\ r \notin Overwrites(Code(e[1]))})

\* The value instruction k of b gives r may be the one instruction m of d reads.
Feeds(b, k, d, m, r) ==
    \/ b = d /\ k < m /\ Unchanged(b, k + 1 .. m - 1, r)
    \/ /\ d \in Onward(b, r)
       /\ Unchanged(b, k + 1 .. Len(Code(b)), r) /\ Unchanged(d, 1 .. m - 1, r)

\* A value keeps its name: the instruction that computes it writes the temporary
\* that every instruction it can reach reads, across blocks, joins and loops.
\* Otherwise the IR would read a variable nobody has set.
ValuesKeepTheirTemp ==
    Collected => \A b, d \in Block :
        \A k \in 1 .. Len(Code(b)) : \A m \in 1 .. Len(Code(d)) :
            \A r \in (Def(Code(b)[k]) \cap Use(Code(d)[m])) \ AbiRegs :
                Feeds(b, k, d, m, r) => TempsAt(b, k, r) = TempsAt(d, m, r)

\* t is live at the end of v or where a successor of v starts.
MeetsEndOf(v, t) ==
    \/ t.block = v /\ t.hi = Len(Code(v)) /\ t.reg \in live_out[v][t.hi]
    \/ v \in Preds(t.block) /\ t.lo = 1 /\ t.reg \in live_in[t.block][1]

Touching(s, t) == s.reg = t.reg /\ \E v \in Block : MeetsEndOf(v, s) /\ MeetsEndOf(v, t)

\* What a chain of block ends connects t to.
Connected(t) ==
    LET same == {s \in block_temps : s.reg = t.reg}
    IN  Reached(same, {t}, {e \in same \X same : Touching(e[1], e[2])})

\* Two temporaries of blocks share a name only if a chain of block ends connects
\* them, and always then, whatever the order of the unions: values that never
\* meet stay apart.
TempsExact ==
    Collected => \A t \in block_temps :
        {s \in block_temps : gtemp[s] = gtemp[t]} = Connected(t)

\* The flags survive the unions: a temporary of the routine is a parameter if it
\* holds, where some block starts, one of the parameters found there, and is
\* returned if an exit ends with it. ParamRef stands for the former.
FlagsExact ==
    Collected => \A t \in block_temps :
        /\ gtemp[t] \in is_param <=>
              \E s \in Connected(t) : s.lo = 1 /\ s.reg \in routine_inputs[s.block]
        /\ gtemp[t] \in is_ret <=>
              \E s \in Connected(t) : /\ IsExit(s.block) /\ s.reg \in ReturnSet
                                      /\ s.hi = Len(Code(s.block)) /\ s.reg \in output[s.block]

\* Every operand has one temporary, and regions of one register keep apart.
OperandsNamed == BindTypeOK /\ RegionsApart /\ OperandsBound

\* Temporaries are named, and flagged, by the values that flow between them.
ValuesNamed == ValuesKeepTheirTemp /\ TempsExact /\ FlagsExact
=============================================================================
