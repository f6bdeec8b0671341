------------------------------- MODULE Gekko -------------------------------
(***************************************************************************)
(* The subroutine under analysis as the graph builder sees it: one         *)
(* instruction per word, reduced to what decides where control goes next.  *)
(* The four kinds are the cases of the switch in run_graph_analysis        *)
(* (src/ppc/SubroutineGraph.cc:86-127); what the decoder makes of a word   *)
(* is in module PpcDisasm. Addresses are word indices: address + 4 of the  *)
(* code is a + 1 here.                                                     *)
(***************************************************************************)
EXTENDS Integers

CONSTANTS N,      \* the routine occupies the words 0 .. N-1
          Entry   \* subroutine_start

Addr == 0 .. N - 1

Op == {"kB",       \* b, bl, ba, bla
       "kBc",      \* conditional branch
       "kReturn",  \* kBclr and kBcctr: ends the block, no known target
       "kOther"}

\* lk: the instruction has kWritesLR, so control comes back after it.
\* target: the address a taken branch goes to (0 where there is none). It is
\* also what branch_target() returns, which treats every branch as relative:
\* absolute calls, which the two read differently, are left out.
Inst == [op : Op, lk : BOOLEAN, target : Addr]

EndsBlock(i) == ~i.lk /\ i.op # "kOther"

\* Control cannot run off the routine: its last word is an unconditional
\* transfer. (Reading past the last section yields zeros, which decode as
\* kInvalid, and the builder would run on through them.)
IsProgram(code) ==
    /\ code \in [Addr -> Inst]
    /\ EndsBlock(code[N - 1]) /\ code[N - 1].op # "kBc"

ASSUME EntryAssumption == N \in Nat /\ Entry \in Addr

\* Where control may be after the instruction at a, inside the routine. A
\* return is taken to be unconditional, as everywhere in the decompiler.
Succ(code, a) ==
    LET i == code[a]
    IN  CASE i.lk \/ i.op = "kOther" -> {a + 1}
          [] ~i.lk /\ i.op = "kB" -> {i.target}
          [] ~i.lk /\ i.op = "kBc" -> {i.target, a + 1}
          [] ~i.lk /\ i.op = "kReturn" -> {}
=============================================================================
