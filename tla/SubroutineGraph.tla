--------------------------- MODULE SubroutineGraph ---------------------------
(***************************************************************************)
(* run_graph_analysis (src/ppc/SubroutineGraph.cc:34-149): builds the      *)
(* control flow graph of one routine by scanning it from a work stack of   *)
(* block entries, splitting blocks that turn out to be branched into.      *)
(*                                                                         *)
(* One step is one iteration of the scan loop; the second handle_branch of *)
(* a conditional branch and each vertex of the closing foreach_real are    *)
(* steps of their own.                                                     *)
(***************************************************************************)
EXTENDS Gekko, FlowGraph

CONSTANT Programs   \* the routines analysed

ASSUME ProgramsAssumption == \A routine \in Programs : IsProgram(routine)

VARIABLES
    code,          \* the routine in memory; never changes
    pc,            \* where in run_graph_analysis we are
    gr,            \* the graph
    block_start,   \* _block_start of every real vertex
    block_end,     \* _block_end of every real vertex, exclusive
    block_stack,   \* real vertices still to be scanned
    this_block,    \* the block being scanned
    inst_address,  \* the word being scanned
    direct_calls,  \* _direct_calls, the targets of the calls scanned
    fill,          \* the vertex the closing foreach_real has reached
    selfSplit      \* history: a block was split while it was being scanned

vars == <<code, pc, gr, block_start, block_end, block_stack, this_block,
          inst_address, direct_calls, fill, selfSplit>>
scanVars == <<this_block, inst_address, direct_calls>>
blockVars == <<gr, block_start, block_end, block_stack, selfSplit>>

Blocks == FirstReal .. gr.size - 1

\* The slip that looks only at blocks already scanned.
ScannedBlocksAtHead(a) ==
    {b \in Blocks : block_start[b] = a /\ block_end[b] > a + 1}

\* at_block_head, and contained_in_block when the blocks end at `end`; find_real
\* returns the candidate of least index.
BlocksAtHead(a) == {b \in Blocks : block_start[b] = a}
BlocksContaining(end, a) == {b \in Blocks : block_start[b] < a /\ a < end[b]}

\* f, a function on Blocks, with one more block.
GrowBlocks(f, x) ==
    [b \in FirstReal .. gr.size |-> IF b = gr.size THEN x ELSE f[b]]

-----------------------------------------------------------------------------
(* handle_branch: cur, whose last instruction is at inst_address, transfers *)
(* control to target. `end` is _block_end when it is called.                *)

\* To the head of a known block ...
LinkKnown(end, cur, target, tr) ==
    /\ BlocksAtHead(target) # {}
    /\ gr' = EmplaceLink(gr, cur, Min(BlocksAtHead(target)), tr)
    /\ block_end' = end
    /\ UNCHANGED <<block_start, block_stack, selfSplit>>

\* The slip that does not shorten the original block.
SplitEndsKept(end, original, a) == GrowBlocks(end, end[original])

\* split_blocks: original keeps the words below a, the new block has the rest.
SplitEnds(end, original, a) ==
    [GrowBlocks(end, end[original]) EXCEPT ![original] = a]

\* The slips that queue the tail, and that lead the branch to the top.
SplitAndQueue(end, cur, target, tr) ==
    /\ BlocksAtHead(target) = {}
    /\ BlocksContaining(end, target) # {}
    /\ LET original == Min(BlocksContaining(end, target))
       IN /\ gr' = EmplaceLink(InsertAfter(gr, original, "kFallthrough"),
                               cur, gr.size, tr)
          /\ block_end' = [SplitEnds(end, original, target)
                              EXCEPT ![cur] = inst_address + 1]
          /\ selfSplit' = (selfSplit \/ original = cur)
    /\ block_start' = GrowBlocks(block_start, target)
    /\ block_stack' = Append(block_stack, gr.size)

SplitLinkingTop(end, cur, target, tr) ==
    /\ BlocksAtHead(target) = {}
    /\ BlocksContaining(end, target) # {}
    /\ LET original == Min(BlocksContaining(end, target))
       IN /\ gr' = EmplaceLink(InsertAfter(gr, original, "kFallthrough"),
                               cur, original, tr)
          /\ block_end' = [SplitEnds(end, original, target)
                              EXCEPT ![cur] = inst_address + 1]
          /\ selfSplit' = (selfSplit \/ original = cur)
    /\ block_start' = GrowBlocks(block_start, target)
    /\ UNCHANGED block_stack

\* ... into a known block: split_blocks keeps its top under the old index and
\* moves its tail, with its out-edges, to a new one, which is not queued ...
SplitKnown(end, cur, target, tr) ==
    /\ BlocksAtHead(target) = {}
    /\ BlocksContaining(end, target) # {}
    /\ LET original == Min(BlocksContaining(end, target))
       IN /\ gr' = EmplaceLink(InsertAfter(gr, original, "kFallthrough"),
                               cur, gr.size, tr)
          /\ block_end' = [SplitEnds(end, original, target)
                              EXCEPT ![cur] = inst_address + 1]
          /\ selfSplit' = (selfSplit \/ original = cur)
    /\ block_start' = GrowBlocks(block_start, target)
    /\ UNCHANGED block_stack

\* ... or to an address in no block yet, queued as a block of one word.
NewBlock(end, cur, target, tr) ==
    /\ BlocksAtHead(target) = {}
    /\ BlocksContaining(end, target) = {}
    /\ gr' = EmplaceLink(EmplaceVertex(gr), cur, gr.size, tr)
    /\ block_end' = [GrowBlocks(end, target + 1)
                        EXCEPT ![cur] = inst_address + 1]
    /\ block_start' = GrowBlocks(block_start, target)
    /\ block_stack' = Append(block_stack, gr.size)
    /\ UNCHANGED selfSplit

HandleBranch(end, cur, target, tr) ==
    \/ LinkKnown(end, cur, target, tr)
    \/ SplitKnown(end, cur, target, tr)
    \/ NewBlock(end, cur, target, tr)

-----------------------------------------------------------------------------
(* The scan *)

Init ==
    /\ code \in Programs
    /\ gr = EmplaceLink(EmplaceVertex(NewGraph), Root, FirstReal, "kFallthrough")
    /\ block_start = [b \in {FirstReal} |-> Entry]
    /\ block_end = [b \in {FirstReal} |-> Entry + 1]
    /\ block_stack = <<FirstReal>>
    /\ pc = "pop"
    /\ this_block = FirstReal /\ inst_address = Entry
    /\ direct_calls = <<>>
    /\ fill = FirstReal
    /\ selfSplit = FALSE

PopBlock ==
    /\ pc = "pop" /\ block_stack # <<>>
    /\ this_block' = block_stack[Len(block_stack)]
    /\ inst_address' = block_start[this_block']
    /\ block_stack' = SubSeq(block_stack, 1, Len(block_stack) - 1)
    /\ pc' = "scan"
    /\ UNCHANGED <<code, gr, block_start, block_end, direct_calls, fill,
                   selfSplit>>

\* The slip that extends the block one word too far.
ExtendedTooFar == [block_end EXCEPT ![this_block] = inst_address + 2]

\* The top of every iteration: this_block reaches over inst_address.
Extended == [block_end EXCEPT ![this_block] = inst_address + 1]

\* inst_address is the head of another block (it has one, see ScannedOnce).
AtOtherHead == BlocksAtHead(inst_address) \ {this_block} # {}

\* The block ends in front of a known one.
FallThroughKnown ==
    /\ pc = "scan" /\ AtOtherHead
    /\ gr' = EmplaceLink(gr, this_block, Min(BlocksAtHead(inst_address)),
                         "kFallthrough")
    /\ block_end' = [block_end EXCEPT ![this_block] = inst_address]
    /\ pc' = "pop"
    /\ UNCHANGED <<code, block_start, block_stack, this_block, inst_address,
                   direct_calls, fill, selfSplit>>

\* The instruction at inst_address is read and decides how the scan goes on.
Reading == pc = "scan" /\ ~AtOtherHead
inst == code[inst_address]

\* An instruction that does not end the block. A direct call is recorded.
StepOver ==
    /\ Reading /\ ~EndsBlock(inst)
    /\ block_end' = Extended
    /\ direct_calls' = IF inst.lk /\ inst.op = "kB"
                       THEN Append(direct_calls, inst.target)
                       ELSE direct_calls
    /\ inst_address' = inst_address + 1
    /\ UNCHANGED <<code, pc, gr, block_start, block_stack, this_block, fill,
                   selfSplit>>

EndReturn ==
    /\ Reading /\ EndsBlock(inst) /\ inst.op = "kReturn"
    /\ block_end' = Extended
    /\ pc' = "pop"
    /\ UNCHANGED <<code, gr, block_start, block_stack, this_block,
                   inst_address, direct_calls, fill, selfSplit>>

TakeBranch ==
    /\ Reading /\ EndsBlock(inst) /\ inst.op = "kB"
    /\ HandleBranch(Extended, this_block, inst.target, "kUnconditional")
    /\ pc' = "pop"
    /\ UNCHANGED <<code, this_block, inst_address, direct_calls, fill>>

\* The slip that forgets the other way out of a conditional branch.
BranchTrueOnly ==
    /\ Reading /\ EndsBlock(inst) /\ inst.op = "kBc"
    /\ HandleBranch(Extended, this_block, inst.target, "kConditionTrue")
    /\ pc' = "pop"
    /\ UNCHANGED <<code, this_block, inst_address, direct_calls, fill>>

BranchTrue ==
    /\ Reading /\ EndsBlock(inst) /\ inst.op = "kBc"
    /\ HandleBranch(Extended, this_block, inst.target, "kConditionTrue")
    /\ pc' = "bcFalse"
    /\ UNCHANGED <<code, this_block, inst_address, direct_calls, fill>>

BranchFalse ==
    /\ pc = "bcFalse"
    /\ HandleBranch(block_end, this_block, inst_address + 1, "kConditionFalse")
    /\ pc' = "pop"
    /\ UNCHANGED <<code, this_block, inst_address, direct_calls, fill>>

\* The work stack is empty.
EndScan ==
    /\ pc = "pop" /\ block_stack = <<>>
    /\ pc' = "finish"
    /\ UNCHANGED <<code, gr, block_start, block_end, block_stack, this_block,
                   inst_address, direct_calls, fill, selfSplit>>

\* The slip that does not move on to the next vertex.
FinishSameBlock ==
    /\ pc = "finish" /\ fill \in Blocks
    /\ gr' = IF gr.out[fill] = <<>>
             THEN EmplaceLink(gr, fill, Terminal, "kUnconditional")
             ELSE gr
    /\ UNCHANGED <<code, pc, block_start, block_end, block_stack, this_block,
                   inst_address, direct_calls, fill, selfSplit>>

\* The closing foreach_real at one vertex: a block without successors leaves
\* the routine. (_instructions and _nodes_by_range hold nothing that
\* block_start and block_end do not.)
FinishBlock ==
    /\ pc = "finish" /\ fill \in Blocks
    /\ gr' = IF gr.out[fill] = <<>>
             THEN EmplaceLink(gr, fill, Terminal, "kUnconditional")
             ELSE gr
    /\ fill' = fill + 1
    /\ UNCHANGED <<code, pc, block_start, block_end, block_stack, this_block,
                   inst_address, direct_calls, selfSplit>>

Finish ==
    /\ pc = "finish" /\ fill \notin Blocks
    /\ pc' = "done"
    /\ UNCHANGED <<code, gr, block_start, block_end, block_stack, this_block,
                   inst_address, direct_calls, fill, selfSplit>>

Terminating == pc = "done" /\ UNCHANGED vars

Scan ==
    \/ PopBlock \/ FallThroughKnown \/ StepOver \/ EndReturn \/ TakeBranch
    \/ BranchTrue \/ BranchFalse \/ EndScan \/ FinishBlock \/ Finish

Next == Scan \/ Terminating

\* The analysis is one thread that is never blocked: it keeps running.
Spec == Init /\ [][Next]_vars /\ WF_vars(Scan)

-----------------------------------------------------------------------------
(* Properties *)

Extent(b) == block_start[b] .. block_end[b] - 1

Covered == UNION {Extent(b) : b \in Blocks}

\* Vertices, addresses and work stack stay within the routine and the graph.
TypeOK ==
    /\ IsProgram(code)
    /\ pc \in {"pop", "scan", "bcFalse", "finish", "done"}
    /\ IsGraph(gr) /\ gr.size > FirstReal
    /\ block_start \in [Blocks -> Addr]
    /\ block_end \in [Blocks -> 0 .. N]
    /\ block_stack \in Seq(Blocks)
    /\ this_block \in Blocks
    /\ inst_address \in Addr
    /\ direct_calls \in Seq(Addr)
    /\ fill \in FirstReal .. gr.size
    /\ selfSplit \in BOOLEAN

\* The scan never gives two blocks the same head, and no block is queued
\* twice or scanned again: run_graph_analysis looks blocks up by address
\* (at_block_head) and would otherwise scan code twice.
ScannedOnce ==
    /\ \A b, c \in Blocks : block_start[b] = block_start[c] => b = c
    /\ \A j, k \in 1 .. Len(block_stack) :
            block_stack[j] = block_stack[k] => j = k
    /\ pc \in {"scan", "bcFalse"} => this_block \notin ToSet(block_stack)

\* No word is in two blocks: the extents handed to _nodes_by_range, which
\* refuses overlapping intervals, are disjoint. It holds as long as no block
\* is split while it is being scanned.
Disjoint ==
    selfSplit \/ \A b, c \in Blocks : b = c \/ Extent(b) \cap Extent(c) = {}

\* The graph the later passes get is well-formed at every step: the two copies
\* of every edge agree, although splits move edges about; nothing enters the
\* root or leaves the terminal; and entrypoint() is the block at Entry.
GraphWellFormed ==
    /\ Mirrored(gr)
    /\ gr.in[Root] = <<>> /\ gr.out[Terminal] = <<>>
    /\ \E b \in Blocks :
            gr.out[Root] = <<Edge(b, "kFallthrough")>> /\ block_start[b] = Entry

\* Every block can be reached from the root. Dominators and the traversals
\* rely on it: lengauer_tarjan has no number for a vertex it cannot reach.
AllReachable == \A b \in Blocks : <<Root, b>> \in Paths(gr)

\* A routine is in _direct_calls as often as the code that was scanned calls
\* it, wherever splits have put the calls.
CallsOf(t) ==
    {a \in Covered : code[a].lk /\ code[a].op = "kB" /\ code[a].target = t}
CallsRecordedOnce ==
    pc = "done" =>
        \A t \in Addr : Count(direct_calls, t) = Cardinality(CallsOf(t))

\* The out-edges the block b must have, from the last instruction in it.
BlockAt(a) == Min(BlocksAtHead(a))
ExpectedOut(b) ==
    LET last == block_end[b] - 1
        i == code[last]
    IN  IF ~EndsBlock(i) THEN <<Edge(BlockAt(last + 1), "kFallthrough")>>
        ELSE CASE i.op = "kB" -> <<Edge(BlockAt(i.target), "kUnconditional")>>
               [] i.op = "kBc" -> <<Edge(BlockAt(i.target), "kConditionTrue"),
                                    Edge(BlockAt(last + 1), "kConditionFalse")>>
               [] i.op = "kReturn" -> <<Edge(Terminal, "kUnconditional")>>

\* The finished graph is the flow graph of the code: control leaves a block
\* only at its end, and its edges lead exactly to the blocks at the addresses
\* its last instruction can transfer to, wherever later splits moved them.
FlowFaithful ==
    pc = "done" /\ ~selfSplit =>
        \A b \in Blocks :
            /\ Extent(b) # {}
            /\ \A a \in Extent(b) : EndsBlock(code[a]) => a = block_end[b] - 1
            /\ gr.out[b] = ExpectedOut(b)

\* "Original block is on top" (SubroutineGraph.cc:25): a block that falls
\* through to another ends where the other starts.
FallthroughAdjacent ==
    \A b, c \in Blocks :
        Edge(c, "kFallthrough") \in ToSet(gr.out[b]) =>
            block_end[b] = block_start[c]

\* The code seen so far: the extents of the blocks and the word scanned next.
Seen == Covered \cup (IF pc = "scan" THEN {inst_address} ELSE {})

Reach == INSTANCE CodeReach WITH seen <- Seen, done <- (pc = "done")

\* The blocks cover exactly the code control can reach from the entry, and
\* the analysis ends: the scan implements CodeReach.
ImplementsCodeReach == Reach!Spec

\* The work stack runs empty, however the branches of the routine loop.
Terminates == <>(pc = "done")

\* What the later passes take for granted of the graph: well-formed and connected
\* while it is built, and with every call recorded once when it is done.
GraphSound == GraphWellFormed /\ AllReachable /\ CallsRecordedOnce
=============================================================================
