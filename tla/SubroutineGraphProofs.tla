------------------------ MODULE SubroutineGraphProofs ------------------------
(***************************************************************************)
(* What TLAPS proves of run_graph_analysis, for routines of every length   *)
(* and every set of routines, in three parts: the blocks of the graph;     *)
(* their extents, which stay disjoint and together implement CodeReach,    *)
(* its fairness aside; and the edges and the calls, which the passes after *)
(* it take for granted (GraphSound) and which at the end are the flow      *)
(* graph of the code (FlowFaithful).                                       *)
(***************************************************************************)
EXTENDS SubroutineGraph, FlowGraphProofs, WellFoundedInduction

-----------------------------------------------------------------------------
(* The inductive invariant *)

NonEmpty == \A b \in Blocks : block_start[b] < block_end[b]

\* A queued block is one word long, so that no branch can split it.
QueuedOneWord ==
    \A k \in 1 .. Len(block_stack) :
        block_end[block_stack[k]] = block_start[block_stack[k]] + 1

\* The block being scanned ends at the word being scanned, or after it when
\* that is its first word or its last one.
AtScan ==
    /\ pc \in {"scan", "bcFalse"} => block_start[this_block] <= inst_address
    /\ pc = "scan" =>
            block_end[this_block] = IF inst_address = block_start[this_block]
                                    THEN inst_address + 1 ELSE inst_address
    /\ pc = "bcFalse" => /\ block_end[this_block] = inst_address + 1
                         /\ EndsBlock(inst) /\ inst.op = "kBc"

StackDone == pc \in {"finish", "done"} => block_stack = <<>>

IInv ==
    TypeOK /\ ScannedOnce /\ NonEmpty /\ QueuedOneWord /\ AtScan /\ StackDone

-----------------------------------------------------------------------------
(* The blocks after a step, without the graph *)

\* find_real returns one of the candidates.
LEMMA MinType ==
    ASSUME NEW S, S \subseteq Nat, S # {}
    PROVE  Min(S) \in S
<1> DEFINE R == {p \in Nat \X Nat : p[1] < p[2]}
<1>1. R = OpToRel(<, Nat)  BY Zenon DEF OpToRel
<1>2. IsWellFoundedOn(R, Nat)  BY <1>1, NatLessThanWellFounded, Zenon
<1>3. PICK n \in S : \A m \in S : ~(<<m, n>> \in R)
    <2> HIDE DEF R
    <2> QED  BY <1>2, WFMin
<1>4. ASSUME NEW m \in S
      PROVE  n <= m
    <2>1. m \in Nat /\ n \in Nat  OBVIOUS
    <2>2. m < n => <<m, n>> \in R  BY <2>1, Zenon
    <2> QED  BY <1>3, <2>1, <2>2
<1> QED  BY <1>4 DEF Min

Same == UNCHANGED <<block_start, block_stack, selfSplit>>

\* HandleBranch(Extended, this_block, target, tr) as the rest of the state sees
\* it: one of three effects on the blocks.
Linked(target) ==
    /\ gr'.size = gr.size
    /\ \E b \in Blocks : block_start[b] = target
    /\ block_end' = Extended
    /\ Same

Split(target, original) ==
    /\ gr'.size = gr.size + 1
    /\ \A b \in Blocks : block_start[b] # target
    /\ block_start[original] < target /\ target < Extended[original]
    /\ block_start' = GrowBlocks(block_start, target)
    /\ block_end' = [b \in FirstReal .. gr.size |->
                        IF b = this_block THEN inst_address + 1
                        ELSE IF b = original THEN target
                        ELSE IF b = gr.size THEN Extended[original]
                        ELSE block_end[b]]
    /\ block_stack' = block_stack
    /\ selfSplit' = (selfSplit \/ original = this_block)

Added(target) ==
    /\ gr'.size = gr.size + 1
    /\ \A b \in Blocks : block_start[b] # target
    /\ \A b \in Blocks : ~(block_start[b] < target /\ target < Extended[b])
    /\ block_start' = GrowBlocks(block_start, target)
    /\ block_end' = [b \in FirstReal .. gr.size |->
                        IF b = this_block THEN inst_address + 1
                        ELSE IF b = gr.size THEN target + 1
                        ELSE block_end[b]]
    /\ block_stack' = Append(block_stack, gr.size)
    /\ selfSplit' = selfSplit

Branched(target) ==
    Linked(target) \/ (\E o \in Blocks : Split(target, o)) \/ Added(target)

\* The vertices of the blocks are vertices of the graph.
LEMMA BlocksAreVertices ==
    ASSUME TypeOK
    PROVE  /\ Blocks \subseteq Vertices(gr) /\ Blocks \subseteq Nat
           /\ Root \in Vertices(gr) /\ Terminal \in Vertices(gr)
           /\ gr.size \in Nat /\ gr.size > FirstReal /\ FirstReal \in Nat
           /\ IsGraph(gr)
BY DEF TypeOK, Blocks, Vertices, FirstReal, Root, Terminal, IsGraph

\* handle_branch has one of the three effects and leaves a graph.
LEMMA HandleBranchEffect ==
    ASSUME TypeOK, NEW target \in Addr, NEW tr \in BlockTransfer,
           HandleBranch(Extended, this_block, target, tr)
    PROVE  IsGraph(gr') /\ Branched(target)
<1>1. /\ this_block \in Blocks /\ this_block \in Vertices(gr)
      /\ Blocks \subseteq Nat /\ Blocks \subseteq Vertices(gr) /\ IsGraph(gr)
      /\ gr.size \in Nat /\ FirstReal \in Nat
    BY BlocksAreVertices DEF TypeOK
<1>2. CASE LinkKnown(Extended, this_block, target, tr)
    <2> DEFINE b == Min(BlocksAtHead(target))
    <2>1. BlocksAtHead(target) \subseteq Blocks  BY DEF BlocksAtHead
    <2>2. b \in BlocksAtHead(target)
        <3>1. BlocksAtHead(target) # {} /\ BlocksAtHead(target) \subseteq Nat
            BY <1>1, <1>2, <2>1 DEF LinkKnown
        <3> QED  BY <3>1, MinType
    <2>3. gr' = EmplaceLink(gr, this_block, b, tr)  BY <1>2 DEF LinkKnown
    <2>4. b \in Vertices(gr)  BY <1>1, <2>1, <2>2
    <2> HIDE DEF b
    <2>5. IsGraph(gr') /\ gr'.size = gr.size
        BY <1>1, <2>3, <2>4, EmplaceLinkType
    <2>6. b \in Blocks /\ block_start[b] = target  BY <2>2 DEF BlocksAtHead
    <2>7. Linked(target)
        BY <1>2, <2>5, <2>6 DEF Linked, LinkKnown, Same
    <2> QED  BY <2>5, <2>7 DEF Branched
<1>3. CASE SplitKnown(Extended, this_block, target, tr)
    <2> DEFINE C == BlocksContaining(Extended, target)
               o == Min(C)
               h == InsertAfter(gr, o, "kFallthrough")
    <2>1. C \subseteq Blocks  BY DEF BlocksContaining
    <2>2. o \in C
        <3>1. C # {} /\ C \subseteq Nat  BY <1>1, <1>3, <2>1 DEF SplitKnown
        <3> HIDE DEF C
        <3> QED  BY <3>1, MinType
    <2>3. gr' = EmplaceLink(h, this_block, gr.size, tr)
        BY <1>3 DEF SplitKnown
    <2>4. o \in Blocks /\ block_start[o] < target /\ target < Extended[o]
        <3> HIDE DEF o
        <3> QED  BY <2>2 DEF BlocksContaining
    <2>5. block_end' =
             [[GrowBlocks(Extended, Extended[o]) EXCEPT ![o] = target]
                EXCEPT ![this_block] = inst_address + 1]
          /\ selfSplit' = (selfSplit \/ o = this_block)
        BY <1>3 DEF SplitKnown, SplitEnds
    <2> HIDE DEF o
    <2>6. IsGraph(h) /\ h.size = gr.size + 1
        <3>1. o \in Vertices(gr) /\ "kFallthrough" \in BlockTransfer
            BY <1>1, <2>4 DEF BlockTransfer
        <3> QED  BY <1>1, <3>1, InsertAfterType
    <2> HIDE DEF h, C
    <2>7. IsGraph(gr') /\ gr'.size = gr.size + 1
        <3>1. this_block \in Vertices(h) /\ gr.size \in Vertices(h)
            BY <1>1, <2>6 DEF Vertices
        <3> QED  BY <2>3, <2>6, <3>1, EmplaceLinkType
    <2>8. block_end' = [b \in FirstReal .. gr.size |->
                            IF b = this_block THEN inst_address + 1
                            ELSE IF b = o THEN target
                            ELSE IF b = gr.size THEN Extended[o]
                            ELSE block_end[b]]
        <3>1. \A b \in Blocks : b # this_block => Extended[b] = block_end[b]
            BY DEF Extended, TypeOK
        <3> HIDE DEF Extended
        <3>2. GrowBlocks(Extended, Extended[o]) =
                [b \in FirstReal .. gr.size |->
                    IF b = gr.size THEN Extended[o] ELSE Extended[b]]
            BY DEF GrowBlocks
        <3>3. \A b \in FirstReal .. gr.size : b # gr.size => b \in Blocks
            BY <1>1 DEF Blocks
        <3>4. gr.size \notin Blocks  BY <1>1 DEF Blocks
        <3> QED  BY <1>1, <2>4, <2>5, <3>1, <3>2, <3>3, <3>4
    <2>9. \A b \in Blocks : block_start[b] # target
        BY <1>3 DEF SplitKnown, BlocksAtHead
    <2>10. Split(target, o)
        BY <1>3, <2>4, <2>5, <2>7, <2>8, <2>9 DEF Split, SplitKnown
    <2> QED  BY <2>4, <2>7, <2>10 DEF Branched
<1>4. CASE NewBlock(Extended, this_block, target, tr)
    <2> DEFINE h == EmplaceVertex(gr)
    <2>1. gr' = EmplaceLink(h, this_block, gr.size, tr)
        BY <1>4 DEF NewBlock
    <2>2. IsGraph(h) /\ h.size = gr.size + 1  BY <1>1, EmplaceVertexType
    <2> HIDE DEF h
    <2>3. IsGraph(gr') /\ gr'.size = gr.size + 1
        <3>1. this_block \in Vertices(h) /\ gr.size \in Vertices(h)
            BY <1>1, <2>2 DEF Vertices
        <3> QED  BY <2>1, <2>2, <3>1, EmplaceLinkType
    <2>4. block_end' = [b \in FirstReal .. gr.size |->
                            IF b = this_block THEN inst_address + 1
                            ELSE IF b = gr.size THEN target + 1
                            ELSE block_end[b]]
        <3>1. \A b \in Blocks : b # this_block => Extended[b] = block_end[b]
            BY DEF Extended, TypeOK
        <3>2. block_end' = [GrowBlocks(Extended, target + 1)
                                EXCEPT ![this_block] = inst_address + 1]
            BY <1>4 DEF NewBlock
        <3> HIDE DEF Extended
        <3>3. GrowBlocks(Extended, target + 1) =
                [b \in FirstReal .. gr.size |->
                    IF b = gr.size THEN target + 1 ELSE Extended[b]]
            BY DEF GrowBlocks
        <3>4. \A b \in FirstReal .. gr.size : b # gr.size => b \in Blocks
            BY <1>1 DEF Blocks
        <3> QED  BY <1>1, <3>1, <3>2, <3>3, <3>4
    <2>5. \A b \in Blocks : /\ block_start[b] # target
                            /\ ~(block_start[b] < target /\ target < Extended[b])
        BY <1>4 DEF NewBlock, BlocksAtHead, BlocksContaining
    <2>6. Added(target)
        BY <1>4, <2>3, <2>4, <2>5 DEF Added, NewBlock
    <2> QED  BY <2>3, <2>6 DEF Branched
<1> QED  BY <1>2, <1>3, <1>4 DEF HandleBranch

-----------------------------------------------------------------------------
(* The invariant is inductive: branches *)

\* What a branch leaves of the invariant, before pc moves on.
BranchKept ==
    /\ IsGraph(gr') /\ gr'.size > FirstReal /\ gr'.size >= gr.size
    /\ block_start' \in [Blocks' -> Addr]
    /\ block_end' \in [Blocks' -> 0 .. N]
    /\ block_stack' \in Seq(Blocks')
    /\ block_start'[this_block] = block_start[this_block]
    /\ block_end'[this_block] = inst_address + 1
    /\ \A b, c \in Blocks' : block_start'[b] = block_start'[c] => b = c
    /\ \A j, k \in 1 .. Len(block_stack') :
            block_stack'[j] = block_stack'[k] => j = k
    /\ \A k \in 1 .. Len(block_stack') : block_stack'[k] # this_block
    /\ NonEmpty' /\ QueuedOneWord'

\* The facts about the state that the proofs about a branch start from.
BranchPoint ==
    /\ TypeOK /\ ScannedOnce /\ NonEmpty /\ QueuedOneWord
    /\ pc \in {"scan", "bcFalse"}
    /\ block_start[this_block] <= inst_address

\* What holds at a branch, with the definitions expanded.
LEMMA BranchPointFacts ==
    ASSUME BranchPoint
    PROVE  /\ N \in Nat /\ FirstReal \in Nat
           /\ gr.size \in Nat /\ gr.size > FirstReal
           /\ Blocks = FirstReal .. gr.size - 1
           /\ this_block \in Blocks /\ inst_address \in 0 .. N - 1
           /\ block_start \in [Blocks -> 0 .. N - 1]
           /\ block_end \in [Blocks -> 0 .. N]
           /\ Extended \in [Blocks -> 0 .. N]
           /\ Extended[this_block] = inst_address + 1
           /\ \A b \in Blocks : b # this_block => Extended[b] = block_end[b]
           /\ \A b \in Blocks : block_start[b] < Extended[b]
           /\ block_stack \in Seq(Blocks)
           /\ \A b, c \in Blocks : block_start[b] = block_start[c] => b = c
           /\ \A j, k \in 1 .. Len(block_stack) :
                    block_stack[j] = block_stack[k] => j = k
           /\ \A k \in 1 .. Len(block_stack) : block_stack[k] # this_block
           /\ \A k \in 1 .. Len(block_stack) :
                 /\ block_stack[k] \in Blocks
                 /\ block_end[block_stack[k]] = block_start[block_stack[k]] + 1
<1>1. /\ N \in Nat /\ FirstReal \in Nat /\ this_block \in Blocks
      /\ inst_address \in 0 .. N - 1
      /\ block_start \in [Blocks -> 0 .. N - 1]
      /\ block_end \in [Blocks -> 0 .. N]
      /\ block_stack \in Seq(Blocks)
    BY EntryAssumption DEF BranchPoint, TypeOK, Addr, FirstReal
<1>2. /\ gr.size \in Nat /\ gr.size > FirstReal
      /\ Blocks = FirstReal .. gr.size - 1
    BY BlocksAreVertices DEF BranchPoint, Blocks
<1>3. /\ Extended \in [Blocks -> 0 .. N]
      /\ Extended[this_block] = inst_address + 1
      /\ \A b \in Blocks : b # this_block => Extended[b] = block_end[b]
    BY <1>1 DEF Extended
<1>4. \A b \in Blocks : block_start[b] < Extended[b]
    <2> TAKE b \in Blocks
    <2>1. CASE b = this_block
        <3>1. block_start[b] <= inst_address /\ block_start[b] \in Int
              /\ inst_address \in Int
            BY <1>1, <2>1 DEF BranchPoint
        <3> QED  BY <1>3, <2>1, <3>1
    <2>2. CASE b # this_block  BY <1>3, <2>2 DEF BranchPoint, NonEmpty
    <2> QED  BY <2>1, <2>2
<1>5. \A k \in 1 .. Len(block_stack) :
          /\ block_stack[k] \in Blocks /\ block_stack[k] # this_block
          /\ block_end[block_stack[k]] = block_start[block_stack[k]] + 1
    BY <1>1 DEF BranchPoint, ScannedOnce, QueuedOneWord, ToSet
<1>6. /\ \A b, c \in Blocks : block_start[b] = block_start[c] => b = c
      /\ \A j, k \in 1 .. Len(block_stack) :
                    block_stack[j] = block_stack[k] => j = k
    BY DEF BranchPoint, ScannedOnce
<1> QED  BY <1>1, <1>2, <1>3, <1>4, <1>5, <1>6

\* Linking to a known head keeps the invariant.
LEMMA LinkedKeeps ==
    ASSUME BranchPoint, IsGraph(gr'), NEW target \in Addr, Linked(target)
    PROVE  BranchKept
<1>a. /\ N \in Nat /\ FirstReal \in Nat
      /\ gr.size \in Nat /\ gr.size > FirstReal
      /\ Blocks = FirstReal .. gr.size - 1
      /\ this_block \in Blocks /\ inst_address \in 0 .. N - 1
    BY BranchPointFacts
<1>b. /\ block_start \in [Blocks -> 0 .. N - 1]
      /\ block_end \in [Blocks -> 0 .. N]
      /\ Extended \in [Blocks -> 0 .. N]
      /\ Extended[this_block] = inst_address + 1
      /\ \A b \in Blocks : b # this_block => Extended[b] = block_end[b]
      /\ \A b \in Blocks : block_start[b] < Extended[b]
    BY BranchPointFacts
<1>c. /\ \A b, c \in Blocks : block_start[b] = block_start[c] => b = c
      /\ block_stack \in Seq(Blocks)
      /\ \A j, k \in 1 .. Len(block_stack) :
                    block_stack[j] = block_stack[k] => j = k
      /\ \A k \in 1 .. Len(block_stack) :
            /\ block_stack[k] \in Blocks /\ block_stack[k] # this_block
            /\ block_end[block_stack[k]] = block_start[block_stack[k]] + 1
    BY BranchPointFacts
<1>1. Blocks' = Blocks /\ gr'.size = gr.size  BY DEF Blocks, Linked
<1>2. /\ block_end' = Extended /\ block_start' = block_start
      /\ block_stack' = block_stack
    BY DEF Linked, Same
<1>3. block_start' \in [Blocks' -> Addr]  BY <1>b, <1>1, <1>2 DEF Addr
<1>4. NonEmpty'  BY <1>b, <1>1, <1>2 DEF NonEmpty
<1>5. QueuedOneWord'  BY <1>b, <1>c, <1>2 DEF QueuedOneWord
<1>6. /\ gr'.size > FirstReal /\ gr'.size >= gr.size
      /\ block_end' \in [Blocks' -> 0 .. N]
      /\ block_stack' \in Seq(Blocks')
      /\ block_start'[this_block] = block_start[this_block]
      /\ block_end'[this_block] = inst_address + 1
    BY <1>a, <1>b, <1>c, <1>1, <1>2
<1>7. /\ \A b, c \in Blocks' : block_start'[b] = block_start'[c] => b = c
      /\ \A j, k \in 1 .. Len(block_stack') :
                block_stack'[j] = block_stack'[k] => j = k
      /\ \A k \in 1 .. Len(block_stack') : block_stack'[k] # this_block
    BY <1>c, <1>1, <1>2
<1> QED  BY <1>3, <1>4, <1>5, <1>6, <1>7 DEF BranchKept

\* Splitting a block keeps the invariant.
LEMMA SplitKeeps ==
    ASSUME BranchPoint, IsGraph(gr'), NEW target \in Addr,
           NEW o \in Blocks, Split(target, o)
    PROVE  BranchKept
<1> DEFINE n == gr.size
<1>a. /\ N \in Nat /\ FirstReal \in Nat
      /\ gr.size \in Nat /\ gr.size > FirstReal
      /\ Blocks = FirstReal .. gr.size - 1
      /\ this_block \in Blocks /\ inst_address \in 0 .. N - 1
    BY BranchPointFacts
<1>b. /\ block_start \in [Blocks -> 0 .. N - 1]
      /\ block_end \in [Blocks -> 0 .. N]
      /\ Extended \in [Blocks -> 0 .. N]
      /\ Extended[this_block] = inst_address + 1
      /\ \A b \in Blocks : b # this_block => Extended[b] = block_end[b]
      /\ \A b \in Blocks : block_start[b] < Extended[b]
    BY BranchPointFacts
<1>c. /\ \A b, c \in Blocks : block_start[b] = block_start[c] => b = c
      /\ block_stack \in Seq(Blocks)
      /\ \A j, k \in 1 .. Len(block_stack) :
                    block_stack[j] = block_stack[k] => j = k
      /\ \A k \in 1 .. Len(block_stack) :
            /\ block_stack[k] \in Blocks /\ block_stack[k] # this_block
            /\ block_end[block_stack[k]] = block_start[block_stack[k]] + 1
    BY BranchPointFacts
<1>1. /\ Blocks' = Blocks \cup {n} /\ n \notin Blocks /\ gr'.size = n + 1
      /\ n \in Nat /\ n > FirstReal /\ FirstReal \in Nat
      /\ Blocks' = FirstReal .. n /\ this_block # n /\ o # n
    BY <1>a DEF Blocks, Split
<1>2. target \in 0 .. N - 1 /\ N \in Nat  BY <1>a DEF Addr
<1>3. /\ \A b \in Blocks : block_start'[b] = block_start[b]
      /\ block_start'[n] = target
      /\ block_start' \in [Blocks' -> Addr]
    BY <1>b, <1>1, <1>2 DEF Split, GrowBlocks, Addr
<1>4. /\ \A b \in Blocks \ {this_block, o} : block_end'[b] = block_end[b]
      /\ block_end'[this_block] = inst_address + 1
      /\ o # this_block => block_end'[o] = target
      /\ block_end'[n] = Extended[o]
    <2>1. block_end' = [b \in Blocks' |->
                            IF b = this_block THEN inst_address + 1
                            ELSE IF b = o THEN target
                            ELSE IF b = n THEN Extended[o]
                            ELSE block_end[b]]
        BY <1>1 DEF Split
    <2> HIDE DEF n
    <2>2. /\ this_block \in Blocks' /\ o \in Blocks' /\ n \in Blocks'
          /\ \A b \in Blocks : b \in Blocks' /\ b # n
        BY <1>a, <1>1
    <2>3. block_end'[n] = Extended[o]  BY <1>1, <2>1, <2>2
    <2>4. /\ block_end'[this_block] = inst_address + 1
          /\ o # this_block => block_end'[o] = target
        BY <2>1, <2>2
    <2>5. \A b \in Blocks \ {this_block, o} : block_end'[b] = block_end[b]
        BY <2>1, <2>2
    <2> QED  BY <2>3, <2>4, <2>5
<1>5. block_end' \in [Blocks' -> 0 .. N]
    <2>1. inst_address + 1 \in 0 .. N /\ target \in 0 .. N  BY <1>a, <1>2
    <2>2. /\ Extended[o] \in 0 .. N
          /\ \A b \in Blocks : block_end[b] \in 0 .. N
        BY <1>b
    <2> QED  BY <1>1, <2>1, <2>2 DEF Split
<1>6. /\ block_start[o] < target /\ target < Extended[o]
      /\ block_stack' = block_stack
      /\ \A b \in Blocks : block_start[b] # target
    BY DEF Split
<1>7. block_stack' \in Seq(Blocks')
    BY <1>c, <1>1, <1>6, SeqMonotonic
<1>8. \A k \in 1 .. Len(block_stack) : block_stack[k] # o
    <2> SUFFICES ASSUME NEW k \in 1 .. Len(block_stack), block_stack[k] = o
                 PROVE  FALSE
        OBVIOUS
    <2>1. o # this_block /\ block_end[o] = block_start[o] + 1  BY <1>c
    <2>2. Extended[o] = block_start[o] + 1  BY <1>b, <2>1
    <2>3. block_start[o] \in Int  BY <1>b
    <2> QED  BY <1>2, <1>6, <2>2, <2>3
<1>9. NonEmpty'
    <2> SUFFICES ASSUME NEW b \in Blocks'
                 PROVE  block_start'[b] < block_end'[b]
        BY DEF NonEmpty
    <2>1. CASE b = n  BY <1>3, <1>4, <1>6, <2>1
    <2>2. CASE b = this_block  BY <1>a, <1>b, <1>3, <1>4, <2>2
    <2>3. CASE b = o /\ b # this_block  BY <1>3, <1>4, <1>6, <2>3
    <2>4. CASE b \in Blocks \ {this_block, o}  BY <1>b, <1>3, <1>4, <2>4
    <2> QED  BY <1>1, <2>1, <2>2, <2>3, <2>4
<1>10. QueuedOneWord'
    <2> SUFFICES ASSUME NEW k \in 1 .. Len(block_stack)
                 PROVE  block_end'[block_stack[k]]
                            = block_start'[block_stack[k]] + 1
        BY <1>6 DEF QueuedOneWord
    <2>1. block_stack[k] \in Blocks \ {this_block, o}  BY <1>c, <1>8
    <2> QED  BY <1>c, <1>3, <1>4, <2>1
<1>11. \A b, c \in Blocks' : block_start'[b] = block_start'[c] => b = c
    <2> SUFFICES ASSUME NEW b \in Blocks', NEW c \in Blocks',
                        block_start'[b] = block_start'[c]
                 PROVE  b = c
        OBVIOUS
    <2> HIDE DEF n
    <2>1. \A d \in Blocks : block_start'[d] # block_start'[n]
        BY <1>3, <1>6
    <2>2. CASE b = n \/ c = n  BY <1>1, <2>1, <2>2
    <2>3. CASE b \in Blocks /\ c \in Blocks  BY <1>c, <1>3, <2>3
    <2> QED  BY <1>1, <2>2, <2>3
<1>12. /\ \A j, k \in 1 .. Len(block_stack') :
                block_stack'[j] = block_stack'[k] => j = k
       /\ \A k \in 1 .. Len(block_stack') : block_stack'[k] # this_block
    BY <1>c, <1>6
<1>13. /\ block_start'[this_block] = block_start[this_block]
       /\ gr'.size > FirstReal /\ gr'.size >= gr.size
    BY <1>a, <1>1, <1>3
<1> QED
    BY <1>3, <1>4, <1>5, <1>7, <1>9, <1>10, <1>11, <1>12, <1>13
    DEF BranchKept

\* Queueing a new block keeps the invariant.
LEMMA AddedKeeps ==
    ASSUME BranchPoint, IsGraph(gr'), NEW target \in Addr, Added(target)
    PROVE  BranchKept
<1> DEFINE n == gr.size
<1>a. /\ N \in Nat /\ FirstReal \in Nat
      /\ gr.size \in Nat /\ gr.size > FirstReal
      /\ Blocks = FirstReal .. gr.size - 1
      /\ this_block \in Blocks /\ inst_address \in 0 .. N - 1
    BY BranchPointFacts
<1>b. /\ block_start \in [Blocks -> 0 .. N - 1]
      /\ block_end \in [Blocks -> 0 .. N]
      /\ Extended \in [Blocks -> 0 .. N]
      /\ Extended[this_block] = inst_address + 1
      /\ \A b \in Blocks : b # this_block => Extended[b] = block_end[b]
      /\ \A b \in Blocks : block_start[b] < Extended[b]
    BY BranchPointFacts
<1>c. /\ \A b, c \in Blocks : block_start[b] = block_start[c] => b = c
      /\ block_stack \in Seq(Blocks)
      /\ \A j, k \in 1 .. Len(block_stack) :
                    block_stack[j] = block_stack[k] => j = k
      /\ \A k \in 1 .. Len(block_stack) :
            /\ block_stack[k] \in Blocks /\ block_stack[k] # this_block
            /\ block_end[block_stack[k]] = block_start[block_stack[k]] + 1
    BY BranchPointFacts
<1>1. /\ Blocks' = Blocks \cup {n} /\ n \notin Blocks /\ gr'.size = n + 1
      /\ n \in Nat /\ n > FirstReal /\ FirstReal \in Nat
      /\ Blocks' = FirstReal .. n /\ this_block # n
    BY <1>a DEF Blocks, Added
<1>2. target \in 0 .. N - 1 /\ N \in Nat  BY <1>a DEF Addr
<1>3. /\ \A b \in Blocks : block_start'[b] = block_start[b]
      /\ block_start'[n] = target
      /\ block_start' \in [Blocks' -> Addr]
    BY <1>b, <1>1, <1>2 DEF Added, GrowBlocks, Addr
<1>4. /\ \A b \in Blocks : block_end'[b] = Extended[b]
      /\ block_end'[n] = target + 1
    BY <1>b, <1>1 DEF Added
<1>5. block_end' \in [Blocks' -> 0 .. N]
    <2>1. inst_address + 1 \in 0 .. N /\ target + 1 \in 0 .. N
        BY <1>a, <1>2
    <2>2. \A b \in Blocks : block_end[b] \in 0 .. N  BY <1>b
    <2> QED  BY <1>1, <2>1, <2>2 DEF Added
<1>6. /\ block_stack' = Append(block_stack, n)
      /\ \A b \in Blocks : block_start[b] # target
    BY DEF Added
<1>7. block_stack \in Seq(Blocks') /\ n \in Blocks'
    BY <1>c, <1>1, SeqMonotonic
<1>8. /\ block_stack' \in Seq(Blocks')
      /\ Len(block_stack') = Len(block_stack) + 1
      /\ \A k \in 1 .. Len(block_stack) : block_stack'[k] = block_stack[k]
      /\ block_stack'[Len(block_stack) + 1] = n
      /\ Len(block_stack) \in Nat
    BY <1>6, <1>7, AppendProperties
<1>9. \A k \in 1 .. Len(block_stack') :
          \/ k \in 1 .. Len(block_stack) /\ block_stack'[k] = block_stack[k]
          \/ k = Len(block_stack) + 1 /\ block_stack'[k] = n
    BY <1>8
<1>10. \A j, k \in 1 .. Len(block_stack') :
                block_stack'[j] = block_stack'[k] => j = k
    BY <1>c, <1>1, <1>9
<1>11. \A k \in 1 .. Len(block_stack') : block_stack'[k] # this_block
    BY <1>c, <1>1, <1>9
<1>12. NonEmpty'
    <2>1. \A b \in Blocks : block_start'[b] < block_end'[b]
        BY <1>b, <1>3, <1>4
    <2> HIDE DEF n
    <2>2. block_start'[n] < block_end'[n]  BY <1>2, <1>3, <1>4
    <2> QED  BY <1>1, <2>1, <2>2 DEF NonEmpty
<1>13. QueuedOneWord'
    <2> SUFFICES ASSUME NEW k \in 1 .. Len(block_stack')
                 PROVE  block_end'[block_stack'[k]]
                            = block_start'[block_stack'[k]] + 1
        BY DEF QueuedOneWord
    <2> HIDE DEF n
    <2>1. CASE k \in 1 .. Len(block_stack) /\ block_stack'[k] = block_stack[k]
        <3>1. /\ block_stack[k] \in Blocks /\ block_stack[k] # this_block
              /\ block_end[block_stack[k]] = block_start[block_stack[k]] + 1
            BY <1>c, <2>1
        <3>2. Extended[block_stack[k]] = block_end[block_stack[k]]
            BY <1>b, <3>1
        <3> QED  BY <1>3, <1>4, <2>1, <3>1, <3>2
    <2>2. CASE block_stack'[k] = n  BY <1>3, <1>4, <2>2
    <2> QED  BY <1>9, <2>1, <2>2
<1>14. \A b, c \in Blocks' : block_start'[b] = block_start'[c] => b = c
    <2> SUFFICES ASSUME NEW b \in Blocks', NEW c \in Blocks',
                        block_start'[b] = block_start'[c]
                 PROVE  b = c
        OBVIOUS
    <2> HIDE DEF n
    <2>1. \A d \in Blocks : block_start'[d] # block_start'[n]
        BY <1>3, <1>6
    <2>2. CASE b = n \/ c = n  BY <1>1, <2>1, <2>2
    <2>3. CASE b \in Blocks /\ c \in Blocks  BY <1>c, <1>3, <2>3
    <2> QED  BY <1>1, <2>2, <2>3
<1>15. /\ block_start'[this_block] = block_start[this_block]
       /\ block_end'[this_block] = inst_address + 1
       /\ gr'.size > FirstReal /\ gr'.size >= gr.size
    BY <1>a, <1>b, <1>1, <1>3, <1>4
<1> QED
    BY <1>3, <1>5, <1>8, <1>10, <1>11, <1>12, <1>13, <1>14, <1>15
    DEF BranchKept

\* handle_branch keeps the invariant, whichever effect it has.
LEMMA BranchKeeps ==
    ASSUME BranchPoint, NEW target \in Addr, NEW tr \in BlockTransfer,
           HandleBranch(Extended, this_block, target, tr)
    PROVE  BranchKept /\ Branched(target)
<1>1. IsGraph(gr') /\ Branched(target)
    BY HandleBranchEffect DEF BranchPoint
<1> QED  BY <1>1, LinkedKeeps, SplitKeeps, AddedKeeps DEF Branched

-----------------------------------------------------------------------------
(* The invariant is inductive: the steps *)

\* The invariant holds before the first block is popped.
LEMMA InitIInv == Init => IInv
<1> SUFFICES ASSUME Init PROVE IInv  OBVIOUS
<1> DEFINE g == EmplaceVertex(NewGraph)
<1>1. IsGraph(g) /\ g.size = FirstReal + 1
    BY NewGraphType, EmplaceVertexType
<1>2. gr = EmplaceLink(g, Root, FirstReal, "kFallthrough")  BY DEF Init
<1> HIDE DEF g
<1>3. IsGraph(gr) /\ gr.size = FirstReal + 1
    <2>1. Root \in Vertices(g) /\ FirstReal \in Vertices(g)
          /\ "kFallthrough" \in BlockTransfer
        BY <1>1 DEF Vertices, Root, FirstReal, BlockTransfer
    <2> QED  BY <1>1, <1>2, <2>1, EmplaceLinkType
<1>4. Blocks = {FirstReal} /\ FirstReal \in Nat  BY <1>3 DEF Blocks, FirstReal
<1>5. /\ block_start = [b \in {FirstReal} |-> Entry]
      /\ block_end = [b \in {FirstReal} |-> Entry + 1]
      /\ block_stack = <<FirstReal>> /\ pc = "pop"
      /\ this_block = FirstReal /\ inst_address = Entry
      /\ direct_calls = <<>> /\ fill = FirstReal /\ selfSplit = FALSE
      /\ code \in Programs
    BY DEF Init
<1>6. Entry \in Addr /\ Entry + 1 \in 0 .. N  BY EntryAssumption DEF Addr
<1>7. TypeOK
    <2>1. IsProgram(code)  BY <1>5, ProgramsAssumption
    <2>2. /\ block_start \in [Blocks -> Addr] /\ block_end \in [Blocks -> 0 .. N]
        BY <1>4, <1>5, <1>6
    <2>3. /\ block_stack \in Seq(Blocks) /\ direct_calls \in Seq(Addr)
          /\ this_block \in Blocks /\ inst_address \in Addr
          /\ fill \in FirstReal .. gr.size /\ gr.size > FirstReal
        BY <1>3, <1>4, <1>5, <1>6
    <2>4. selfSplit \in BOOLEAN  BY <1>5
    <2> QED  BY <1>3, <1>5, <2>1, <2>2, <2>3, <2>4 DEF TypeOK
<1>8. ScannedOnce  BY <1>4, <1>5 DEF ScannedOnce
<1>9. NonEmpty  BY <1>4, <1>5, <1>6 DEF NonEmpty, Addr
<1>10. QueuedOneWord  BY <1>5 DEF QueuedOneWord
<1>11. AtScan /\ StackDone  BY <1>5 DEF AtScan, StackDone
<1> QED  BY <1>7, <1>8, <1>9, <1>10, <1>11 DEF IInv

\* Scanning a word moves no address out of the routine: its last word ends
\* the block and is no conditional branch.
LEMMA NextWord ==
    ASSUME IsProgram(code), N \in Nat, NEW a \in Addr,
           ~EndsBlock(code[a]) \/ code[a].op = "kBc"
    PROVE  a + 1 \in Addr
BY DEF IsProgram, Addr

\* The type of the instruction being scanned.
LEMMA InstType ==
    ASSUME TypeOK
    PROVE  inst \in Inst /\ inst.target \in Addr
BY DEF TypeOK, IsProgram, inst, Inst

\* A branch leaves the history variable Boolean.
LEMMA BranchFlag ==
    ASSUME TypeOK, NEW target, Branched(target)
    PROVE  selfSplit' \in BOOLEAN
<1>1. selfSplit \in BOOLEAN  BY DEF TypeOK
<1>2. CASE Linked(target)  BY <1>1, <1>2, Zenon DEF Linked, Same
<1>3. CASE \E o \in Blocks : Split(target, o)
    BY <1>3, Zenon DEF Split
<1>4. CASE Added(target)  BY <1>1, <1>4, Zenon DEF Added
<1> QED  BY <1>2, <1>3, <1>4 DEF Branched

\* A branch keeps the invariant if it leaves the scan or goes on to bcFalse.
LEMMA BranchIInv ==
    ASSUME IInv, BranchPoint, BranchKept, selfSplit' \in BOOLEAN,
           UNCHANGED <<code, this_block, inst_address, direct_calls, fill>>,
           \/ pc' = "pop"
           \/ pc' = "bcFalse" /\ EndsBlock(inst) /\ inst.op = "kBc"
    PROVE  IInv'
<1>1. TypeOK'
    <2>1. TypeOK  BY DEF IInv
    <2>2. /\ gr.size \in Nat /\ FirstReal \in Nat /\ gr'.size \in Nat
          /\ gr'.size >= gr.size
          /\ this_block \in Blocks /\ fill \in FirstReal .. gr.size
        BY <2>1, BlocksAreVertices DEF TypeOK, BranchKept, IsGraph
    <2>3. this_block \in Blocks' /\ fill \in FirstReal .. gr'.size
        BY <2>2 DEF Blocks
    <2>4. /\ IsProgram(code') /\ inst_address' \in Addr
          /\ direct_calls' \in Seq(Addr)
        BY <2>1 DEF TypeOK
    <2>5. /\ IsGraph(gr') /\ gr'.size > FirstReal
          /\ block_start' \in [Blocks' -> Addr]
          /\ block_end' \in [Blocks' -> 0 .. N]
          /\ block_stack' \in Seq(Blocks')
        BY DEF BranchKept
    <2>6. pc' \in {"pop", "scan", "bcFalse", "finish", "done"}  OBVIOUS
    <2>7. this_block' \in Blocks' /\ fill' \in FirstReal .. gr'.size
        BY <2>3
    <2> QED  BY <2>4, <2>5, <2>6, <2>7 DEF TypeOK
<1>2. ScannedOnce'
    <2>1. this_block' \notin ToSet(block_stack')
        <3>1. block_stack' \in Seq(Blocks')  BY DEF BranchKept
        <3>2. DOMAIN block_stack' = 1 .. Len(block_stack')
            BY <3>1, LenProperties
        <3> QED  BY <3>2 DEF ToSet, BranchKept
    <2> QED  BY <2>1 DEF ScannedOnce, BranchKept
<1>3. NonEmpty' /\ QueuedOneWord'  BY DEF BranchKept
<1>4. AtScan'  BY DEF AtScan, BranchKept, BranchPoint, inst
<1>5. StackDone'  BY DEF StackDone
<1> QED  BY <1>1, <1>2, <1>3, <1>4, <1>5 DEF IInv

\* Where a branch is handled, BranchPoint holds and Extended is the argument.
LEMMA BranchPointHolds ==
    ASSUME IInv, pc \in {"scan", "bcFalse"}
    PROVE  BranchPoint
BY DEF IInv, BranchPoint, AtScan

\* The first half of a conditional branch has extended the block already.
LEMMA FalseBranchExtended ==
    ASSUME IInv, pc = "bcFalse"
    PROVE  block_end = Extended
<1>1. block_end[this_block] = inst_address + 1  BY DEF IInv, AtScan
<1>2. block_end \in [Blocks -> 0 .. N]  BY DEF IInv, TypeOK
<1> QED  BY <1>1, <1>2 DEF Extended

\* The head of the stack is a queued block like the others.
LEMMA StackTop ==
    ASSUME IInv, block_stack # <<>>
    PROVE  /\ Len(block_stack) \in 1 .. Len(block_stack)
           /\ block_stack[Len(block_stack)] \in Blocks
<1>1. block_stack \in Seq(Blocks)  BY DEF IInv, TypeOK
<1> QED  BY <1>1, EmptySeq, ElementOfSeq

\* Popping a sequence.
LEMMA PopProperties ==
    ASSUME NEW S, NEW s \in Seq(S), s # <<>>
    PROVE  /\ SubSeq(s, 1, Len(s) - 1) \in Seq(S)
           /\ Len(SubSeq(s, 1, Len(s) - 1)) = Len(s) - 1
           /\ Len(s) \in Nat \ {0}
           /\ \A k \in 1 .. Len(s) - 1 : /\ k \in 1 .. Len(s)
                                         /\ SubSeq(s, 1, Len(s) - 1)[k] = s[k]
<1> DEFINE n == Len(s) - 1
<1>1. Len(s) \in Nat \ {0} /\ n \in Nat /\ 1 \in Int /\ n \in Int
    BY EmptySeq
<1>2. \A k \in 1 .. n : s[k] \in S  BY <1>1, ElementOfSeq
<1> DEFINE t == SubSeq(s, 1, n)
<1>4. Len(s) = n + 1  BY <1>1
<1> HIDE DEF n
<1>5. /\ t \in Seq(S)
      /\ Len(t) = IF 1 <= n THEN n - 1 + 1 ELSE 0
      /\ \A i \in 1 .. n - 1 + 1 : t[i] = s[1 + i - 1]
    BY <1>1, <1>2, SubSeqProperties
<1> HIDE DEF t
<1>6. Len(t) = n  BY <1>1, <1>5
<1>7. n - 1 + 1 = n /\ \A i \in 1 .. n : 1 + i - 1 = i  BY <1>1
<1>8. \A k \in 1 .. n : k \in 1 .. Len(s) /\ t[k] = s[k]
    BY <1>1, <1>4, <1>5, <1>7
<1> QED  BY <1>1, <1>5, <1>6, <1>8 DEF n, t

\* Popping a block: it is one word long, and not queued any more.
LEMMA PopBlockIInv == ASSUME IInv, PopBlock PROVE IInv'
<1> DEFINE s == block_stack
           b == block_stack[Len(block_stack)]
           t == SubSeq(block_stack, 1, Len(block_stack) - 1)
<1>1. /\ TypeOK /\ ScannedOnce /\ NonEmpty /\ QueuedOneWord
      /\ s \in Seq(Blocks) /\ s # <<>>
    BY DEF IInv, TypeOK, PopBlock
<1>2. /\ t \in Seq(Blocks) /\ Len(t) = Len(s) - 1 /\ Len(s) \in Nat \ {0}
      /\ \A k \in 1 .. Len(t) : k \in 1 .. Len(s) /\ t[k] = s[k]
    <2>1. s \in Seq(Blocks) /\ s # <<>>  BY <1>1
    <2> QED  BY <2>1, PopProperties
<1>3. b \in Blocks  BY <1>1, StackTop
<1>4. /\ block_stack' = t /\ this_block' = b
      /\ inst_address' = block_start[b] /\ pc' = "scan"
      /\ UNCHANGED <<code, gr, block_start, block_end, direct_calls, fill,
                     selfSplit>>
    BY DEF PopBlock
<1>5. Blocks' = Blocks  BY <1>4 DEF Blocks
<1>6. TypeOK'
    <2>1. block_start[b] \in Addr  BY <1>1, <1>3 DEF TypeOK
    <2>2. pc' \in {"pop", "scan", "bcFalse", "finish", "done"}  BY <1>4
    <2> HIDE DEF b, t
    <2> QED  BY <1>1, <1>2, <1>3, <1>4, <1>5, <2>1, <2>2 DEF TypeOK
<1>7. ScannedOnce'
    <2>1. \A j, k \in 1 .. Len(t) : t[j] = t[k] => j = k
        BY <1>1, <1>2 DEF ScannedOnce
    <2>2. b \notin ToSet(t)
        <3>1. DOMAIN t = 1 .. Len(t)  BY <1>2, LenProperties
        <3>2. SUFFICES ASSUME NEW k \in 1 .. Len(t), t[k] = b PROVE FALSE
            <4> HIDE DEF b, t
            <4> QED  BY <3>1 DEF ToSet
        <3>3. k \in 1 .. Len(s) /\ s[k] = s[Len(s)] /\ Len(s) \in 1 .. Len(s)
            BY <1>2, <3>2
        <3>4. k = Len(s)
            BY <1>1, <3>3 DEF ScannedOnce
        <3> QED  BY <1>2, <3>4
    <2>3. \A c, d \in Blocks' : block_start'[c] = block_start'[d] => c = d
        BY <1>1, <1>4, <1>5 DEF ScannedOnce
    <2> HIDE DEF b, t
    <2> QED  BY <1>4, <2>1, <2>2, <2>3 DEF ScannedOnce
<1>8. NonEmpty'  BY <1>1, <1>4, <1>5 DEF NonEmpty
<1>9. QueuedOneWord'
    <2> HIDE DEF b, t
    <2> QED  BY <1>1, <1>2, <1>4 DEF QueuedOneWord
<1>10. AtScan'
    <2>1. block_end[b] = block_start[b] + 1
        BY <1>1, StackTop DEF QueuedOneWord
    <2>2. block_start[b] \in Int
        BY <1>1, <1>3, EntryAssumption DEF TypeOK, Addr
    <2> HIDE DEF b, t
    <2> QED  BY <1>4, <2>1, <2>2 DEF AtScan
<1>11. StackDone'  BY <1>4 DEF StackDone
<1> QED  BY <1>6, <1>7, <1>8, <1>9, <1>10, <1>11 DEF IInv

\* Falling through: the block still holds its first word.
LEMMA FallThroughIInv == ASSUME IInv, FallThroughKnown PROVE IInv'
<1> DEFINE h == Min(BlocksAtHead(inst_address))
<1>1. BranchPoint  BY BranchPointHolds DEF FallThroughKnown
<1>2. TypeOK /\ ScannedOnce /\ NonEmpty /\ QueuedOneWord /\ AtScan /\ StackDone
    BY DEF IInv
<1>3. h \in Blocks
    <2>1. BlocksAtHead(inst_address) \subseteq Blocks  BY DEF BlocksAtHead
    <2>2. BlocksAtHead(inst_address) # {}  BY DEF FallThroughKnown, AtOtherHead
    <2>3. Blocks \subseteq Nat  BY <1>2, BlocksAreVertices
    <2> QED  BY <2>1, <2>2, <2>3, MinType
<1>4. /\ gr' = EmplaceLink(gr, this_block, h, "kFallthrough")
      /\ block_end' = [block_end EXCEPT ![this_block] = inst_address]
      /\ pc' = "pop"
      /\ UNCHANGED <<code, block_start, block_stack, this_block, inst_address,
                     direct_calls, fill, selfSplit>>
    BY DEF FallThroughKnown
<1>5. IsGraph(gr') /\ gr'.size = gr.size
    <2>1. h \in Vertices(gr) /\ this_block \in Vertices(gr) /\ IsGraph(gr)
          /\ "kFallthrough" \in BlockTransfer
        BY <1>2, <1>3, BlocksAreVertices DEF TypeOK, BlockTransfer
    <2> HIDE DEF h
    <2> QED  BY <1>4, <2>1, EmplaceLinkType
<1>6. Blocks' = Blocks  BY <1>5 DEF Blocks
<1>7. block_start[this_block] < inst_address
    <2>1. PICK c \in BlocksAtHead(inst_address) : c # this_block
        BY DEF FallThroughKnown, AtOtherHead
    <2>2. c \in Blocks /\ block_start[c] = inst_address
        BY <2>1 DEF BlocksAtHead
    <2>3. block_start[this_block] # inst_address
        BY <1>1, <2>1, <2>2, BranchPointFacts
    <2>4. block_start[this_block] <= inst_address
          /\ block_start[this_block] \in Int /\ inst_address \in Int
        BY <1>1, BranchPointFacts DEF BranchPoint
    <2> QED  BY <2>3, <2>4
<1>8. TypeOK'
    <2>1. inst_address \in 0 .. N  BY <1>1, BranchPointFacts
    <2>2. block_end' \in [Blocks -> 0 .. N]  BY <1>2, <1>4, <2>1 DEF TypeOK
    <2>3. pc' \in {"pop", "scan", "bcFalse", "finish", "done"}  BY <1>4
    <2> QED  BY <1>2, <1>4, <1>5, <1>6, <2>2, <2>3 DEF TypeOK
<1>9. ScannedOnce'  BY <1>2, <1>4, <1>6 DEF ScannedOnce
<1>10. NonEmpty'
    <2>1. this_block \in Blocks /\ block_end \in [Blocks -> 0 .. N]
        BY <1>2 DEF TypeOK
    <2> QED  BY <1>2, <1>4, <1>6, <1>7, <2>1 DEF NonEmpty
<1>11. QueuedOneWord'
    <2>1. \A k \in 1 .. Len(block_stack) :
              block_stack[k] \in Blocks /\ block_stack[k] # this_block
        BY <1>1, BranchPointFacts
    <2>2. block_end \in [Blocks -> 0 .. N]  BY <1>2 DEF TypeOK
    <2> QED  BY <1>2, <1>4, <2>1, <2>2 DEF QueuedOneWord
<1>12. AtScan' /\ StackDone'  BY <1>4 DEF AtScan, StackDone
<1> QED  BY <1>8, <1>9, <1>10, <1>11, <1>12 DEF IInv

\* The blocks when this_block grows over inst_address.
LEMMA ExtendedKeeps ==
    ASSUME BranchPoint, IInv, block_end' = Extended,
           UNCHANGED <<code, gr, block_start, block_stack, this_block, fill,
                       selfSplit>>,
           pc' \in {"pop", "scan"},
           inst_address' \in Addr, direct_calls' \in Seq(Addr)
    PROVE  TypeOK' /\ ScannedOnce' /\ NonEmpty' /\ QueuedOneWord' /\ StackDone'
<1>1. TypeOK /\ ScannedOnce /\ NonEmpty /\ QueuedOneWord  BY DEF IInv
<1>2. Blocks' = Blocks  BY DEF Blocks
<1>3. TypeOK'
    <2>1. Extended \in [Blocks -> 0 .. N]  BY BranchPointFacts
    <2>2. pc' \in {"pop", "scan", "bcFalse", "finish", "done"}  OBVIOUS
    <2> QED  BY <1>1, <1>2, <2>1, <2>2 DEF TypeOK
<1>4. ScannedOnce'
    <2>1. this_block \notin ToSet(block_stack)
        BY <1>1 DEF BranchPoint, ScannedOnce
    <2> QED  BY <1>1, <1>2, <2>1 DEF ScannedOnce
<1>5. NonEmpty'
    <2>1. \A b \in Blocks : block_start[b] < Extended[b]  BY BranchPointFacts
    <2> QED  BY <1>2, <2>1 DEF NonEmpty
<1>6. QueuedOneWord'
    <2>1. /\ \A k \in 1 .. Len(block_stack) :
                block_stack[k] \in Blocks /\ block_stack[k] # this_block
          /\ \A b \in Blocks : b # this_block => Extended[b] = block_end[b]
        BY BranchPointFacts
    <2> QED  BY <1>1, <2>1 DEF QueuedOneWord
<1>7. StackDone'  BY DEF StackDone
<1> QED  BY <1>3, <1>4, <1>5, <1>6, <1>7

\* Stepping over a word: the last word of the routine is never stepped over.
LEMMA StepOverIInv == ASSUME IInv, StepOver PROVE IInv'
<1>1. BranchPoint  BY BranchPointHolds DEF StepOver, Reading
<1>2. TypeOK  BY DEF IInv
<1>3. inst_address + 1 \in Addr
    BY <1>2, EntryAssumption, NextWord DEF StepOver, TypeOK, inst
<1>4. direct_calls' \in Seq(Addr)
    <2>1. direct_calls \in Seq(Addr) /\ inst.target \in Addr
        BY <1>2, InstType DEF TypeOK
    <2>2. Append(direct_calls, inst.target) \in Seq(Addr)
        BY <2>1, AppendProperties
    <2> QED  BY <2>1, <2>2 DEF StepOver
<1>5. /\ block_end' = Extended /\ inst_address' = inst_address + 1
      /\ pc = "scan" /\ pc' = "scan"
      /\ UNCHANGED <<code, gr, block_start, block_stack, this_block, fill,
                     selfSplit>>
    BY DEF StepOver, Reading
<1>6. TypeOK' /\ ScannedOnce' /\ NonEmpty' /\ QueuedOneWord' /\ StackDone'
    BY <1>1, <1>3, <1>4, <1>5, ExtendedKeeps
<1>7. AtScan'
    <2>1. /\ block_start[this_block] \in Int /\ inst_address \in Int
          /\ block_start[this_block] <= inst_address
          /\ Extended[this_block] = inst_address + 1
        BY <1>1, BranchPointFacts DEF BranchPoint
    <2> QED  BY <1>5, <2>1 DEF AtScan
<1> QED  BY <1>6, <1>7 DEF IInv

\* A return extends the block and ends it.
LEMMA EndReturnIInv == ASSUME IInv, EndReturn PROVE IInv'
<1>1. BranchPoint  BY BranchPointHolds DEF EndReturn, Reading
<1>2. inst_address \in Addr /\ direct_calls \in Seq(Addr)
    BY DEF IInv, TypeOK
<1>3. /\ block_end' = Extended /\ pc' = "pop"
      /\ UNCHANGED <<code, gr, block_start, block_stack, this_block,
                     inst_address, direct_calls, fill, selfSplit>>
    BY DEF EndReturn
<1>4. TypeOK' /\ ScannedOnce' /\ NonEmpty' /\ QueuedOneWord' /\ StackDone'
    BY <1>1, <1>2, <1>3, ExtendedKeeps
<1>5. AtScan'  BY <1>3 DEF AtScan
<1> QED  BY <1>4, <1>5 DEF IInv

\* An unconditional branch.
LEMMA TakeBranchIInv == ASSUME IInv, TakeBranch PROVE IInv'
<1>1. BranchPoint  BY BranchPointHolds DEF TakeBranch, Reading
<1>2. TypeOK /\ inst.target \in Addr  BY InstType DEF IInv
<1>3. "kUnconditional" \in BlockTransfer  BY DEF BlockTransfer
<1>4. BranchKept /\ Branched(inst.target)
    BY <1>1, <1>2, <1>3, BranchKeeps DEF TakeBranch
<1>5. selfSplit' \in BOOLEAN  BY <1>2, <1>4, BranchFlag
<1> QED  BY <1>1, <1>4, <1>5, BranchIInv DEF TakeBranch

\* The taken side of a conditional branch ...
LEMMA BranchTrueIInv == ASSUME IInv, BranchTrue PROVE IInv'
<1>1. BranchPoint  BY BranchPointHolds DEF BranchTrue, Reading
<1>2. TypeOK /\ inst.target \in Addr  BY InstType DEF IInv
<1>3. "kConditionTrue" \in BlockTransfer  BY DEF BlockTransfer
<1>4. BranchKept /\ Branched(inst.target)
    BY <1>1, <1>2, <1>3, BranchKeeps DEF BranchTrue
<1>5. selfSplit' \in BOOLEAN  BY <1>2, <1>4, BranchFlag
<1>6. EndsBlock(inst) /\ inst.op = "kBc"  BY DEF BranchTrue
<1> QED  BY <1>1, <1>4, <1>5, <1>6, BranchIInv DEF BranchTrue

\* ... and its other side, which is inside the routine too.
LEMMA BranchFalseIInv == ASSUME IInv, BranchFalse PROVE IInv'
<1>1. BranchPoint  BY BranchPointHolds DEF BranchFalse
<1>2. TypeOK /\ AtScan  BY DEF IInv
<1>3. inst_address + 1 \in Addr
    BY <1>2, EntryAssumption, NextWord DEF BranchFalse, TypeOK, AtScan, inst
<1>4. "kConditionFalse" \in BlockTransfer  BY DEF BlockTransfer
<1>5. HandleBranch(Extended, this_block, inst_address + 1, "kConditionFalse")
    BY FalseBranchExtended DEF BranchFalse
<1>6. BranchKept /\ Branched(inst_address + 1)
    BY <1>1, <1>3, <1>4, <1>5, BranchKeeps
<1>7. selfSplit' \in BOOLEAN  BY <1>2, <1>6, BranchFlag
<1> QED  BY <1>1, <1>6, <1>7, BranchIInv DEF BranchFalse

\* The end of the scan: the stack is empty.
LEMMA EndScanIInv == ASSUME IInv, EndScan PROVE IInv'
<1>1. /\ block_stack = <<>> /\ pc' = "finish"
      /\ UNCHANGED <<code, gr, block_start, block_end, block_stack, this_block,
                     inst_address, direct_calls, fill, selfSplit>>
    BY DEF EndScan
<1>2. Blocks' = Blocks  BY <1>1 DEF Blocks
<1>3. TypeOK'
    <2>1. pc' \in {"pop", "scan", "bcFalse", "finish", "done"}  BY <1>1
    <2> QED  BY <1>1, <1>2, <2>1 DEF IInv, TypeOK
<1>4. ScannedOnce' /\ NonEmpty' /\ QueuedOneWord'
    BY <1>1, <1>2 DEF IInv, ScannedOnce, NonEmpty, QueuedOneWord
<1>5. AtScan' /\ StackDone'  BY <1>1 DEF AtScan, StackDone
<1> QED  BY <1>3, <1>4, <1>5 DEF IInv

\* The closing loop adds edges, and moves fill on up to gr.size.
LEMMA FinishBlockIInv == ASSUME IInv, FinishBlock PROVE IInv'
<1>1. TypeOK /\ ScannedOnce /\ NonEmpty /\ QueuedOneWord /\ StackDone
    BY DEF IInv
<1>2. /\ pc = "finish" /\ fill \in Blocks /\ fill' = fill + 1
      /\ UNCHANGED <<code, pc, block_start, block_end, block_stack, this_block,
                     inst_address, direct_calls, selfSplit>>
    BY DEF FinishBlock
<1>3. IsGraph(gr') /\ gr'.size = gr.size
    <2>1. /\ fill \in Vertices(gr) /\ Terminal \in Vertices(gr) /\ IsGraph(gr)
          /\ "kUnconditional" \in BlockTransfer
        BY <1>1, <1>2, BlocksAreVertices DEF BlockTransfer
    <2>2. \/ gr' = gr
          \/ gr' = EmplaceLink(gr, fill, Terminal, "kUnconditional")
        BY DEF FinishBlock
    <2> QED  BY <2>1, <2>2, EmplaceLinkType
<1>4. Blocks' = Blocks  BY <1>3 DEF Blocks
<1>5. TypeOK'
    <2>1. fill' \in FirstReal .. gr'.size
        BY <1>1, <1>2, <1>3, BlocksAreVertices DEF Blocks
    <2>2. gr'.size > FirstReal  BY <1>1, <1>3 DEF TypeOK
    <2> QED  BY <1>1, <1>2, <1>3, <1>4, <2>1, <2>2 DEF TypeOK
<1>6. ScannedOnce' /\ NonEmpty' /\ QueuedOneWord'
    BY <1>1, <1>2, <1>4 DEF ScannedOnce, NonEmpty, QueuedOneWord
<1>7. AtScan' /\ StackDone'  BY <1>1, <1>2 DEF AtScan, StackDone
<1> QED  BY <1>5, <1>6, <1>7 DEF IInv

\* The end changes nothing but pc.
LEMMA FinishIInv == ASSUME IInv, Finish PROVE IInv'
<1>1. /\ pc = "finish" /\ pc' = "done"
      /\ UNCHANGED <<code, gr, block_start, block_end, block_stack, this_block,
                     inst_address, direct_calls, fill, selfSplit>>
    BY DEF Finish
<1>2. Blocks' = Blocks  BY <1>1 DEF Blocks
<1>3. TypeOK'
    <2>1. pc' \in {"pop", "scan", "bcFalse", "finish", "done"}  BY <1>1
    <2> QED  BY <1>1, <1>2, <2>1 DEF IInv, TypeOK
<1>4. ScannedOnce' /\ NonEmpty' /\ QueuedOneWord'
    BY <1>1, <1>2 DEF IInv, ScannedOnce, NonEmpty, QueuedOneWord
<1>5. AtScan' /\ StackDone'  BY <1>1 DEF IInv, AtScan, StackDone
<1> QED  BY <1>3, <1>4, <1>5 DEF IInv

\* Stuttering.
LEMMA StutterIInv == ASSUME IInv, UNCHANGED vars PROVE IInv'
BY DEF IInv, vars, TypeOK, ScannedOnce, NonEmpty, QueuedOneWord, AtScan,
       StackDone, Blocks, inst

\* Every step keeps the invariant.
LEMMA NextIInv == ASSUME IInv, [Next]_vars PROVE IInv'
BY PopBlockIInv, FallThroughIInv, StepOverIInv, EndReturnIInv, TakeBranchIInv,
   BranchTrueIInv, BranchFalseIInv, EndScanIInv, FinishBlockIInv, FinishIInv,
   StutterIInv
DEF Next, Scan, Terminating

\* The inductive invariant holds in every reachable state.
THEOREM InductiveInvariant == Spec => []IInv
<1>1. Init => IInv  BY InitIInv
<1>2. IInv /\ [Next]_vars => IInv'  BY NextIInv
<1> QED  BY <1>1, <1>2, PTL DEF Spec

\* Vertices, addresses and work stack stay in range, whatever the routine.
THEOREM TypeCorrect == Spec => []TypeOK
<1>1. IInv => TypeOK  BY DEF IInv
<1> QED  BY <1>1, InductiveInvariant, PTL

\* No code is scanned twice: heads are unique, and a block that is queued or
\* being scanned is so once.
THEOREM ScansOnce == Spec => []ScannedOnce
<1>1. IInv => ScannedOnce  BY DEF IInv
<1> QED  BY <1>1, InductiveInvariant, PTL

-----------------------------------------------------------------------------
(* Extents as inequalities *)

\* The blocks end at `end` and do not overlap.
Apart(end) ==
    \A b, c \in Blocks :
        b = c \/ end[b] <= block_start[c] \/ end[c] <= block_start[b]

\* Some block that ends at `end` holds a.
Holds(end, a) == \E b \in Blocks : block_start[b] <= a /\ a < end[b]

\* Disjoint extents, by their ends.
LEMMA DisjointIsApart ==
    ASSUME TypeOK, NonEmpty
    PROVE  Disjoint <=> (selfSplit \/ Apart(block_end))
<1>1. /\ \A b \in Blocks : /\ block_start[b] \in Int /\ block_end[b] \in Int
                           /\ block_start[b] < block_end[b]
    BY EntryAssumption DEF TypeOK, NonEmpty, Addr
<1>2. ASSUME NEW b \in Blocks, NEW c \in Blocks
      PROVE  (Extent(b) \cap Extent(c) = {}) <=>
             (block_end[b] <= block_start[c] \/ block_end[c] <= block_start[b])
    <2>1. CASE block_end[b] <= block_start[c] \/ block_end[c] <= block_start[b]
        BY <1>1, <2>1 DEF Extent
    <2>2. CASE ~(block_end[b] <= block_start[c] \/ block_end[c] <= block_start[b])
        <3>1. CASE block_start[b] <= block_start[c]
            <4>1. block_start[c] \in Extent(b) \cap Extent(c)
                BY <1>1, <2>2, <3>1 DEF Extent
            <4> QED  BY <2>2, <4>1
        <3>2. CASE ~(block_start[b] <= block_start[c])
            <4>1. block_start[b] \in Extent(b) \cap Extent(c)
                BY <1>1, <2>2, <3>2 DEF Extent
            <4> QED  BY <2>2, <4>1
        <3> QED  BY <3>1, <3>2
    <2> QED  BY <2>1, <2>2
<1> QED  BY <1>2 DEF Disjoint, Apart

\* Covered, by the ends of the blocks.
LEMMA CoveredIsHolds ==
    ASSUME TypeOK
    PROVE  /\ Covered \subseteq Int
           /\ \A a \in Int : a \in Covered <=> Holds(block_end, a)
<1>1. \A b \in Blocks : block_start[b] \in Int /\ block_end[b] \in Int
    BY EntryAssumption DEF TypeOK, Addr
<1>2. \A b \in Blocks : \A a : a \in Extent(b) <=>
            a \in Int /\ block_start[b] <= a /\ a < block_end[b]
    BY <1>1 DEF Extent
<1> QED  BY <1>2 DEF Covered, Holds

-----------------------------------------------------------------------------
(* The block being scanned *)

\* Extending this_block over the word being scanned adds that word, and no
\* other, to the words held.
LEMMA ExtendedHolds ==
    ASSUME BranchPoint, AtScan
    PROVE  /\ \A a \in Int : Holds(Extended, a) <=>
                                Holds(block_end, a) \/ a = inst_address
           /\ pc = "bcFalse" => Holds(block_end, inst_address)
<1>1. /\ this_block \in Blocks /\ inst_address \in Int
      /\ \A b \in Blocks : block_start[b] \in Int /\ block_end[b] \in Int
      /\ Extended[this_block] = inst_address + 1
      /\ \A b \in Blocks : b # this_block => Extended[b] = block_end[b]
      /\ block_start[this_block] <= inst_address
    BY BranchPointFacts DEF BranchPoint
<1>2. /\ block_end[this_block] <= inst_address + 1
      /\ block_end[this_block] >= inst_address
      /\ pc = "bcFalse" => block_end[this_block] = inst_address + 1
    BY <1>1 DEF AtScan, BranchPoint
<1>3. ASSUME NEW a \in Int
      PROVE  Holds(Extended, a) <=> Holds(block_end, a) \/ a = inst_address
    <2>1. (block_start[this_block] <= a /\ a < Extended[this_block]) <=>
            \/ block_start[this_block] <= a /\ a < block_end[this_block]
            \/ a = inst_address
        BY <1>1, <1>2
    <2>2. \A b \in Blocks : b # this_block =>
            ((block_start[b] <= a /\ a < Extended[b]) <=>
             (block_start[b] <= a /\ a < block_end[b]))
        BY <1>1
    <2> HIDE DEF Extended
    <2> QED  BY <1>1, <2>1, <2>2 DEF Holds
<1>4. pc = "bcFalse" => Holds(block_end, inst_address)
    BY <1>1, <1>2 DEF Holds
<1> QED  BY <1>3, <1>4

\* The word being scanned is in no other block.
LEMMA ExtendedApart ==
    ASSUME BranchPoint, AtScan, Apart(block_end),
           pc = "scan" => ~AtOtherHead
    PROVE  Apart(Extended)
<1>1. /\ this_block \in Blocks /\ inst_address \in Int
      /\ \A b \in Blocks : block_start[b] \in Int /\ block_end[b] \in Int
      /\ Extended[this_block] = inst_address + 1
      /\ \A b \in Blocks : b # this_block => Extended[b] = block_end[b]
      /\ block_start[this_block] <= inst_address
      /\ \A b \in Blocks : block_start[b] < block_end[b]
      /\ pc \in {"scan", "bcFalse"}
    BY BranchPointFacts DEF BranchPoint, NonEmpty
<1>2. ASSUME NEW c \in Blocks, c # this_block
      PROVE  \/ Extended[c] <= block_start[this_block]
             \/ Extended[this_block] <= block_start[c]
    <2>1. \/ block_end[c] <= block_start[this_block]
          \/ block_end[this_block] <= block_start[c]
        BY <1>1, <1>2 DEF Apart
    <2>2. CASE block_end[this_block] = inst_address + 1
        BY <1>1, <1>2, <2>1, <2>2
    <2>3. CASE block_end[this_block] # inst_address + 1
        <3>1. pc = "scan" /\ block_end[this_block] = inst_address
            BY <1>1, <2>3 DEF AtScan
        <3>2. block_start[c] # inst_address
            BY <1>2, <3>1 DEF AtOtherHead, BlocksAtHead
        <3> QED  BY <1>1, <1>2, <2>1, <3>1, <3>2
    <2> QED  BY <2>2, <2>3
<1> HIDE DEF Extended
<1>3. ASSUME NEW b \in Blocks, NEW c \in Blocks, b # c
      PROVE  Extended[b] <= block_start[c] \/ Extended[c] <= block_start[b]
    <2>1. CASE b = this_block \/ c = this_block  BY <1>2, <1>3, <2>1
    <2>2. CASE b # this_block /\ c # this_block
        BY <1>1, <1>3, <2>2 DEF Apart
    <2> QED  BY <2>1, <2>2
<1> QED  BY <1>3 DEF Apart

-----------------------------------------------------------------------------
(* A branch *)

\* The blocks a branch leaves, one by one: this_block ends at the branch, a
\* block that was split ends at the target, and a new block starts there.
LEMMA SplitEndsAt ==
    ASSUME BranchPoint, NEW target \in Addr, NEW o \in Blocks,
           Split(target, o)
    PROVE  /\ Blocks' = Blocks \cup {gr.size} /\ gr.size \notin Blocks
           /\ \A b \in Blocks : block_start'[b] = block_start[b]
           /\ block_start'[gr.size] = target
           /\ block_end'[gr.size] = Extended[o]
           /\ \A b \in Blocks \ {o} : block_end'[b] = Extended[b]
           /\ block_end'[o] = IF o = this_block THEN Extended[o] ELSE target
           /\ block_start[o] < target /\ target < Extended[o]
           /\ selfSplit' = (selfSplit \/ o = this_block)
<1>1. /\ FirstReal \in Nat /\ gr.size \in Nat /\ gr.size > FirstReal
      /\ Blocks = FirstReal .. gr.size - 1 /\ this_block \in Blocks
      /\ Extended[this_block] = inst_address + 1
      /\ \A b \in Blocks : b # this_block => Extended[b] = block_end[b]
    BY BranchPointFacts
<1>2. /\ Blocks' = Blocks \cup {gr.size} /\ gr.size \notin Blocks
      /\ Blocks' = FirstReal .. gr.size
    BY <1>1 DEF Blocks, Split
<1> HIDE DEF Extended, Blocks
<1>3. /\ block_start' = [b \in Blocks' |-> IF b = gr.size THEN target
                                           ELSE block_start[b]]
      /\ block_end' = [b \in Blocks' |->
                            IF b = this_block THEN inst_address + 1
                            ELSE IF b = o THEN target
                            ELSE IF b = gr.size THEN Extended[o]
                            ELSE block_end[b]]
    BY <1>2 DEF Split, GrowBlocks
<1>4. /\ \A b \in Blocks : block_start'[b] = block_start[b]
      /\ block_start'[gr.size] = target
    BY <1>2, <1>3
<1>5. block_end'[gr.size] = Extended[o]  BY <1>1, <1>2, <1>3
<1>6. \A b \in Blocks \ {o} : block_end'[b] = Extended[b]
    BY <1>1, <1>2, <1>3
<1>7. block_end'[o] = IF o = this_block THEN Extended[o] ELSE target
    BY <1>1, <1>2, <1>3
<1>8. /\ block_start[o] < target /\ target < Extended[o]
      /\ selfSplit' = (selfSplit \/ o = this_block)
    BY DEF Split
<1> QED  BY <1>2, <1>4, <1>5, <1>6, <1>7, <1>8

\* The same for a block that is new.
LEMMA AddedAt ==
    ASSUME BranchPoint, NEW target \in Addr, Added(target)
    PROVE  /\ Blocks' = Blocks \cup {gr.size} /\ gr.size \notin Blocks
           /\ \A b \in Blocks : /\ block_start'[b] = block_start[b]
                                /\ block_end'[b] = Extended[b]
           /\ block_start'[gr.size] = target
           /\ block_end'[gr.size] = target + 1
           /\ \A b \in Blocks : block_start[b] # target
           /\ \A b \in Blocks : ~(block_start[b] < target
                                  /\ target < Extended[b])
           /\ selfSplit' = selfSplit
<1>1. /\ FirstReal \in Nat /\ gr.size \in Nat /\ gr.size > FirstReal
      /\ Blocks = FirstReal .. gr.size - 1 /\ this_block \in Blocks
      /\ Extended[this_block] = inst_address + 1
      /\ \A b \in Blocks : b # this_block => Extended[b] = block_end[b]
    BY BranchPointFacts
<1>2. /\ Blocks' = Blocks \cup {gr.size} /\ gr.size \notin Blocks
      /\ Blocks' = FirstReal .. gr.size
    BY <1>1 DEF Blocks, Added
<1> HIDE DEF Extended, Blocks
<1>3. /\ block_start' = [b \in Blocks' |-> IF b = gr.size THEN target
                                           ELSE block_start[b]]
      /\ block_end' = [b \in Blocks' |->
                            IF b = this_block THEN inst_address + 1
                            ELSE IF b = gr.size THEN target + 1
                            ELSE block_end[b]]
    BY <1>2 DEF Added, GrowBlocks
<1>4. /\ \A b \in Blocks : /\ block_start'[b] = block_start[b]
                           /\ block_end'[b] = Extended[b]
      /\ block_start'[gr.size] = target
      /\ block_end'[gr.size] = target + 1
    BY <1>1, <1>2, <1>3
<1>5. /\ \A b \in Blocks : block_start[b] # target
      /\ \A b \in Blocks : ~(block_start[b] < target /\ target < Extended[b])
      /\ selfSplit' = selfSplit
    BY DEF Added
<1> QED  BY <1>2, <1>4, <1>5

\* A branch leaves blocks that do not overlap, unless it split the block it is
\* in.
LEMMA BranchApart ==
    ASSUME BranchPoint, NEW target \in Addr, Branched(target),
           Apart(Extended), ~selfSplit'
    PROVE  Apart(block_end)'
<1>1. /\ \A b \in Blocks : /\ block_start[b] \in Int /\ Extended[b] \in Int
                           /\ block_start[b] < Extended[b]
      /\ target \in Int
    BY BranchPointFacts, EntryAssumption DEF Addr
<1> HIDE DEF Extended, Blocks
<1>2. \A b, c \in Blocks : b # c =>
            Extended[b] <= block_start[c] \/ Extended[c] <= block_start[b]
    BY DEF Apart
<1>3. CASE Linked(target)
    <2>1. Blocks' = Blocks  BY <1>3 DEF Linked, Blocks
    <2>2. block_end' = Extended /\ block_start' = block_start
        BY <1>3 DEF Linked, Same
    <2> QED  BY <1>2, <2>1, <2>2 DEF Apart
<1>4. CASE \E o \in Blocks : Split(target, o)
    <2>1. PICK o \in Blocks : Split(target, o)  BY <1>4
    <2> DEFINE n == gr.size
    <2>2. /\ Blocks' = Blocks \cup {n} /\ n \notin Blocks
          /\ \A b \in Blocks : block_start'[b] = block_start[b]
          /\ block_start'[n] = target /\ block_end'[n] = Extended[o]
          /\ \A b \in Blocks \ {o} : block_end'[b] = Extended[b]
          /\ block_start[o] < target /\ target < Extended[o]
        BY <2>1, SplitEndsAt
    <2>3. block_end'[o] = target
        <3>1. o # this_block  BY <2>1, SplitEndsAt
        <3> QED  BY <2>1, <3>1, SplitEndsAt
    <2> HIDE DEF n
    <2>4. ASSUME NEW b \in Blocks, NEW c \in Blocks, b # c
          PROVE  block_end'[b] <= block_start'[c]
                 \/ block_end'[c] <= block_start'[b]
        <3>1. /\ block_end'[b] <= Extended[b] /\ block_end'[b] \in Int
              /\ block_end'[c] <= Extended[c] /\ block_end'[c] \in Int
            BY <1>1, <2>2, <2>3
        <3> QED  BY <1>1, <1>2, <2>2, <2>4, <3>1
    <2>5. ASSUME NEW b \in Blocks
          PROVE  block_end'[b] <= block_start'[n]
                 \/ block_end'[n] <= block_start'[b]
        <3>1. CASE b = o  BY <1>1, <2>2, <2>3, <3>1
        <3>2. CASE b # o
            <4>1. block_end'[b] = Extended[b] /\ block_start'[b] = block_start[b]
                BY <2>2, <3>2
            <4>2. Extended[b] <= block_start[o] \/ Extended[o] <= block_start[b]
                BY <1>2, <3>2
            <4> QED  BY <1>1, <2>2, <4>1, <4>2
        <3> QED  BY <3>1, <3>2
    <2> QED  BY <2>2, <2>4, <2>5 DEF Apart
<1>5. CASE Added(target)
    <2> DEFINE n == gr.size
    <2>1. /\ Blocks' = Blocks \cup {n} /\ n \notin Blocks
          /\ \A b \in Blocks : /\ block_start'[b] = block_start[b]
                               /\ block_end'[b] = Extended[b]
          /\ block_start'[n] = target /\ block_end'[n] = target + 1
          /\ \A b \in Blocks : block_start[b] # target
          /\ \A b \in Blocks : ~(block_start[b] < target
                                 /\ target < Extended[b])
        BY <1>5, AddedAt
    <2> HIDE DEF n
    <2>2. \A b \in Blocks : block_end'[b] <= block_start'[n]
                            \/ block_end'[n] <= block_start'[b]
        BY <1>1, <2>1
    <2>3. \A b, c \in Blocks : b # c =>
                block_end'[b] <= block_start'[c] \/ block_end'[c] <= block_start'[b]
        BY <1>2, <2>1
    <2> QED  BY <2>1, <2>2, <2>3 DEF Apart
<1> QED  BY <1>3, <1>4, <1>5 DEF Branched

\* A branch adds the word it leads to, and no other, to the words held.
LEMMA BranchHolds ==
    ASSUME BranchPoint, NEW target \in Addr, Branched(target)
    PROVE  \A a \in Int : Holds(block_end, a)' <=>
                                Holds(Extended, a) \/ a = target
<1>1. /\ \A b \in Blocks : /\ block_start[b] \in Int /\ Extended[b] \in Int
                           /\ block_start[b] < Extended[b]
      /\ target \in Int
    BY BranchPointFacts, EntryAssumption DEF Addr
<1> HIDE DEF Extended, Blocks
<1> SUFFICES ASSUME NEW a \in Int
             PROVE  Holds(block_end, a)' <=> Holds(Extended, a) \/ a = target
    OBVIOUS
<1>3. CASE Linked(target)
    <2>1. Blocks' = Blocks  BY <1>3 DEF Linked, Blocks
    <2>2. block_end' = Extended /\ block_start' = block_start
        BY <1>3 DEF Linked, Same
    <2>3. Holds(Extended, target)
        <3>1. PICK b \in Blocks : block_start[b] = target
            BY <1>3 DEF Linked
        <3> QED  BY <1>1, <3>1 DEF Holds
    <2>4. Holds(block_end, a)' <=> Holds(Extended, a)
        BY <2>1, <2>2 DEF Holds
    <2> QED  BY <2>3, <2>4
<1>4. CASE \E o \in Blocks : Split(target, o)
    <2>1. PICK o \in Blocks : Split(target, o)  BY <1>4
    <2> DEFINE n == gr.size
    <2>2. /\ Blocks' = Blocks \cup {n} /\ n \notin Blocks
          /\ \A b \in Blocks : block_start'[b] = block_start[b]
          /\ block_start'[n] = target /\ block_end'[n] = Extended[o]
          /\ \A b \in Blocks \ {o} : block_end'[b] = Extended[b]
          /\ block_end'[o] = IF o = this_block THEN Extended[o] ELSE target
          /\ block_start[o] < target /\ target < Extended[o]
        BY <2>1, SplitEndsAt
    <2> HIDE DEF n
    <2>3. (block_start[o] <= a /\ a < Extended[o]) <=>
            \/ block_start'[o] <= a /\ a < block_end'[o]
            \/ block_start'[n] <= a /\ a < block_end'[n]
        BY <1>1, <2>2
    <2>4. \A b \in Blocks \ {o} : block_start'[b] = block_start[b]
                                  /\ block_end'[b] = Extended[b]
        BY <2>2
    <2>5. Holds(block_end, a)' <=> Holds(Extended, a)
        BY <2>2, <2>3, <2>4 DEF Holds
    <2>6. Holds(Extended, target)  BY <1>1, <2>2 DEF Holds
    <2> QED  BY <2>5, <2>6
<1>5. CASE Added(target)
    <2> DEFINE n == gr.size
    <2>1. /\ Blocks' = Blocks \cup {n} /\ n \notin Blocks
          /\ \A b \in Blocks : /\ block_start'[b] = block_start[b]
                               /\ block_end'[b] = Extended[b]
          /\ block_start'[n] = target /\ block_end'[n] = target + 1
        BY <1>5, AddedAt
    <2> HIDE DEF n
    <2>2. (block_start'[n] <= a /\ a < block_end'[n]) <=> a = target
        BY <1>1, <2>1
    <2> QED  BY <2>1, <2>2 DEF Holds
<1> QED  BY <1>3, <1>4, <1>5 DEF Branched

-----------------------------------------------------------------------------
(* Disjoint extents *)

\* Relative to IInv, disjointness is inductive.
ApartInv == selfSplit \/ Apart(block_end)

\* One block overlaps no other.
LEMMA InitApart == Init => ApartInv
<1> SUFFICES ASSUME Init PROVE Apart(block_end)  BY DEF ApartInv
<1>1. IsGraph(EmplaceVertex(NewGraph))
      /\ EmplaceVertex(NewGraph).size = FirstReal + 1
    BY NewGraphType, EmplaceVertexType
<1>2. gr.size = FirstReal + 1  BY <1>1 DEF Init, EmplaceLink
<1>3. Blocks = {FirstReal}  BY <1>2 DEF Blocks, FirstReal
<1> QED  BY <1>3 DEF Apart

\* A branch in a block that the scan has just extended, or extended before.
LEMMA BranchApartInv ==
    ASSUME IInv, ApartInv, pc \in {"scan", "bcFalse"},
           pc = "scan" => ~AtOtherHead,
           NEW target \in Addr, Branched(target)
    PROVE  ApartInv'
<1>1. BranchPoint /\ AtScan  BY BranchPointHolds DEF IInv
<1>2. selfSplit => selfSplit'
    <2>1. CASE Linked(target)  BY <2>1 DEF Linked, Same
    <2>2. CASE \E o \in Blocks : Split(target, o)  BY <2>2 DEF Split
    <2>3. CASE Added(target)  BY <2>3 DEF Added
    <2> QED  BY <2>1, <2>2, <2>3 DEF Branched
<1>3. CASE selfSplit'  BY <1>3 DEF ApartInv
<1>4. CASE ~selfSplit'
    <2>1. Apart(block_end)  BY <1>2, <1>4 DEF ApartInv
    <2>2. Apart(Extended)  BY <1>1, <2>1, ExtendedApart
    <2>3. Apart(block_end)'  BY <1>1, <1>4, <2>2, BranchApart
    <2> QED  BY <2>3 DEF ApartInv
<1> QED  BY <1>3, <1>4

\* What each branch does to the blocks, from the lemmas of the core module.
LEMMA BranchEffects ==
    ASSUME IInv
    PROVE  /\ TakeBranch \/ BranchTrue => Branched(inst.target)
           /\ BranchFalse => Branched(inst_address + 1)
           /\ inst.target \in Addr
           /\ BranchFalse => inst_address + 1 \in Addr
<1>1. TypeOK /\ AtScan /\ inst.target \in Addr  BY InstType DEF IInv
<1>2. {"kUnconditional", "kConditionTrue", "kConditionFalse"}
            \subseteq BlockTransfer
    BY DEF BlockTransfer
<1>3. TakeBranch => Branched(inst.target)
    BY <1>1, <1>2, HandleBranchEffect DEF TakeBranch
<1>4. BranchTrue => Branched(inst.target)
    BY <1>1, <1>2, HandleBranchEffect DEF BranchTrue
<1>5. ASSUME BranchFalse
      PROVE  inst_address + 1 \in Addr /\ Branched(inst_address + 1)
    <2>1. inst_address + 1 \in Addr
        BY <1>1, <1>5, EntryAssumption, NextWord
        DEF BranchFalse, TypeOK, AtScan, inst
    <2>2. HandleBranch(Extended, this_block, inst_address + 1,
                       "kConditionFalse")
        BY <1>5, FalseBranchExtended DEF BranchFalse
    <2> QED  BY <1>1, <1>2, <2>1, <2>2, HandleBranchEffect
<1> QED  BY <1>1, <1>3, <1>4, <1>5

\* The block that falls through to a known one gives back the word that is not
\* its own: it ends where it ended before.
LEMMA FallThroughEnds ==
    ASSUME IInv, FallThroughKnown
    PROVE  /\ block_end' = block_end /\ Blocks' = Blocks
           /\ \E c \in Blocks : block_start[c] = inst_address
           /\ inst_address # block_start[this_block]
<1> DEFINE h == Min(BlocksAtHead(inst_address))
<1>1. BranchPoint /\ TypeOK /\ AtScan
    BY BranchPointHolds DEF IInv, FallThroughKnown
<1>2. PICK c \in Blocks : c # this_block /\ block_start[c] = inst_address
    BY DEF FallThroughKnown, AtOtherHead, BlocksAtHead
<1>3. inst_address # block_start[this_block]
    BY <1>1, <1>2, BranchPointFacts
<1>4. block_end[this_block] = inst_address
    BY <1>3 DEF IInv, AtScan, FallThroughKnown
<1>5. block_end' = block_end
    BY <1>1, <1>4 DEF TypeOK, FallThroughKnown
<1>6. gr'.size = gr.size  BY DEF FallThroughKnown, EmplaceLink
<1> QED  BY <1>2, <1>3, <1>5, <1>6 DEF Blocks

\* The closing loop adds edges only.
LEMMA FinishBlockSize ==
    ASSUME FinishBlock
    PROVE  gr'.size = gr.size
BY DEF FinishBlock, EmplaceLink

\* Every step keeps the extents apart.
LEMMA NextApart ==
    ASSUME IInv, ApartInv, [Next]_vars
    PROVE  ApartInv'
<1>1. CASE UNCHANGED <<block_start, block_end, gr, selfSplit>>
    BY <1>1 DEF ApartInv, Apart, Blocks
<1>2. CASE PopBlock  BY <1>1, <1>2 DEF PopBlock
<1>3. CASE FallThroughKnown
    <2>1. block_end' = block_end /\ Blocks' = Blocks
        BY <1>3, FallThroughEnds
    <2>2. UNCHANGED <<block_start, selfSplit>>  BY <1>3 DEF FallThroughKnown
    <2> QED  BY <2>1, <2>2 DEF ApartInv, Apart
<1>4. CASE StepOver \/ EndReturn
    <2>1. /\ pc = "scan" /\ ~AtOtherHead /\ block_end' = Extended
          /\ UNCHANGED <<gr, block_start, selfSplit>>
        BY <1>4 DEF StepOver, EndReturn, Reading
    <2>2. Apart(block_end) => Apart(Extended)
        BY <2>1, BranchPointHolds, ExtendedApart DEF IInv
    <2>3. Apart(Extended) => Apart(block_end)'
        BY <2>1 DEF Apart, Blocks
    <2> QED  BY <2>1, <2>2, <2>3 DEF ApartInv
<1>5. CASE TakeBranch \/ BranchTrue
    <2>1. pc = "scan" /\ ~AtOtherHead
        BY <1>5 DEF TakeBranch, BranchTrue, Reading
    <2> QED  BY <1>5, <2>1, BranchEffects, BranchApartInv
<1>6. CASE BranchFalse
    <2>1. pc = "bcFalse"  BY <1>6 DEF BranchFalse
    <2> QED  BY <1>6, <2>1, BranchEffects, BranchApartInv
<1>7. CASE EndScan  BY <1>1, <1>7 DEF EndScan
<1>8. CASE FinishBlock
    <2>1. Blocks' = Blocks  BY <1>8, FinishBlockSize DEF Blocks
    <2>2. UNCHANGED <<block_start, block_end, selfSplit>>
        BY <1>8 DEF FinishBlock
    <2> QED  BY <2>1, <2>2 DEF ApartInv, Apart
<1>9. CASE Finish  BY <1>1, <1>9 DEF Finish
<1>10. CASE UNCHANGED vars  BY <1>1, <1>10 DEF vars
<1> QED
    BY <1>2, <1>3, <1>4, <1>5, <1>6, <1>7, <1>8, <1>9, <1>10
    DEF Next, Scan, Terminating

\* No word is in two blocks, as long as no block is split while it is being
\* scanned: _nodes_by_range then accepts every block of the routine.
THEOREM ExtentsDisjoint == Spec => []Disjoint
<1>1. Init => ApartInv  BY InitApart
<1>2. IInv /\ ApartInv /\ [Next]_vars => ApartInv'  BY NextApart
<1>3. IInv /\ ApartInv => Disjoint  BY DisjointIsApart DEF IInv, ApartInv
<1> QED  BY <1>1, <1>2, <1>3, InductiveInvariant, PTL DEF Spec

-----------------------------------------------------------------------------
(* The scan implements CodeReach *)

\* The code seen so far, by the ends of the blocks.
SeenWord(a) == Holds(block_end, a) \/ (pc = "scan" /\ a = inst_address)

Queued(a) == \E k \in 1 .. Len(block_stack) : a = block_start[block_stack[k]]

\* A word whose successors need not have been seen yet: it is queued, or just
\* popped, or its branch is half done.
Pending(a) ==
    \/ \E k \in 1 .. Len(block_stack) : a = block_start[block_stack[k]]
    \/ pc = "scan" /\ a = inst_address /\ a = block_start[this_block]
    \/ pc = "bcFalse" /\ a = inst_address

\* The successors of every word in a block have been seen, unless the word is
\* pending.
ExploredInv ==
    /\ \A a \in Int :
            Holds(block_end, a) =>
                Pending(a) \/ \A t \in Succ(code, a) : SeenWord(t)
    /\ pc = "bcFalse" => Holds(block_end, inst.target)

\* Seen, by the ends of the blocks.
LEMMA SeenIsSeenWord ==
    ASSUME TypeOK
    PROVE  /\ Seen \subseteq Int
           /\ \A a \in Int : a \in Seen <=> SeenWord(a)
<1>1. inst_address \in Int  BY EntryAssumption DEF TypeOK, Addr
<1> QED  BY <1>1, CoveredIsHolds DEF Seen, SeenWord

\* The one word held at first is queued.
LEMMA InitExplored == Init => ExploredInv
<1> SUFFICES ASSUME Init PROVE ExploredInv  OBVIOUS
<1>1. IsGraph(EmplaceVertex(NewGraph))
      /\ EmplaceVertex(NewGraph).size = FirstReal + 1
    BY NewGraphType, EmplaceVertexType
<1>2. gr.size = FirstReal + 1  BY <1>1 DEF Init, EmplaceLink
<1>3. Blocks = {FirstReal}  BY <1>2 DEF Blocks, FirstReal
<1>4. ASSUME NEW a \in Int, Holds(block_end, a)
      PROVE  Pending(a)
    <2>1. block_start[FirstReal] <= a /\ a < block_end[FirstReal]
        BY <1>3, <1>4 DEF Holds
    <2>2. a = Entry
        <3>1. Entry \in Int  BY EntryAssumption DEF Addr
        <3> QED  BY <2>1, <3>1 DEF Init
    <2>3. 1 \in 1 .. Len(block_stack) /\ block_stack[1] = FirstReal
        BY DEF Init
    <2> QED  BY <2>2, <2>3 DEF Pending, Init
<1>5. pc # "bcFalse"  BY DEF Init
<1> QED  BY <1>4, <1>5 DEF ExploredInv

\* A branch leaves what is queued queued, and queues the word it leads to
\* unless a block holds it.
LEMMA BranchQueues ==
    ASSUME BranchPoint, NEW target \in Addr, Branched(target)
    PROVE  /\ \A a : Queued(a) => Queued(a)'
           /\ Queued(target)' \/ Holds(Extended, target)
<1>1. /\ block_stack \in Seq(Blocks)
      /\ \A k \in 1 .. Len(block_stack) : block_stack[k] \in Blocks
      /\ \A b \in Blocks : /\ block_start[b] \in Int /\ Extended[b] \in Int
                           /\ block_start[b] < Extended[b]
      /\ target \in Int
    BY BranchPointFacts, EntryAssumption DEF Addr
<1> HIDE DEF Extended, Blocks
<1>2. CASE Linked(target)
    <2>1. UNCHANGED <<block_start, block_stack>>  BY <1>2 DEF Linked, Same
    <2>2. \A a : Queued(a) => Queued(a)'  BY <2>1 DEF Queued
    <2>3. PICK b \in Blocks : block_start[b] = target  BY <1>2 DEF Linked
    <2>4. Holds(Extended, target)  BY <1>1, <2>3 DEF Holds
    <2> QED  BY <2>2, <2>4
<1>3. CASE \E o \in Blocks : Split(target, o)
    <2>1. PICK o \in Blocks : Split(target, o)  BY <1>3
    <2>2. /\ \A b \in Blocks : block_start'[b] = block_start[b]
          /\ block_start[o] < target /\ target < Extended[o]
        BY <2>1, SplitEndsAt
    <2>3. block_stack' = block_stack  BY <2>1 DEF Split
    <2>4. \A a : Queued(a) => Queued(a)'  BY <1>1, <2>2, <2>3 DEF Queued
    <2>5. Holds(Extended, target)  BY <1>1, <2>2 DEF Holds
    <2> QED  BY <2>4, <2>5
<1>4. CASE Added(target)
    <2> DEFINE n == gr.size
    <2>1. /\ \A b \in Blocks : block_start'[b] = block_start[b]
          /\ block_start'[n] = target
        BY <1>4, AddedAt
    <2>2. block_stack' = Append(block_stack, n)  BY <1>4 DEF Added
    <2> HIDE DEF n
    <2>3. block_stack \in Seq(Blocks \cup {n}) /\ n \in Blocks \cup {n}
        BY <1>1, SeqMonotonic
    <2>4. /\ Len(block_stack') = Len(block_stack) + 1
          /\ Len(block_stack) \in Nat
          /\ \A k \in 1 .. Len(block_stack) : block_stack'[k] = block_stack[k]
          /\ block_stack'[Len(block_stack) + 1] = n
        BY <2>2, <2>3, AppendProperties
    <2>5. \A a : Queued(a) => Queued(a)'
        BY <1>1, <2>1, <2>4 DEF Queued
    <2>6. Queued(target)'
        <3>1. Len(block_stack) + 1 \in 1 .. Len(block_stack')  BY <2>4
        <3> QED  BY <2>1, <2>4, <3>1 DEF Queued
    <2> QED  BY <2>5, <2>6
<1> QED  BY <1>2, <1>3, <1>4 DEF Branched

\* Where control goes after the word being scanned, case by case.
LEMMA SuccOf ==
    ASSUME TypeOK
    PROVE  /\ ~EndsBlock(inst) => Succ(code, inst_address) = {inst_address + 1}
           /\ EndsBlock(inst) /\ inst.op = "kB" =>
                    Succ(code, inst_address) = {inst.target}
           /\ EndsBlock(inst) /\ inst.op = "kBc" =>
                    Succ(code, inst_address) = {inst.target, inst_address + 1}
           /\ EndsBlock(inst) /\ inst.op = "kReturn" =>
                    Succ(code, inst_address) = {}
<1>1. inst \in Inst  BY InstType
<1>2. inst.lk \in BOOLEAN /\ inst.op \in {"kB", "kBc", "kReturn", "kOther"}
    BY <1>1 DEF Inst, Op
<1> QED  BY <1>2 DEF Succ, EndsBlock, inst

\* The successors of a word are numbers.
LEMMA SuccInt ==
    ASSUME TypeOK, NEW a \in Addr
    PROVE  Succ(code, a) \subseteq Int
<1>1. code[a] \in Inst /\ a \in Int
    BY EntryAssumption DEF TypeOK, IsProgram, Addr
<1>2. /\ code[a].lk \in BOOLEAN /\ code[a].target \in Int
      /\ code[a].op \in {"kB", "kBc", "kReturn", "kOther"}
    BY <1>1, EntryAssumption DEF Inst, Op, Addr
<1> QED  BY <1>1, <1>2 DEF Succ

\* A word in a block is a word of the routine.
LEMMA HeldIsAddr ==
    ASSUME TypeOK, NEW a \in Int, Holds(block_end, a)
    PROVE  a \in Addr
<1>1. PICK b \in Blocks : block_start[b] <= a /\ a < block_end[b]
    BY DEF Holds
<1>2. block_start[b] \in 0 .. N - 1 /\ block_end[b] \in 0 .. N /\ N \in Nat
    BY <1>1, EntryAssumption DEF TypeOK, Addr
<1> QED  BY <1>1, <1>2 DEF Addr

\* A branch adds the word it leads to to the code seen. The word that holds
\* the branch is explored, or its second successor comes next.
LEMMA BranchExplored ==
    ASSUME IInv, ExploredInv, pc \in {"scan", "bcFalse"},
           NEW target \in Addr, Branched(target),
           UNCHANGED <<code, this_block, inst_address>>,
           pc' \in {"pop", "bcFalse"},
           pc' = "bcFalse" => target = inst.target,
           pc' = "pop" => \A t \in Succ(code, inst_address) :
                                t = target \/ Holds(block_end, t)
    PROVE  /\ ExploredInv'
           /\ SeenWord(inst_address)
           /\ \A a \in Int : SeenWord(a)' <=> SeenWord(a) \/ a = target
<1>1. BranchPoint /\ AtScan /\ TypeOK  BY BranchPointHolds DEF IInv
<1>2. target \in Int /\ inst_address \in Int /\ inst_address \in Addr
    BY <1>1, EntryAssumption DEF TypeOK, Addr
<1>3. /\ \A a \in Int : Holds(Extended, a) <=>
                            Holds(block_end, a) \/ a = inst_address
      /\ pc = "bcFalse" => Holds(block_end, inst_address)
    BY <1>1, ExtendedHolds
<1>4. \A a \in Int : Holds(block_end, a)' <=> Holds(Extended, a) \/ a = target
    BY <1>1, BranchHolds
<1>5. /\ \A a : Queued(a) => Queued(a)'
      /\ Queued(target)' \/ Holds(Extended, target)
    BY <1>1, BranchQueues
<1>6. \A a \in Int : SeenWord(a) <=> Holds(block_end, a) \/ a = inst_address
    BY <1>3 DEF SeenWord
<1>7. \A a : SeenWord(a)' <=> Holds(block_end, a)'
    BY DEF SeenWord
<1>8. \A a \in Int : SeenWord(a)' <=> SeenWord(a) \/ a = target
    BY <1>3, <1>4, <1>6, <1>7
<1>9. inst' = inst  BY DEF inst
<1>10. pc' = "bcFalse" => Holds(block_end, inst.target)'
    <2>1. Holds(block_end, target)'  BY <1>2, <1>4
    <2> QED  BY <1>9, <2>1 DEF Holds
<1>11. ASSUME NEW a \in Int, Holds(block_end, a)'
       PROVE  Pending(a)' \/ \A t \in Succ(code, a)' : SeenWord(t)'
    <2>1. CASE a = inst_address /\ pc' = "bcFalse"
        BY <2>1 DEF Pending
    <2>2. CASE a = inst_address /\ pc' = "pop"
        <3> SUFFICES ASSUME NEW t \in Succ(code, inst_address)
                     PROVE  SeenWord(t)'
            BY <2>2
        <3>1. t \in Int  BY <1>1, <1>2, SuccInt
        <3>2. t = target \/ SeenWord(t)  BY <2>2, <3>1, <1>6
        <3> QED  BY <1>8, <3>1, <3>2
    <2>3. CASE a # inst_address /\ Holds(block_end, a)
        <3>1. CASE Pending(a)
            <4>1. Queued(a)  BY <2>3, <3>1 DEF Pending, Queued
            <4> QED  BY <1>5, <4>1 DEF Pending, Queued
        <3>2. CASE \A t \in Succ(code, a) : SeenWord(t)
            <4>1. Succ(code, a) \subseteq Int
                BY <1>1, <2>3, HeldIsAddr, SuccInt
            <4> QED  BY <1>8, <3>2, <4>1
        <3> QED  BY <2>3, <3>1, <3>2 DEF ExploredInv
    <2>4. CASE a # inst_address /\ ~Holds(block_end, a)
        <3>1. a = target /\ ~Holds(Extended, a)
            BY <1>3, <1>4, <1>11, <2>4
        <3>2. Queued(a)'  BY <1>5, <3>1
        <3> QED  BY <3>2 DEF Pending, Queued
    <2> QED  BY <2>1, <2>2, <2>3, <2>4
<1>12. ExploredInv'  BY <1>9, <1>10, <1>11 DEF ExploredInv
<1>13. SeenWord(inst_address)  BY <1>2, <1>6
<1> QED  BY <1>8, <1>12, <1>13

\* The code seen stays the same, or grows by a successor of the word being
\* scanned, which has been seen.
Quiet == \A a \in Int : SeenWord(a)' <=> SeenWord(a)
Grows(t) ==
    /\ t \in Succ(code, inst_address) /\ t \in Int
    /\ SeenWord(inst_address)
    /\ \A a \in Int : SeenWord(a)' <=> SeenWord(a) \/ a = t

\* Actions that leave the blocks alone, and are not followed by a scan.
LEMMA IdleExplored ==
    ASSUME IInv, ExploredInv,
           UNCHANGED <<code, block_start, block_end, block_stack>>,
           Blocks' = Blocks,
           pc \in {"pop", "finish"}, pc' \in {"pop", "finish", "done"}
    PROVE  ExploredInv' /\ Quiet
<1>1. \A a : Holds(block_end, a)' <=> Holds(block_end, a)  BY DEF Holds
<1>2. \A a : SeenWord(a)' <=> SeenWord(a)  BY <1>1 DEF SeenWord
<1>3. \A a : Pending(a) => Pending(a)'  BY DEF Pending
<1> QED  BY <1>1, <1>2, <1>3 DEF ExploredInv, Quiet

\* The work stack without its last entry.
LEMMA StackPopped ==
    ASSUME IInv, PopBlock
    PROVE  /\ Len(block_stack) \in Nat \ {0}
           /\ Len(block_stack') = Len(block_stack) - 1
           /\ \A k \in 1 .. Len(block_stack) - 1 :
                    block_stack'[k] = block_stack[k]
<1>1. block_stack \in Seq(Blocks) /\ block_stack # <<>>
    BY DEF IInv, TypeOK, PopBlock
<1>2. block_stack' = SubSeq(block_stack, 1, Len(block_stack) - 1)
    BY DEF PopBlock
<1> QED  BY <1>1, <1>2, PopProperties

\* Popping a block: its one word is pending as the word scanned next.
LEMMA PopExplored ==
    ASSUME IInv, ExploredInv, PopBlock
    PROVE  ExploredInv' /\ Quiet
<1> DEFINE n == Len(block_stack)
           b == block_stack[n]
<1>1. /\ block_stack \in Seq(Blocks) /\ block_stack # <<>> /\ pc = "pop"
      /\ this_block' = b /\ inst_address' = block_start[b] /\ pc' = "scan"
      /\ block_stack' = SubSeq(block_stack, 1, n - 1)
      /\ UNCHANGED <<code, gr, block_start, block_end>>
    BY DEF IInv, TypeOK, PopBlock
<1>2. /\ n \in Nat \ {0} /\ Len(block_stack') = n - 1
      /\ \A k \in 1 .. n - 1 : block_stack'[k] = block_stack[k]
    BY StackPopped
<1>3. b \in Blocks  BY <1>1, StackTop
<1>4. Blocks' = Blocks  BY <1>1 DEF Blocks
<1> HIDE DEF n, b
<1>5. \A a : Holds(block_end, a)' <=> Holds(block_end, a)
    BY <1>1, <1>4 DEF Holds
<1>6. Holds(block_end, block_start[b])
    <2>1. block_start[b] \in Int /\ block_start[b] < block_end[b]
        BY <1>3, EntryAssumption DEF IInv, TypeOK, NonEmpty, Addr
    <2> QED  BY <1>3, <2>1 DEF Holds
<1>7. \A a : SeenWord(a)' <=> SeenWord(a)
    BY <1>1, <1>5, <1>6 DEF SeenWord
<1>8. ASSUME NEW a, Pending(a)
      PROVE  Pending(a)'
    <2>1. PICK k \in 1 .. n : a = block_start[block_stack[k]]
        BY <1>1, <1>8 DEF Pending, n
    <2>2. CASE k = n
        <3>1. a = inst_address' /\ a = block_start'[this_block']
            BY <1>1, <2>1, <2>2 DEF b
        <3> QED  BY <1>1, <3>1 DEF Pending
    <2>3. CASE k # n
        <3>1. k \in 1 .. Len(block_stack') /\ block_stack'[k] = block_stack[k]
            BY <1>2, <2>1, <2>3
        <3> QED  BY <1>1, <2>1, <3>1 DEF Pending
    <2> QED  BY <2>2, <2>3
<1> QED  BY <1>1, <1>5, <1>7, <1>8 DEF ExploredInv, Quiet

\* Falling through: the word that is next is held by another block.
LEMMA FallThroughExplored ==
    ASSUME IInv, ExploredInv, FallThroughKnown
    PROVE  ExploredInv' /\ Quiet
<1>1. /\ block_end' = block_end /\ Blocks' = Blocks
      /\ inst_address # block_start[this_block]
    BY FallThroughEnds
<1>2. PICK c \in Blocks : block_start[c] = inst_address  BY FallThroughEnds
<1>3. /\ pc = "scan" /\ pc' = "pop"
      /\ UNCHANGED <<code, block_start, block_stack>>
    BY DEF FallThroughKnown
<1>4. \A a : Holds(block_end, a)' <=> Holds(block_end, a)
    BY <1>1, <1>3 DEF Holds
<1>5. Holds(block_end, inst_address)
    <2>1. block_start[c] \in Int /\ block_start[c] < block_end[c]
        BY EntryAssumption DEF IInv, TypeOK, NonEmpty, Addr
    <2> QED  BY <1>2, <2>1 DEF Holds
<1>6. \A a : SeenWord(a)' <=> SeenWord(a)  BY <1>3, <1>4, <1>5 DEF SeenWord
<1>7. \A a : Pending(a) => Pending(a)'  BY <1>1, <1>3 DEF Pending
<1> QED  BY <1>3, <1>4, <1>6, <1>7 DEF ExploredInv, Quiet

\* The block grows over the word being scanned, whose successors are the word
\* scanned next, if there is one.
LEMMA ExtendExplored ==
    ASSUME IInv, ExploredInv, StepOver \/ EndReturn
    PROVE  /\ ExploredInv'
           /\ StepOver => Grows(inst_address + 1)
           /\ EndReturn => Quiet
<1>1. BranchPoint /\ AtScan /\ TypeOK
    BY BranchPointHolds DEF IInv, StepOver, EndReturn, Reading
<1>2. inst_address \in Int /\ inst_address \in Addr
    BY <1>1, EntryAssumption DEF TypeOK, Addr
<1>3. /\ pc = "scan" /\ block_end' = Extended
      /\ UNCHANGED <<code, gr, block_start, block_stack, this_block>>
      /\ StepOver => pc' = "scan" /\ inst_address' = inst_address + 1
      /\ EndReturn => pc' = "pop" /\ inst_address' = inst_address
    BY DEF StepOver, EndReturn, Reading
<1>4. \A a \in Int : Holds(block_end, a)' <=>
                        Holds(block_end, a) \/ a = inst_address
    <2>1. \A a : Holds(block_end, a)' <=> Holds(Extended, a)
        <3> HIDE DEF Extended
        <3> QED  BY <1>3 DEF Holds, Blocks
    <2> QED  BY <1>1, <2>1, ExtendedHolds
<1>5. \A a \in Int : SeenWord(a) <=> Holds(block_end, a) \/ a = inst_address
    BY <1>3 DEF SeenWord
<1>6. \A a \in Int : SeenWord(a)' <=>
                        SeenWord(a) \/ (StepOver /\ a = inst_address + 1)
    BY <1>3, <1>4, <1>5 DEF SeenWord
<1>7. /\ StepOver => Succ(code, inst_address) = {inst_address + 1}
      /\ EndReturn => Succ(code, inst_address) = {}
    BY <1>1, SuccOf DEF StepOver, EndReturn
<1>8. ASSUME NEW a \in Int, Holds(block_end, a)'
      PROVE  Pending(a)' \/ \A t \in Succ(code, a)' : SeenWord(t)'
    <2>1. CASE a = inst_address
        BY <1>2, <1>3, <1>6, <1>7, <2>1
    <2>2. CASE a # inst_address
        <3>1. Holds(block_end, a)  BY <1>4, <1>8, <2>2
        <3>2. CASE Pending(a)  BY <1>3, <2>2, <3>2 DEF Pending
        <3>3. CASE \A t \in Succ(code, a) : SeenWord(t)
            <4>1. Succ(code, a) \subseteq Int
                BY <1>1, <3>1, HeldIsAddr, SuccInt
            <4> QED  BY <1>3, <1>6, <3>3, <4>1
        <3> QED  BY <3>1, <3>2, <3>3 DEF ExploredInv
    <2> QED  BY <2>1, <2>2
<1>9. ExploredInv'  BY <1>3, <1>8 DEF ExploredInv
<1>10. SeenWord(inst_address)  BY <1>2, <1>5
<1>11. StepOver => Grows(inst_address + 1)
    BY <1>2, <1>6, <1>7, <1>10 DEF Grows
<1>12. ASSUME EndReturn PROVE Quiet
    <2>1. ~StepOver  BY <1>12 DEF EndReturn, StepOver
    <2> QED  BY <1>6, <2>1 DEF Quiet
<1> QED  BY <1>9, <1>11, <1>12

\* The three branches, from BranchExplored.
LEMMA BranchesExplored ==
    ASSUME IInv, ExploredInv, TakeBranch \/ BranchTrue \/ BranchFalse
    PROVE  ExploredInv' /\ \E t \in Int : Grows(t)
<1>1. TypeOK /\ AtScan /\ BranchPoint
    BY BranchPointHolds
    DEF IInv, TakeBranch, BranchTrue, BranchFalse, Reading
<1>2. inst.target \in Addr /\ \A a \in Addr : a \in Int
    BY <1>1, InstType, EntryAssumption DEF Addr
<1>3. CASE TakeBranch
    <2>1. /\ EndsBlock(inst) /\ inst.op = "kB" /\ pc = "scan" /\ pc' = "pop"
          /\ UNCHANGED <<code, this_block, inst_address>>
        BY <1>3 DEF TakeBranch, Reading
    <2>2. Succ(code, inst_address) = {inst.target}  BY <1>1, <2>1, SuccOf
    <2>3. Branched(inst.target)  BY <1>3, BranchEffects
    <2>4. /\ ExploredInv' /\ SeenWord(inst_address)
          /\ \A a \in Int : SeenWord(a)' <=> SeenWord(a) \/ a = inst.target
        BY <1>2, <2>1, <2>2, <2>3, BranchExplored
    <2> QED  BY <1>2, <2>2, <2>4 DEF Grows
<1>4. CASE BranchTrue
    <2>1. /\ EndsBlock(inst) /\ inst.op = "kBc" /\ pc = "scan"
          /\ pc' = "bcFalse"
          /\ UNCHANGED <<code, this_block, inst_address>>
        BY <1>4 DEF BranchTrue, Reading
    <2>2. Succ(code, inst_address) = {inst.target, inst_address + 1}
        BY <1>1, <2>1, SuccOf
    <2>3. Branched(inst.target)  BY <1>4, BranchEffects
    <2>4. /\ ExploredInv' /\ SeenWord(inst_address)
          /\ \A a \in Int : SeenWord(a)' <=> SeenWord(a) \/ a = inst.target
        BY <1>2, <2>1, <2>3, BranchExplored
    <2> QED  BY <1>2, <2>2, <2>4 DEF Grows
<1>5. CASE BranchFalse
    <2>1. /\ pc = "bcFalse" /\ pc' = "pop"
          /\ UNCHANGED <<code, this_block, inst_address>>
        BY <1>5 DEF BranchFalse
    <2>2. EndsBlock(inst) /\ inst.op = "kBc"  BY <1>1, <2>1 DEF AtScan
    <2>3. Succ(code, inst_address) = {inst.target, inst_address + 1}
        BY <1>1, <2>2, SuccOf
    <2>4. Branched(inst_address + 1) /\ inst_address + 1 \in Addr
        BY <1>5, BranchEffects
    <2>5. Holds(block_end, inst.target)  BY <2>1 DEF ExploredInv
    <2>6. /\ ExploredInv' /\ SeenWord(inst_address)
          /\ \A a \in Int : SeenWord(a)' <=>
                                SeenWord(a) \/ a = inst_address + 1
        BY <2>1, <2>3, <2>4, <2>5, BranchExplored
    <2> QED  BY <1>2, <2>3, <2>4, <2>6 DEF Grows
<1> QED  BY <1>3, <1>4, <1>5

\* Every step keeps ExploredInv, and what it sees is the same as before or one
\* successor more; the end comes when nothing is pending.
LEMMA NextExplored ==
    ASSUME IInv, ExploredInv, [Next]_vars
    PROVE  /\ ExploredInv' /\ code' = code
           /\ \/ Quiet /\ (pc' = "done" <=> pc = "done")
              \/ (\E t \in Int : Grows(t)) /\ pc # "done" /\ pc' # "done"
              \/ Quiet /\ Finish
<1>1. CASE UNCHANGED vars
    <2>1. \A a : Holds(block_end, a)' <=> Holds(block_end, a)
        BY <1>1 DEF vars, Holds, Blocks
    <2>2. \A a : SeenWord(a)' <=> SeenWord(a)
        BY <1>1, <2>1 DEF vars, SeenWord
    <2>3. \A a : Pending(a)' <=> Pending(a)  BY <1>1 DEF vars, Pending
    <2>4. Holds(block_end, inst.target)' <=> Holds(block_end, inst.target)
        BY <1>1 DEF vars, Holds, Blocks, inst
    <2> QED  BY <1>1, <2>1, <2>2, <2>3, <2>4 DEF vars, ExploredInv, Quiet
<1>2. CASE PopBlock
    <2>1. ExploredInv' /\ Quiet  BY <1>2, PopExplored
    <2> QED  BY <1>2, <2>1 DEF PopBlock
<1>3. CASE FallThroughKnown
    <2>1. ExploredInv' /\ Quiet  BY <1>3, FallThroughExplored
    <2> QED  BY <1>3, <2>1 DEF FallThroughKnown
<1>4. CASE StepOver
    <2>1. ExploredInv' /\ Grows(inst_address + 1)  BY <1>4, ExtendExplored
    <2>2. inst_address + 1 \in Int  BY <2>1 DEF Grows
    <2> QED  BY <1>4, <2>1, <2>2 DEF StepOver, Reading
<1>5. CASE EndReturn
    <2>1. ExploredInv' /\ Quiet  BY <1>5, ExtendExplored
    <2> QED  BY <1>5, <2>1 DEF EndReturn, Reading
<1>6. CASE TakeBranch \/ BranchTrue \/ BranchFalse
    <2>1. ExploredInv' /\ \E t \in Int : Grows(t)  BY <1>6, BranchesExplored
    <2>2. pc # "done" /\ pc' # "done" /\ code' = code
        BY <1>6 DEF TakeBranch, BranchTrue, BranchFalse, Reading
    <2> QED  BY <2>1, <2>2
<1>7. CASE EndScan
    <2>1. Blocks' = Blocks  BY <1>7 DEF EndScan, Blocks
    <2>2. ExploredInv' /\ Quiet  BY <1>7, <2>1, IdleExplored DEF EndScan
    <2> QED  BY <1>7, <2>2 DEF EndScan
<1>8. CASE FinishBlock
    <2>1. Blocks' = Blocks  BY <1>8, FinishBlockSize DEF Blocks
    <2>2. ExploredInv' /\ Quiet  BY <1>8, <2>1, IdleExplored DEF FinishBlock
    <2> QED  BY <1>8, <2>2 DEF FinishBlock
<1>9. CASE Finish
    <2>1. Blocks' = Blocks  BY <1>9 DEF Finish, Blocks
    <2>2. ExploredInv' /\ Quiet  BY <1>9, <2>1, IdleExplored DEF Finish
    <2> QED  BY <1>9, <2>2 DEF Finish
<1> QED
    BY <1>1, <1>2, <1>3, <1>4, <1>5, <1>6, <1>7, <1>8, <1>9
    DEF Next, Scan, Terminating

\* The first state is one of CodeReach.
LEMMA InitReach == Init /\ IInv => Reach!Init
<1> SUFFICES ASSUME Init, IInv PROVE Reach!Init  OBVIOUS
<1>1. IsGraph(EmplaceVertex(NewGraph))
      /\ EmplaceVertex(NewGraph).size = FirstReal + 1
    BY NewGraphType, EmplaceVertexType
<1>2. gr.size = FirstReal + 1  BY <1>1 DEF Init, EmplaceLink
<1>3. Blocks = {FirstReal}  BY <1>2 DEF Blocks, FirstReal
<1>4. Entry \in Int  BY EntryAssumption DEF Addr
<1>5. \A a \in Int : SeenWord(a) <=> a = Entry
    BY <1>3, <1>4 DEF SeenWord, Holds, Init
<1>6. Seen = {Entry}
    <2>1. Seen \subseteq Int /\ \A a \in Int : a \in Seen <=> SeenWord(a)
        BY SeenIsSeenWord DEF IInv
    <2> QED  BY <1>4, <1>5, <2>1
<1>7. IsProgram(code) /\ pc # "done"  BY DEF IInv, TypeOK, Init
<1>8. Reach!IsProgram(code)
    BY <1>7 DEF IsProgram, Addr, Inst, Op, EndsBlock, Reach!IsProgram,
                Reach!Addr, Reach!Inst, Reach!Op, Reach!EndsBlock
<1> QED  BY <1>6, <1>7, <1>8 DEF Reach!Init

\* Every step is a step of CodeReach or leaves its variables alone.
LEMMA NextReach ==
    ASSUME IInv, IInv', ExploredInv, [Next]_vars
    PROVE  [Reach!Next]_(Reach!reachVars)
<1>1. /\ Seen \subseteq Int /\ Seen' \subseteq Int
      /\ \A a \in Int : a \in Seen <=> SeenWord(a)
      /\ \A a \in Int : a \in Seen' <=> SeenWord(a)'
    <2>1. TypeOK /\ TypeOK'  BY DEF IInv
    <2>2. (TypeOK => /\ Seen \subseteq Int
                     /\ \A a \in Int : a \in Seen <=> SeenWord(a))
        BY SeenIsSeenWord
    <2>3. (TypeOK => /\ Seen \subseteq Int
                     /\ \A a \in Int : a \in Seen <=> SeenWord(a))'
        BY SeenIsSeenWord, PTL
    <2> QED  BY <2>1, <2>2, <2>3
<1>2. Quiet => Seen' = Seen  BY <1>1 DEF Quiet
<1>3. code' = code  BY NextExplored
<1>4. CASE Quiet /\ (pc' = "done" <=> pc = "done")
    BY <1>2, <1>3, <1>4 DEF Reach!reachVars
<1>5. CASE (\E t \in Int : Grows(t)) /\ pc # "done" /\ pc' # "done"
    <2>1. PICK t \in Int : Grows(t)  BY <1>5
    <2>2. inst_address \in Seen
        <3>1. inst_address \in Int  BY EntryAssumption DEF IInv, TypeOK, Addr
        <3> QED  BY <1>1, <2>1, <3>1 DEF Grows
    <2>3. t \in Succ(code, inst_address)  BY <2>1 DEF Grows
    <2>4. Seen' = Seen \cup {t}  BY <1>1, <2>1 DEF Grows
    <2>5. Reach!Discover
        BY <1>3, <1>5, <2>2, <2>3, <2>4 DEF Reach!Discover, Reach!Succ, Succ
    <2> QED  BY <2>5 DEF Reach!Next
<1>6. CASE Quiet /\ Finish
    <2>1. /\ pc = "finish" /\ pc' = "done" /\ block_stack = <<>>
        BY <1>6 DEF Finish, IInv, StackDone
    <2>2. \A a : ~Pending(a)  BY <2>1 DEF Pending
    <2>3. ASSUME NEW a \in Seen
          PROVE  Succ(code, a) \subseteq Seen
        <3>1. a \in Int /\ Holds(block_end, a)
            BY <1>1, <2>1 DEF SeenWord
        <3>2. \A t \in Succ(code, a) : SeenWord(t)
            BY <2>2, <3>1 DEF ExploredInv
        <3>3. Succ(code, a) \subseteq Int
            BY <3>1, HeldIsAddr, SuccInt DEF IInv
        <3> QED  BY <1>1, <3>2, <3>3
    <2>4. Reach!Finish
        BY <1>2, <1>3, <1>6, <2>1, <2>3
        DEF Reach!Finish, Reach!Closed, Reach!Succ, Succ
    <2> QED  BY <2>4 DEF Reach!Next
<1> QED  BY <1>4, <1>5, <1>6, NextExplored

\* The blocks cover code that control can reach from the entry, and no other,
\* and the analysis does not end before they cover all of it.
THEOREM ImplementsReachSafely == Spec => Reach!SafeSpec
<1>1. Init => IInv /\ ExploredInv  BY InitIInv, InitExplored
<1>2. IInv /\ ExploredInv /\ [Next]_vars => ExploredInv'  BY NextExplored
<1>3. IInv /\ IInv' /\ ExploredInv /\ [Next]_vars
            => [Reach!Next]_(Reach!reachVars)
    BY NextReach
<1>4. Init /\ IInv => Reach!Init  BY InitReach
<1> QED
    BY <1>1, <1>2, <1>3, <1>4, InductiveInvariant, PTL
    DEF Spec, Reach!SafeSpec

-----------------------------------------------------------------------------
(* The graph, one call of a mutator at a time *)

\* A graph whose edges agree and that keeps clear of the pseudo vertices.
Shape(g) == Mirrored(g) /\ g.in[Root] = <<>> /\ g.out[Terminal] = <<>>

\* What a mutator leaves of such a graph: g becomes h.
Kept(g, h) ==
    /\ Shape(h) /\ h.out[Root] = g.out[Root]
    /\ \A B : Rooted(g, Root, B) => Rooted(h, Root, B)

\* The pseudo vertices and the others.
LEMMA VertexKinds ==
    ASSUME NEW g, IsGraph(g)
    PROVE  /\ Root \in Vertices(g) /\ Terminal \in Vertices(g)
           /\ FirstReal .. g.size - 1 \subseteq Vertices(g)
           /\ Root \notin FirstReal .. g.size - 1
           /\ Terminal \notin FirstReal .. g.size - 1
           /\ g.size \notin {Root, Terminal} /\ Root # Terminal
           /\ g.size \in Nat /\ FirstReal \in Nat
BY DEF IsGraph, Vertices, Root, Terminal, FirstReal

\* A link between blocks, or from a block to the exit.
LEMMA LinkKept ==
    ASSUME NEW g, IsGraph(g), Shape(g), NEW tr \in BlockTransfer,
           NEW u \in Vertices(g), u \notin {Root, Terminal},
           NEW v \in Vertices(g), v # Root
    PROVE  LET h == EmplaceLink(g, u, v, tr)
           IN  /\ Kept(g, h)
               /\ \A B : Rooted(g, Root, B) /\ u \in B =>
                                Rooted(h, Root, B \cup {v})
<1> DEFINE h == EmplaceLink(g, u, v, tr)
<1>1. Root \in Vertices(g) /\ Terminal \in Vertices(g)  BY VertexKinds
<1>2. /\ \A w \in Vertices(g) : w # u => h.out[w] = g.out[w]
      /\ \A w \in Vertices(g) : w # v => h.in[w] = g.in[w]
    BY EmplaceLinkLists
<1>3. Mirrored(h)  BY EmplaceLinkMirrored DEF Shape
<1>4. \A B : Rooted(g, Root, B) =>
            /\ Rooted(h, Root, B)
            /\ u \in B => Rooted(h, Root, B \cup {v})
    BY <1>1, RootedLink
<1> HIDE DEF h
<1> QED  BY <1>1, <1>2, <1>3, <1>4 DEF Kept, Shape, h

\* A new vertex.
LEMMA VertexKept ==
    ASSUME NEW g, IsGraph(g), Shape(g)
    PROVE  Kept(g, EmplaceVertex(g))
<1> DEFINE h == EmplaceVertex(g)
<1>1. Root \in Vertices(g) /\ Terminal \in Vertices(g)  BY VertexKinds
<1>2. /\ Vertices(g) \subseteq Vertices(h)
      /\ \A w \in Vertices(g) : h.out[w] = g.out[w] /\ h.in[w] = g.in[w]
    BY EmplaceVertexLists
<1>3. Mirrored(h)  BY EmplaceVertexMirrored DEF Shape
<1> HIDE DEF h
<1>4. \A B : Rooted(g, Root, B) => Rooted(h, Root, B)
    <2>1. \A w \in Vertices(g) : Successors(g, w) \subseteq Successors(h, w)
        BY <1>2 DEF Successors
    <2> QED  BY <1>1, <1>2, <2>1, RootedGrows
<1> QED  BY <1>1, <1>2, <1>3, <1>4 DEF Kept, Shape, h

\* A split.
LEMMA InsertKept ==
    ASSUME NEW g, IsGraph(g), Shape(g), NEW tr \in BlockTransfer,
           NEW o \in Vertices(g), o \notin {Root, Terminal}
    PROVE  LET h == InsertAfter(g, o, tr)
           IN  /\ Shape(h) /\ h.out[Root] = g.out[Root]
               /\ \A B : Rooted(g, Root, B) /\ o \in B =>
                                Rooted(h, Root, B \cup {g.size})
<1> DEFINE m == Moved(g, o)
           h == InsertAfter(g, o, tr)
           n == g.size
<1>1. /\ Root \in Vertices(g) /\ Terminal \in Vertices(g)
      /\ n \notin {Root, Terminal}
    BY VertexKinds
<1>2. Mirrored(g)  BY DEF Shape
<1>3. /\ Vertices(m) = Vertices(g) \cup {n}
      /\ \A w \in Vertices(g) : w # o => m.out[w] = g.out[w]
      /\ \A w \in Vertices(g) : Len(m.in[w]) = Len(g.in[w])
    BY <1>2, MovedLists
<1>4. IsGraph(m)  BY MovedType
<1>5. Mirrored(h)  BY <1>2, InsertAfterMirrored
<1>6. \A B : Rooted(g, Root, B) /\ o \in B => Rooted(h, Root, B \cup {n})
    BY <1>1, <1>2, RootedInsert
<1>7. h = EmplaceLink(m, o, n, tr)  BY InsertAfterIs
<1>8. m.in[Root] = <<>>
    <2>1. m.in[Root] \in Seq(EdgeData(m.size))
        <3> HIDE DEF m
        <3> QED  BY <1>1, <1>3, <1>4, GraphLists
    <2>2. Len(m.in[Root]) = 0  BY <1>1, <1>3 DEF Shape
    <2> HIDE DEF m
    <2> QED  BY <2>1, <2>2, EmptySeq
<1> HIDE DEF m, h, n
<1>9. /\ \A w \in Vertices(m) : w # o => h.out[w] = m.out[w]
      /\ \A w \in Vertices(m) : w # n => h.in[w] = m.in[w]
    <2>1. o \in Vertices(m) /\ n \in Vertices(m)  BY <1>3
    <2> QED  BY <1>4, <1>7, <2>1, EmplaceLinkLists
<1>10. h.in[Root] = <<>> /\ h.out[Terminal] = <<>> /\ h.out[Root] = g.out[Root]
    BY <1>1, <1>3, <1>8, <1>9 DEF Shape
<1> QED  BY <1>5, <1>6, <1>10 DEF Shape, h, n

-----------------------------------------------------------------------------
(* The graph, one step at a time *)

\* AllReachable, without paths.
LEMMA ReachableIsRooted ==
    ASSUME TypeOK
    PROVE  AllReachable <=> Rooted(gr, Root, Blocks)
<1>1. Root \in Vertices(gr) /\ Blocks \subseteq Vertices(gr)
    BY BlocksAreVertices
<1>2. \A b \in Blocks : <<Root, b>> \in Paths(gr) <=>
            \A S \in ClosedSets(gr) : Successors(gr, Root) \subseteq S => b \in S
    BY <1>1 DEF Paths
<1> QED  BY <1>2 DEF AllReachable, Rooted

GraphInv == GraphWellFormed /\ Rooted(gr, Root, Blocks)

\* The first graph: the root leads to the first block.
LEMMA InitGraph == Init => GraphInv
<1> SUFFICES ASSUME Init PROVE GraphInv  OBVIOUS
<1> DEFINE g == EmplaceVertex(NewGraph)
<1>1. IsGraph(NewGraph) /\ NewGraph.size = FirstReal  BY NewGraphType
<1>2. IsGraph(g) /\ g.size = FirstReal + 1  BY <1>1, EmplaceVertexType
<1>3. gr = EmplaceLink(g, Root, FirstReal, "kFallthrough")  BY DEF Init
<1>4. Mirrored(g)  BY <1>1, NewGraphMirrored, EmplaceVertexMirrored
<1>5. /\ Root \in Vertices(g) /\ Terminal \in Vertices(g)
      /\ FirstReal \in Vertices(g)
      /\ Root # FirstReal /\ Terminal # Root
    BY <1>2 DEF Vertices, Root, Terminal, FirstReal
<1>6. /\ g.out[Root] = <<>> /\ g.in[Root] = <<>> /\ g.out[Terminal] = <<>>
    <2>1. Root \in Vertices(NewGraph) /\ Terminal \in Vertices(NewGraph)
        BY <1>1, VertexKinds
    <2>2. /\ NewGraph.out[Root] = <<>> /\ NewGraph.in[Root] = <<>>
          /\ NewGraph.out[Terminal] = <<>>
        BY DEF NewGraph
    <2> QED  BY <1>1, <2>1, <2>2, EmplaceVertexLists
<1> HIDE DEF g
<1>7. "kFallthrough" \in BlockTransfer  BY DEF BlockTransfer
<1>8. Mirrored(gr)  BY <1>2, <1>3, <1>4, <1>5, <1>7, EmplaceLinkMirrored
<1>9. /\ gr.out[Root] = Append(<<>>, Edge(FirstReal, "kFallthrough"))
      /\ gr.in[Root] = <<>> /\ gr.out[Terminal] = <<>>
      /\ FirstReal \in Successors(gr, Root)
    <2>1. Edge(FirstReal, "kFallthrough") \in EdgeData(g.size)
        BY <1>2, <1>5, <1>7, EdgeType DEF Vertices
    <2> QED
        BY <1>2, <1>3, <1>5, <1>6, <1>7, EmplaceLinkLists, EmplaceLinkSuccessors
<1>10. gr.size = FirstReal + 1  BY <1>2, <1>3 DEF EmplaceLink
<1>11. Blocks = {FirstReal}  BY <1>10 DEF Blocks, FirstReal
<1>12. gr.out[Root] = <<Edge(FirstReal, "kFallthrough")>>  BY <1>9
<1>13. block_start[FirstReal] = Entry  BY DEF Init
<1>14. Rooted(gr, Root, Blocks)  BY <1>9, <1>11 DEF Rooted
<1> QED  BY <1>8, <1>9, <1>11, <1>12, <1>13, <1>14 DEF GraphInv, GraphWellFormed

\* A step that changes the graph as the mutators do keeps GraphInv.
LEMMA KeptInv ==
    ASSUME TypeOK, GraphInv, Shape(gr'), gr'.out[Root] = gr.out[Root],
           Blocks \subseteq Blocks',
           \A b \in Blocks : block_start'[b] = block_start[b],
           Rooted(gr', Root, Blocks')
    PROVE  GraphInv'
<1>1. PICK b \in Blocks : /\ gr.out[Root] = <<Edge(b, "kFallthrough")>>
                          /\ block_start[b] = Entry
    BY DEF GraphInv, GraphWellFormed
<1>2. /\ b \in Blocks' /\ gr'.out[Root] = <<Edge(b, "kFallthrough")>>
      /\ block_start'[b] = Entry
    BY <1>1
<1> QED  BY <1>2 DEF GraphInv, GraphWellFormed, Shape

\* handle_branch keeps it.
LEMMA BranchGraph ==
    ASSUME BranchPoint, GraphInv, NEW target \in Addr, NEW tr \in BlockTransfer,
           HandleBranch(Extended, this_block, target, tr)
    PROVE  GraphInv'
<1> DEFINE n == gr.size
<1>1. /\ IsGraph(gr) /\ TypeOK /\ this_block \in Blocks
      /\ Blocks \subseteq Vertices(gr) /\ Blocks \subseteq Nat
      /\ Blocks = FirstReal .. n - 1
    BY BlocksAreVertices DEF BranchPoint, TypeOK, Blocks
<1>2. /\ Root \notin Blocks /\ Terminal \notin Blocks /\ n \in Nat
      /\ n \notin {Root, Terminal} /\ FirstReal \in Nat
    BY <1>1, VertexKinds
<1>3. Shape(gr) /\ Rooted(gr, Root, Blocks)
    BY DEF GraphInv, GraphWellFormed, Shape
<1>4. CASE LinkKnown(Extended, this_block, target, tr)
    <2> DEFINE b == Min(BlocksAtHead(target))
    <2>1. b \in Blocks
        <3>1. BlocksAtHead(target) # {} /\ BlocksAtHead(target) \subseteq Nat
              /\ BlocksAtHead(target) \subseteq Blocks
            BY <1>1, <1>4 DEF LinkKnown, BlocksAtHead
        <3> QED  BY <3>1, MinType
    <2>2. gr' = EmplaceLink(gr, this_block, b, tr) /\ block_start' = block_start
        BY <1>4 DEF LinkKnown
    <2> HIDE DEF b, n
    <2>3. Kept(gr, gr')
        BY <1>1, <1>2, <1>3, <2>1, <2>2, LinkKept
    <2>4. Blocks' = Blocks  BY <2>2 DEF Blocks, EmplaceLink
    <2> QED  BY <1>1, <1>3, <2>2, <2>3, <2>4, KeptInv DEF Kept
<1>5. CASE SplitKnown(Extended, this_block, target, tr)
    <2> DEFINE o == Min(BlocksContaining(Extended, target))
               h == InsertAfter(gr, o, "kFallthrough")
    <2>1. o \in Blocks
        <3> DEFINE C == BlocksContaining(Extended, target)
        <3>1. C # {} /\ C \subseteq Nat /\ C \subseteq Blocks
            BY <1>1, <1>5 DEF SplitKnown, BlocksContaining
        <3> HIDE DEF C
        <3>2. Min(C) \in C  BY <3>1, MinType
        <3> QED  BY <3>1, <3>2 DEF C
    <2>2. /\ gr' = EmplaceLink(h, this_block, n, tr)
          /\ block_start' = GrowBlocks(block_start, target)
        BY <1>5 DEF SplitKnown
    <2> HIDE DEF o
    <2>3. "kFallthrough" \in BlockTransfer  BY DEF BlockTransfer
    <2>4. IsGraph(h) /\ h.size = n + 1
        BY <1>1, <2>1, <2>3, InsertAfterType
    <2>5. /\ Shape(h) /\ h.out[Root] = gr.out[Root]
          /\ Rooted(h, Root, Blocks \cup {n})
        BY <1>1, <1>2, <1>3, <2>1, <2>3, InsertKept
    <2> HIDE DEF h
    <2>6. this_block \in Vertices(h) /\ n \in Vertices(h)
        BY <1>1, <1>2, <2>4 DEF Vertices
    <2>7. Kept(h, gr')
        BY <1>1, <1>2, <2>2, <2>4, <2>5, <2>6, LinkKept
    <2>8. Blocks' = Blocks \cup {n} /\ n \notin Blocks
        <3>1. gr'.size = n + 1  BY <2>2, <2>4 DEF EmplaceLink
        <3>2. n >= FirstReal  BY <1>1, <1>2
        <3> QED  BY <1>1, <1>2, <3>1, <3>2 DEF Blocks
    <2>9. \A b \in Blocks : block_start'[b] = block_start[b]
        BY <1>1, <1>2, <2>2 DEF GrowBlocks
    <2> QED  BY <1>1, <2>5, <2>7, <2>8, <2>9, KeptInv DEF Kept
<1>6. CASE NewBlock(Extended, this_block, target, tr)
    <2> DEFINE h == EmplaceVertex(gr)
    <2>1. /\ gr' = EmplaceLink(h, this_block, n, tr)
          /\ block_start' = GrowBlocks(block_start, target)
        BY <1>6 DEF NewBlock
    <2>2. IsGraph(h) /\ h.size = n + 1  BY <1>1, EmplaceVertexType
    <2>3. Kept(gr, h)  BY <1>1, <1>3, VertexKept
    <2> HIDE DEF h
    <2>4. Shape(h) /\ h.out[Root] = gr.out[Root] /\ Rooted(h, Root, Blocks)
        BY <1>3, <2>3 DEF Kept
    <2>5. this_block \in Vertices(h) /\ n \in Vertices(h)
        BY <1>1, <1>2, <2>2 DEF Vertices
    <2>6. Kept(h, gr') /\ Rooted(gr', Root, Blocks \cup {n})
        BY <1>1, <1>2, <2>1, <2>2, <2>4, <2>5, LinkKept
    <2>7. Blocks' = Blocks \cup {n} /\ n \notin Blocks
        <3>1. gr'.size = n + 1  BY <2>1, <2>2 DEF EmplaceLink
        <3>2. n >= FirstReal  BY <1>1, <1>2
        <3> QED  BY <1>1, <1>2, <3>1, <3>2 DEF Blocks
    <2>8. \A b \in Blocks : block_start'[b] = block_start[b]
        BY <1>1, <1>2, <2>1 DEF GrowBlocks
    <2> QED  BY <1>1, <2>4, <2>6, <2>7, <2>8, KeptInv DEF Kept
<1> QED  BY <1>4, <1>5, <1>6 DEF HandleBranch
\* Every step keeps the graph well-formed and connected.
LEMMA NextGraph ==
    ASSUME IInv, GraphInv, [Next]_vars
    PROVE  GraphInv'
<1>1. CASE UNCHANGED <<gr, block_start>>
    BY <1>1 DEF GraphInv, GraphWellFormed, Blocks
<1>2. /\ TypeOK /\ IsGraph(gr) /\ Blocks \subseteq Vertices(gr)
      /\ Terminal \in Vertices(gr) /\ Root # Terminal
      /\ \A b \in Blocks : b \notin {Root, Terminal}
    BY BlocksAreVertices, VertexKinds DEF IInv, Blocks
<1>3. Shape(gr) /\ Rooted(gr, Root, Blocks)
    BY DEF GraphInv, GraphWellFormed, Shape
<1>4. CASE FallThroughKnown
    <2> DEFINE b == Min(BlocksAtHead(inst_address))
    <2>1. b \in Blocks
        <3>1. BlocksAtHead(inst_address) \subseteq Blocks
              /\ BlocksAtHead(inst_address) # {}
            BY <1>4 DEF BlocksAtHead, FallThroughKnown, AtOtherHead
        <3>2. Blocks \subseteq Nat  BY <1>2, BlocksAreVertices
        <3> QED  BY <3>1, <3>2, MinType
    <2>2. /\ gr' = EmplaceLink(gr, this_block, b, "kFallthrough")
          /\ block_start' = block_start
        BY <1>4 DEF FallThroughKnown
    <2> HIDE DEF b
    <2>3. this_block \in Blocks /\ "kFallthrough" \in BlockTransfer
        BY <1>2 DEF TypeOK, BlockTransfer
    <2>4. Kept(gr, gr')  BY <1>2, <1>3, <2>1, <2>2, <2>3, LinkKept
    <2>5. Blocks' = Blocks  BY <2>2 DEF Blocks, EmplaceLink
    <2> QED  BY <1>2, <1>3, <2>2, <2>4, <2>5, KeptInv DEF Kept
<1>5. CASE FinishBlock
    <2>1. CASE gr' = gr  BY <1>1, <1>5, <2>1 DEF FinishBlock
    <2>2. CASE gr' # gr
        <3>1. /\ gr' = EmplaceLink(gr, fill, Terminal, "kUnconditional")
              /\ block_start' = block_start /\ fill \in Blocks
            BY <1>5, <2>2 DEF FinishBlock
        <3>2. "kUnconditional" \in BlockTransfer  BY DEF BlockTransfer
        <3>3. Kept(gr, gr')  BY <1>2, <1>3, <3>1, <3>2, LinkKept
        <3>4. Blocks' = Blocks  BY <3>1 DEF Blocks, EmplaceLink
        <3> QED  BY <1>2, <1>3, <3>1, <3>3, <3>4, KeptInv DEF Kept
    <2> QED  BY <2>1, <2>2
<1>6. {"kUnconditional", "kConditionTrue", "kConditionFalse"}
            \subseteq BlockTransfer
    BY DEF BlockTransfer
<1>7. CASE TakeBranch \/ BranchTrue
    <2>1. BranchPoint
        BY <1>7, BranchPointHolds DEF TakeBranch, BranchTrue, Reading
    <2>2. \/ HandleBranch(Extended, this_block, inst.target, "kUnconditional")
          \/ HandleBranch(Extended, this_block, inst.target, "kConditionTrue")
        BY <1>7 DEF TakeBranch, BranchTrue
    <2>3. inst.target \in Addr  BY <1>2, InstType
    <2> QED  BY <1>6, <2>1, <2>2, <2>3, BranchGraph
<1>8. CASE BranchFalse
    <2>1. BranchPoint  BY <1>8, BranchPointHolds DEF BranchFalse
    <2>2. HandleBranch(Extended, this_block, inst_address + 1,
                       "kConditionFalse")
        BY <1>8, FalseBranchExtended DEF BranchFalse
    <2>3. inst_address + 1 \in Addr  BY <1>8, BranchEffects
    <2> QED  BY <1>6, <2>1, <2>2, <2>3, BranchGraph
<1>9. CASE PopBlock  BY <1>1, <1>9 DEF PopBlock
<1>10. CASE StepOver  BY <1>1, <1>10 DEF StepOver
<1>11. CASE EndReturn  BY <1>1, <1>11 DEF EndReturn
<1>12. CASE EndScan  BY <1>1, <1>12 DEF EndScan
<1>13. CASE Finish  BY <1>1, <1>13 DEF Finish
<1>14. CASE UNCHANGED vars  BY <1>1, <1>14 DEF vars
<1> QED
    BY <1>4, <1>5, <1>7, <1>8, <1>9, <1>10, <1>11, <1>12, <1>13, <1>14
    DEF Next, Scan, Terminating

-----------------------------------------------------------------------------
(* Blocks that are queued or being scanned *)

\* No other block overlaps the block b.
ApartFrom(end, b) ==
    \A c \in Blocks :
        c = b \/ end[b] <= block_start[c] \/ end[c] <= block_start[b]

InStack(b) == \E k \in 1 .. Len(block_stack) : b = block_stack[k]

\* Even when finished blocks overlap (selfSplit), the scan never enters a
\* block by anything but its head.
FreshApart ==
    \A b \in Blocks :
        InStack(b) \/ (pc = "scan" /\ b = this_block) => ApartFrom(block_end, b)

\* The first block is alone.
LEMMA InitFresh == Init => FreshApart
<1> SUFFICES ASSUME Init PROVE FreshApart  OBVIOUS
<1>1. IsGraph(EmplaceVertex(NewGraph))
      /\ EmplaceVertex(NewGraph).size = FirstReal + 1
    BY NewGraphType, EmplaceVertexType
<1>2. gr.size = FirstReal + 1  BY <1>1 DEF Init, EmplaceLink
<1>3. Blocks = {FirstReal}  BY <1>2 DEF Blocks, FirstReal
<1> QED  BY <1>3 DEF FreshApart, ApartFrom

\* Extending this_block over a word that heads no other block brings it into
\* no block that is queued, and leaves it apart while it is being scanned.
LEMMA ExtendedFresh ==
    ASSUME BranchPoint, AtScan, FreshApart, pc = "scan" => ~AtOtherHead,
           NEW b \in Blocks, InStack(b) \/ (pc = "scan" /\ b = this_block)
    PROVE  ApartFrom(Extended, b)
<1>1. /\ this_block \in Blocks /\ inst_address \in Int
      /\ \A c \in Blocks : block_start[c] \in Int /\ block_end[c] \in Int
      /\ Extended[this_block] = inst_address + 1
      /\ \A c \in Blocks : c # this_block => Extended[c] = block_end[c]
      /\ block_start[this_block] <= inst_address
      /\ \A c \in Blocks : block_start[c] < block_end[c]
      /\ pc \in {"scan", "bcFalse"}
    <2>1. /\ N \in Nat /\ this_block \in Blocks /\ inst_address \in 0 .. N - 1
          /\ block_start \in [Blocks -> 0 .. N - 1]
          /\ block_end \in [Blocks -> 0 .. N]
          /\ Extended[this_block] = inst_address + 1
          /\ \A c \in Blocks : c # this_block => Extended[c] = block_end[c]
        BY ONLY BranchPoint, BranchPointFacts
    <2>2. /\ block_start[this_block] <= inst_address
          /\ \A c \in Blocks : block_start[c] < block_end[c]
          /\ pc \in {"scan", "bcFalse"}
        BY DEF BranchPoint, NonEmpty
    <2> HIDE DEF Extended, Blocks
    <2>3. \A c \in Blocks : block_start[c] \in Int /\ block_end[c] \in Int
        BY ONLY <2>1
    <2> QED  BY ONLY <2>1, <2>2, <2>3
<1>2. ApartFrom(block_end, b)  BY DEF FreshApart
<1> HIDE DEF Extended, Blocks
<1>3. ASSUME NEW c \in Blocks, c # this_block,
             \/ block_end[c] <= block_start[this_block]
             \/ block_end[this_block] <= block_start[c]
      PROVE  \/ block_end[c] <= block_start[this_block]
             \/ Extended[this_block] <= block_start[c]
    <2>1. CASE block_end[this_block] = inst_address + 1  BY <1>1, <1>3, <2>1
    <2>2. CASE block_end[this_block] # inst_address + 1
        <3>1. pc = "scan" /\ block_end[this_block] = inst_address
            BY <1>1, <2>2 DEF AtScan
        <3>2. block_start[c] # inst_address
            BY <1>3, <3>1 DEF AtOtherHead, BlocksAtHead
        <3> QED  BY <1>1, <1>3, <3>1, <3>2
    <2> QED  BY <2>1, <2>2
<1>4. ASSUME NEW c \in Blocks, c # b
      PROVE  Extended[b] <= block_start[c] \/ Extended[c] <= block_start[b]
    <2>1. block_end[b] <= block_start[c] \/ block_end[c] <= block_start[b]
        BY <1>2, <1>4 DEF ApartFrom
    <2>2. CASE b = this_block  BY <1>1, <1>3, <1>4, <2>1, <2>2
    <2>3. CASE c = this_block  BY <1>1, <1>3, <1>4, <2>1, <2>3
    <2>4. CASE b # this_block /\ c # this_block  BY <1>1, <2>1, <2>4
    <2> QED  BY <2>2, <2>3, <2>4
<1> QED  BY <1>4 DEF ApartFrom

\* A branch keeps queued blocks apart from the others, the new one included.
LEMMA BranchFresh ==
    ASSUME BranchPoint, NEW target \in Addr, Branched(target),
           \A b \in Blocks : InStack(b) => ApartFrom(Extended, b)
    PROVE  \A b \in Blocks' : InStack(b)' => ApartFrom(block_end, b)'
<1>1. /\ \A b \in Blocks : /\ block_start[b] \in Int /\ Extended[b] \in Int
                           /\ block_start[b] < Extended[b]
      /\ \A b \in Blocks : b # this_block => Extended[b] = block_end[b]
      /\ target \in Int /\ block_stack \in Seq(Blocks)
    BY BranchPointFacts, EntryAssumption DEF Addr
<1>2. /\ \A k \in 1 .. Len(block_stack) :
            /\ block_stack[k] \in Blocks /\ block_stack[k] # this_block
            /\ block_end[block_stack[k]] = block_start[block_stack[k]] + 1
    BY BranchPointFacts
<1> HIDE DEF Extended, Blocks
<1>3. ASSUME NEW b \in Blocks, InStack(b)
      PROVE  /\ Extended[b] = block_start[b] + 1
             /\ \A c \in Blocks : c # b => \/ Extended[b] <= block_start[c]
                                           \/ Extended[c] <= block_start[b]
    BY <1>1, <1>2, <1>3 DEF InStack, ApartFrom
<1>4. CASE Linked(target)
    <2>1. Blocks' = Blocks  BY <1>4 DEF Linked, Blocks
    <2>2. /\ block_end' = Extended /\ block_start' = block_start
          /\ block_stack' = block_stack
        BY <1>4 DEF Linked, Same
    <2> QED  BY <1>3, <2>1, <2>2 DEF InStack, ApartFrom
<1>5. CASE \E o \in Blocks : Split(target, o)
    <2>1. PICK o \in Blocks : Split(target, o)  BY <1>5
    <2> DEFINE n == gr.size
    <2>2. /\ Blocks' = Blocks \cup {n} /\ n \notin Blocks
          /\ \A b \in Blocks : block_start'[b] = block_start[b]
          /\ block_start'[n] = target /\ block_end'[n] = Extended[o]
          /\ \A b \in Blocks \ {o} : block_end'[b] = Extended[b]
          /\ block_end'[o] = IF o = this_block THEN Extended[o] ELSE target
          /\ block_start[o] < target /\ target < Extended[o]
        BY <2>1, SplitEndsAt
    <2>3. block_stack' = block_stack  BY <2>1 DEF Split
    <2> HIDE DEF n
    <2>4. ASSUME NEW b \in Blocks', InStack(b)'
          PROVE  ApartFrom(block_end, b)'
        <3>1. b \in Blocks /\ InStack(b)  BY <1>2, <2>3, <2>4 DEF InStack
        <3>2. b # o  BY <1>1, <1>3, <2>2, <3>1
        <3>3. block_end'[b] = Extended[b] /\ block_start'[b] = block_start[b]
            BY <2>2, <3>1, <3>2
        <3>4. block_end'[o] <= Extended[o] /\ block_end'[o] \in Int
            BY <1>1, <2>2
        <3>5. Extended[b] <= block_start[o] \/ Extended[o] <= block_start[b]
            BY <1>3, <3>1, <3>2
        <3>6. ASSUME NEW c \in Blocks', c # b
              PROVE  \/ block_end'[b] <= block_start'[c]
                     \/ block_end'[c] <= block_start'[b]
            <4>1. CASE c = n  BY <1>1, <2>2, <3>1, <3>3, <3>5, <4>1
            <4>2. CASE c = o  BY <1>1, <2>2, <3>1, <3>3, <3>4, <3>5, <4>2
            <4>3. CASE c \in Blocks \ {o}
                BY <1>3, <2>2, <3>1, <3>3, <3>6, <4>3
            <4> QED  BY <2>2, <4>1, <4>2, <4>3
        <3> QED  BY <3>6 DEF ApartFrom
    <2> QED  BY <2>4
<1>6. CASE Added(target)
    <2> DEFINE n == gr.size
    <2>1. /\ Blocks' = Blocks \cup {n} /\ n \notin Blocks
          /\ \A b \in Blocks : /\ block_start'[b] = block_start[b]
                               /\ block_end'[b] = Extended[b]
          /\ block_start'[n] = target /\ block_end'[n] = target + 1
          /\ \A b \in Blocks : block_start[b] # target
          /\ \A b \in Blocks : ~(block_start[b] < target
                                 /\ target < Extended[b])
        BY <1>6, AddedAt
    <2>2. block_stack' = Append(block_stack, n)  BY <1>6 DEF Added
    <2> HIDE DEF n
    <2>3. \A b \in Blocks : block_end'[b] <= block_start'[n]
                            \/ block_end'[n] <= block_start'[b]
        BY <1>1, <2>1
    <2>4. ASSUME NEW b \in Blocks, InStack(b)'
          PROVE  InStack(b)
        <3>1. block_stack \in Seq(Blocks \cup {n}) /\ n \in Blocks \cup {n}
            BY <1>1, SeqMonotonic
        <3>2. /\ Len(block_stack') = Len(block_stack) + 1
              /\ Len(block_stack) \in Nat
              /\ \A k \in 1 .. Len(block_stack) : block_stack'[k] = block_stack[k]
              /\ block_stack'[Len(block_stack) + 1] = n
            BY <2>2, <3>1, AppendProperties
        <3>3. PICK k \in 1 .. Len(block_stack') : b = block_stack'[k]
            BY <2>4 DEF InStack
        <3>4. k # Len(block_stack) + 1  BY <2>1, <3>2, <3>3
        <3> QED  BY <3>2, <3>3, <3>4 DEF InStack
    <2>5. ASSUME NEW b \in Blocks', InStack(b)', NEW c \in Blocks', c # b
          PROVE  \/ block_end'[b] <= block_start'[c]
                 \/ block_end'[c] <= block_start'[b]
        <3>1. CASE b = n \/ c = n  BY <2>1, <2>3, <2>5, <3>1
        <3>2. CASE b \in Blocks /\ c \in Blocks
            BY <1>3, <2>1, <2>4, <2>5, <3>2
        <3> QED  BY <2>1, <3>1, <3>2
    <2> QED  BY <2>5 DEF ApartFrom
<1> QED  BY <1>4, <1>5, <1>6 DEF Branched
\* Every step keeps the blocks that are queued or being scanned apart.
LEMMA NextFresh ==
    ASSUME IInv, FreshApart, [Next]_vars
    PROVE  FreshApart'
<1>1. CASE /\ UNCHANGED <<block_start, block_end, block_stack>>
           /\ Blocks' = Blocks
           /\ pc' = "scan" => pc = "scan" /\ this_block' = this_block
    BY <1>1 DEF FreshApart, ApartFrom, InStack
<1>2. CASE PopBlock
    <2>1. /\ block_stack # <<>> /\ this_block' = block_stack[Len(block_stack)]
          /\ UNCHANGED <<block_start, block_end, gr>>
        BY <1>2 DEF PopBlock
    <2>2. Len(block_stack) \in 1 .. Len(block_stack)  BY <2>1, StackTop
    <2>3. /\ Len(block_stack) \in Nat \ {0}
          /\ Len(block_stack') = Len(block_stack) - 1
          /\ \A k \in 1 .. Len(block_stack) - 1 :
                block_stack'[k] = block_stack[k]
        BY <1>2, StackPopped
    <2>4. \A b : InStack(b)' \/ b = this_block' => InStack(b)
        BY <2>1, <2>2, <2>3 DEF InStack
    <2>5. Blocks' = Blocks  BY <2>1 DEF Blocks
    <2> QED  BY <2>1, <2>4, <2>5 DEF FreshApart, ApartFrom
<1>3. CASE FallThroughKnown
    <2>1. block_end' = block_end /\ Blocks' = Blocks
        BY <1>3, FallThroughEnds
    <2>2. UNCHANGED <<block_start, block_stack>> /\ pc' = "pop"
        BY <1>3 DEF FallThroughKnown
    <2> QED  BY <1>1, <2>1, <2>2
<1>4. CASE StepOver \/ EndReturn
    <2>1. /\ pc = "scan" /\ ~AtOtherHead /\ block_end' = Extended
          /\ UNCHANGED <<gr, block_start, block_stack, this_block>>
        BY <1>4 DEF StepOver, EndReturn, Reading
    <2>2. BranchPoint /\ AtScan  BY <2>1, BranchPointHolds DEF IInv
    <2>3. \A b \in Blocks : InStack(b) \/ b = this_block => ApartFrom(Extended, b)
        BY <2>1, <2>2, ExtendedFresh
    <2>4. Blocks' = Blocks  BY <2>1 DEF Blocks
    <2> HIDE DEF Extended
    <2> QED  BY <2>1, <2>3, <2>4 DEF FreshApart, ApartFrom, InStack
<1>5. ASSUME pc \in {"scan", "bcFalse"}, pc = "scan" => ~AtOtherHead,
             pc' # "scan", NEW target \in Addr, Branched(target)
      PROVE  FreshApart'
    <2>1. BranchPoint /\ AtScan  BY <1>5, BranchPointHolds DEF IInv
    <2>2. \A b \in Blocks : InStack(b) => ApartFrom(Extended, b)
        BY <1>5, <2>1, ExtendedFresh
    <2>3. \A b \in Blocks' : InStack(b)' => ApartFrom(block_end, b)'
        BY <1>5, <2>1, <2>2, BranchFresh
    <2> QED  BY <1>5, <2>3 DEF FreshApart
<1>6. CASE TakeBranch \/ BranchTrue
    <2>1. pc = "scan" /\ ~AtOtherHead /\ pc' # "scan"
        BY <1>6 DEF TakeBranch, BranchTrue, Reading
    <2> QED  BY <1>5, <1>6, <2>1, BranchEffects
<1>7. CASE BranchFalse
    <2>1. pc = "bcFalse" /\ pc' # "scan"  BY <1>7 DEF BranchFalse
    <2> QED  BY <1>5, <1>7, <2>1, BranchEffects
<1>8. CASE EndScan  BY <1>1, <1>8 DEF EndScan, Blocks
<1>9. CASE FinishBlock
    <2>1. Blocks' = Blocks  BY <1>9, FinishBlockSize DEF Blocks
    <2> QED  BY <1>1, <1>9, <2>1 DEF FinishBlock
<1>10. CASE Finish  BY <1>1, <1>10 DEF Finish, Blocks
<1>11. CASE UNCHANGED vars  BY <1>1, <1>11 DEF vars, Blocks
<1> QED
    BY <1>2, <1>3, <1>4, <1>6, <1>7, <1>8, <1>9, <1>10, <1>11
    DEF Next, Scan, Terminating

-----------------------------------------------------------------------------
(* The calls *)

CallAt(a) == code[a].lk /\ code[a].op = "kB"

\* The scan has been over a word once a block holds it, unless the word is
\* queued or is the first of a block just popped.
Scanned(a) ==
    /\ Holds(block_end, a) /\ ~Queued(a)
    /\ ~(pc = "scan" /\ a = inst_address /\ a = block_start[this_block])

CallsScanned(t) ==
    {a \in Addr : Scanned(a) /\ CallAt(a) /\ code[a].target = t}

\* Every call scanned is recorded, once.
CallInv == \A t \in Addr : Count(direct_calls, t) = Cardinality(CallsScanned(t))

\* At first nothing is scanned.
LEMMA InitCalls == Init => CallInv
<1> SUFFICES ASSUME Init PROVE CallInv  OBVIOUS
<1>1. IsGraph(EmplaceVertex(NewGraph))
      /\ EmplaceVertex(NewGraph).size = FirstReal + 1
    BY NewGraphType, EmplaceVertexType
<1>2. gr.size = FirstReal + 1  BY <1>1 DEF Init, EmplaceLink
<1>3. Blocks = {FirstReal}  BY <1>2 DEF Blocks, FirstReal
<1>4. ASSUME NEW a \in Addr
      PROVE  ~Scanned(a)
    <2>1. a \in Int /\ Entry \in Int  BY EntryAssumption DEF Addr
    <2>2. 1 \in 1 .. Len(block_stack) /\ block_stack[1] = FirstReal
        BY DEF Init
    <2>3. Holds(block_end, a) => a = Entry  BY <1>3, <2>1 DEF Holds, Init
    <2>4. Queued(Entry)  BY <2>2 DEF Queued, Init
    <2> QED  BY <2>3, <2>4 DEF Scanned
<1>5. \A t : CallsScanned(t) = {}  BY <1>4 DEF CallsScanned
<1>6. \A t : Count(direct_calls, t) = 0  BY CountNone DEF Init
<1> QED  BY <1>5, <1>6, FS_EmptySet DEF CallInv

\* A step that scans no call.
LEMMA NoCallScanned ==
    ASSUME CallInv, UNCHANGED <<code, direct_calls>>,
           \A a \in Addr : CallAt(a) => (Scanned(a)' <=> Scanned(a))
    PROVE  CallInv'
<1>1. \A t : CallsScanned(t)' = CallsScanned(t)
    BY DEF CallsScanned, CallAt
<1> QED  BY <1>1 DEF CallInv

\* The word at inst_address is scanned for the first time.
LEMMA ScannedFirst ==
    ASSUME IInv, FreshApart, Reading
    PROVE  ~Scanned(inst_address) /\ ~Queued(inst_address)
<1>1. BranchPoint /\ AtScan /\ pc = "scan" /\ ~AtOtherHead
    BY BranchPointHolds DEF IInv, Reading
<1>2. /\ this_block \in Blocks /\ inst_address \in Int
      /\ \A c \in Blocks : block_start[c] \in Int /\ block_end[c] \in Int
      /\ block_start[this_block] <= inst_address
      /\ \A k \in 1 .. Len(block_stack) :
            block_stack[k] \in Blocks /\ block_stack[k] # this_block
    <2>1. block_start[this_block] <= inst_address  BY <1>1 DEF BranchPoint
    <2>2. BranchPoint  BY <1>1
    <2>3. /\ N \in Nat /\ this_block \in Blocks /\ inst_address \in 0 .. N - 1
          /\ block_start \in [Blocks -> 0 .. N - 1]
          /\ block_end \in [Blocks -> 0 .. N]
        BY ONLY <2>2, BranchPointFacts
    <2>4. \A k \in 1 .. Len(block_stack) :
                block_stack[k] \in Blocks /\ block_stack[k] # this_block
        BY ONLY <2>2, BranchPointFacts
    <2> HIDE DEF Blocks
    <2>5. \A c \in Blocks : block_start[c] \in Int /\ block_end[c] \in Int
        BY ONLY <2>3
    <2> QED  BY ONLY <2>1, <2>3, <2>4, <2>5
<1>3. \A c \in Blocks : c # this_block => block_start[c] # inst_address
    BY <1>1 DEF AtOtherHead, BlocksAtHead
<1>4. ~Queued(inst_address)  BY <1>2, <1>3 DEF Queued
<1>5. ASSUME inst_address # block_start[this_block]
      PROVE  ~Holds(block_end, inst_address)
    <2>1. block_end[this_block] = inst_address  BY <1>1, <1>5 DEF AtScan
    <2>2. \A c \in Blocks : c = this_block
                \/ block_end[this_block] <= block_start[c]
                \/ block_end[c] <= block_start[this_block]
        BY <1>1, <1>2 DEF FreshApart, ApartFrom
    <2>3. ASSUME NEW c \in Blocks,
                 block_start[c] <= inst_address, inst_address < block_end[c]
          PROVE  FALSE
        <3>1. c # this_block  BY <1>2, <2>1, <2>3
        <3>2. block_start[c] # inst_address  BY <1>3, <3>1
        <3> QED  BY <1>2, <2>1, <2>2, <2>3, <3>1, <3>2
    <2> QED  BY <2>3 DEF Holds
<1> QED  BY <1>1, <1>4, <1>5 DEF Scanned

\* Scanning a word that ends no block, or a return.
LEMMA ExtendedScans ==
    ASSUME IInv, FreshApart, StepOver \/ EndReturn
    PROVE  \A a \in Addr :
                Scanned(a)' <=> Scanned(a) \/ (a = inst_address /\ Scanned(a)')
<1> SUFFICES ASSUME NEW a \in Addr, a # inst_address
             PROVE  Scanned(a)' <=> Scanned(a)
    <2>1. Reading  BY DEF StepOver, EndReturn
    <2> QED  BY <2>1, ScannedFirst
<1>1. /\ Reading /\ pc = "scan" /\ block_end' = Extended
      /\ UNCHANGED <<gr, block_start, block_stack, this_block>>
      /\ \/ pc' = "scan" /\ inst_address' = inst_address + 1
         \/ pc' = "pop"
    BY DEF StepOver, EndReturn, Reading
<1>2. BranchPoint /\ AtScan  BY <1>1, BranchPointHolds DEF IInv
<1>3. a \in Int  BY EntryAssumption DEF Addr
<1>4. Holds(Extended, a) <=> Holds(block_end, a)
    BY <1>2, <1>3, ExtendedHolds
<1>5. Holds(block_end, a)' <=> Holds(Extended, a)
    <2> HIDE DEF Extended
    <2> QED  BY <1>1 DEF Holds, Blocks
<1>6. Queued(a)' <=> Queued(a)  BY <1>1 DEF Queued
<1>7. /\ block_start[this_block] <= inst_address
      /\ block_start[this_block] \in Int /\ inst_address \in Int
    BY <1>2, BranchPointFacts DEF BranchPoint
<1>8. ~(pc' = "scan" /\ a = inst_address' /\ a = block_start'[this_block'])
    BY <1>1, <1>7
<1> QED  BY <1>4, <1>5, <1>6, <1>8 DEF Scanned

\* A call is recorded when the scan steps over it.
LEMMA StepOverCalls == ASSUME IInv, FreshApart, CallInv, StepOver PROVE CallInv'
<1>1. /\ Reading /\ ~EndsBlock(inst) /\ UNCHANGED code
      /\ inst_address' = inst_address + 1 /\ block_end' = Extended
      /\ UNCHANGED <<gr, block_start, block_stack, this_block>>
      /\ direct_calls' = IF inst.lk /\ inst.op = "kB"
                         THEN Append(direct_calls, inst.target)
                         ELSE direct_calls
    BY DEF StepOver
<1>2. /\ inst_address \in Addr /\ direct_calls \in Seq(Addr)
      /\ inst.target \in Addr /\ TypeOK
    BY InstType DEF IInv, TypeOK
<1>3. PICK x \in Addr : x = inst_address  BY <1>2
<1>4. /\ \A a \in Addr : a # x => (Scanned(a)' <=> Scanned(a))
      /\ ~Scanned(x) /\ ~Queued(x)
    BY <1>1, <1>3, ExtendedScans, ScannedFirst
<1>5. CASE ~CallAt(x)
    <2>1. direct_calls' = direct_calls  BY <1>1, <1>3, <1>5 DEF CallAt, inst
    <2>2. \A a \in Addr : CallAt(a) => a # x  BY <1>5
    <2> QED  BY <1>1, <1>4, <2>1, <2>2, NoCallScanned
<1>6. CASE CallAt(x)
    <2>1. Scanned(x)'
        <3>1. BranchPoint /\ AtScan
            BY <1>1, BranchPointHolds DEF IInv, Reading
        <3>2. x \in Int  BY EntryAssumption DEF Addr
        <3>3. Holds(Extended, x)  BY <1>3, <3>1, <3>2, ExtendedHolds
        <3>4. Holds(block_end, x)'
            <4> HIDE DEF Extended
            <4> QED  BY <1>1, <3>3 DEF Holds, Blocks
        <3>5. ~Queued(x)'  BY <1>1, <1>4 DEF Queued
        <3>6. x # inst_address'  BY <1>1, <1>3, <3>2
        <3> QED  BY <3>4, <3>5, <3>6 DEF Scanned
    <2>2. direct_calls' = Append(direct_calls, inst.target)
        BY <1>1, <1>3, <1>6 DEF CallAt, inst
    <2>3. \A t \in Addr : CallsScanned(t)' =
            IF inst.target = t THEN CallsScanned(t) \cup {x} ELSE CallsScanned(t)
        BY <1>1, <1>3, <1>4, <1>6, <2>1 DEF CallsScanned, CallAt, inst
    <2>4. \A t : x \notin CallsScanned(t)  BY <1>4 DEF CallsScanned
    <2>5. ASSUME NEW t \in Addr
          PROVE  Count(direct_calls', t) = Cardinality(CallsScanned(t)')
        <3>1. IsFiniteSet(CallsScanned(t))
            <4>1. IsFiniteSet(Addr)  BY EntryAssumption, FS_Interval DEF Addr
            <4>2. CallsScanned(t) \in SUBSET Addr  BY DEF CallsScanned
            <4> QED  BY <4>1, <4>2, FS_Subset
        <3>2. Cardinality(CallsScanned(t) \cup {x}) = Cardinality(CallsScanned(t)) + 1
              /\ Cardinality(CallsScanned(t)) \in Nat
            BY <2>4, <3>1, FS_AddElement, FS_CardinalityType
        <3>3. Count(direct_calls', t) =
                Count(direct_calls, t) + (IF inst.target = t THEN 1 ELSE 0)
            BY <1>2, <2>2, CountAppend
        <3>4. Count(direct_calls, t) = Cardinality(CallsScanned(t))
            BY DEF CallInv
        <3>5. CASE inst.target = t
            <4>1. CallsScanned(t)' = CallsScanned(t) \cup {x}
                BY <2>3, <3>5, Zenon
            <4> QED  BY <3>2, <3>3, <3>4, <3>5, <4>1
        <3>6. CASE inst.target # t
            <4>1. CallsScanned(t)' = CallsScanned(t)  BY <2>3, <3>6, Zenon
            <4> QED  BY <3>2, <3>3, <3>4, <3>6, <4>1
        <3> QED  BY <3>5, <3>6
    <2> QED  BY <2>5 DEF CallInv
<1> QED  BY <1>5, <1>6

\* A branch queues no word but the one it leads to, and that one only if no
\* block holds it.
LEMMA BranchQueuesOne ==
    ASSUME BranchPoint, NEW target \in Addr, Branched(target), NEW a, Queued(a)'
    PROVE  Queued(a) \/ (a = target /\ ~Holds(Extended, target))
<1>1. /\ block_stack \in Seq(Blocks)
      /\ \A k \in 1 .. Len(block_stack) : block_stack[k] \in Blocks
      /\ \A b \in Blocks : /\ block_start[b] \in Int /\ Extended[b] \in Int
                           /\ block_start[b] < Extended[b]
      /\ target \in Int
    BY BranchPointFacts, EntryAssumption DEF Addr
<1> HIDE DEF Extended, Blocks
<1>2. CASE Linked(target)  BY <1>2 DEF Linked, Same, Queued
<1>3. CASE \E o \in Blocks : Split(target, o)
    <2>1. PICK o \in Blocks : Split(target, o)  BY <1>3
    <2>2. \A b \in Blocks : block_start'[b] = block_start[b]
        BY <2>1, SplitEndsAt
    <2>3. block_stack' = block_stack  BY <2>1 DEF Split
    <2> QED  BY <1>1, <2>2, <2>3 DEF Queued
<1>4. CASE Added(target)
    <2> DEFINE n == gr.size
    <2>1. /\ \A b \in Blocks : block_start'[b] = block_start[b]
          /\ block_start'[n] = target
          /\ \A b \in Blocks : block_start[b] # target
          /\ \A b \in Blocks : ~(block_start[b] < target
                                 /\ target < Extended[b])
        BY <1>4, AddedAt
    <2>2. block_stack' = Append(block_stack, n)  BY <1>4 DEF Added
    <2> HIDE DEF n
    <2>3. block_stack \in Seq(Blocks \cup {n}) /\ n \in Blocks \cup {n}
        BY <1>1, SeqMonotonic
    <2>4. /\ Len(block_stack') = Len(block_stack) + 1
          /\ Len(block_stack) \in Nat
          /\ \A k \in 1 .. Len(block_stack) : block_stack'[k] = block_stack[k]
          /\ block_stack'[Len(block_stack) + 1] = n
        BY <2>2, <2>3, AppendProperties
    <2>5. ~Holds(Extended, target)
        <3>1. ASSUME NEW b \in Blocks, block_start[b] <= target,
                     target < Extended[b]
              PROVE  FALSE
            BY <1>1, <2>1, <3>1
        <3> QED  BY <3>1 DEF Holds
    <2>6. PICK k \in 1 .. Len(block_stack') : a = block_start'[block_stack'[k]]
        BY DEF Queued
    <2>7. CASE k = Len(block_stack) + 1  BY <2>1, <2>4, <2>5, <2>6, <2>7
    <2>8. CASE k # Len(block_stack) + 1
        <3>1. k \in 1 .. Len(block_stack)  BY <2>4, <2>8
        <3> QED  BY <1>1, <2>1, <2>4, <2>6, <3>1 DEF Queued
    <2> QED  BY <2>7, <2>8
<1> QED  BY <1>2, <1>3, <1>4 DEF Branched

\* A branch is no call, and what it leads to is queued or was there before.
LEMMA BranchCalls ==
    ASSUME IInv, CallInv, pc \in {"scan", "bcFalse"}, pc' # "scan",
           EndsBlock(inst), UNCHANGED <<code, direct_calls>>,
           NEW target \in Addr, Branched(target)
    PROVE  CallInv'
<1>1. BranchPoint /\ AtScan  BY BranchPointHolds DEF IInv
<1>2. ~CallAt(inst_address)  BY DEF EndsBlock, CallAt, inst
<1>3. ASSUME NEW a \in Addr, CallAt(a)
      PROVE  Scanned(a)' <=> Scanned(a)
    <2>1. a # inst_address  BY <1>2, <1>3
    <2>2. a \in Int  BY EntryAssumption DEF Addr
    <2>3. Holds(Extended, a) <=> Holds(block_end, a)
        BY <1>1, <2>1, <2>2, ExtendedHolds
    <2>4. Holds(block_end, a)' <=> Holds(Extended, a) \/ a = target
        BY <1>1, <2>2, BranchHolds
    <2>5. /\ Queued(a) => Queued(a)'
          /\ Queued(target)' \/ Holds(Extended, target)
        BY <1>1, BranchQueues
    <2>6. Queued(a)' => Queued(a) \/ (a = target /\ ~Holds(Extended, target))
        BY <1>1, BranchQueuesOne
    <2> HIDE DEF Extended
    <2> QED  BY <2>1, <2>3, <2>4, <2>5, <2>6 DEF Scanned
<1> QED  BY <1>3, NoCallScanned

\* Every step keeps the calls scanned recorded.
LEMMA NextCalls ==
    ASSUME IInv, FreshApart, CallInv, [Next]_vars
    PROVE  CallInv'
<1>1. CASE PopBlock
    <2> DEFINE n == Len(block_stack)
               b == block_stack[n]
    <2>1. /\ pc = "pop" /\ block_stack # <<>>
          /\ this_block' = b /\ inst_address' = block_start[b] /\ pc' = "scan"
          /\ UNCHANGED <<code, gr, block_start, block_end, direct_calls>>
        BY <1>1 DEF PopBlock
    <2>2. /\ n \in Nat \ {0} /\ Len(block_stack') = n - 1
          /\ \A k \in 1 .. n - 1 : block_stack'[k] = block_stack[k]
        BY <1>1, StackPopped
    <2> HIDE DEF n, b
    <2>3. ASSUME NEW a
          PROVE  Queued(a) <=> Queued(a)' \/ a = block_start[b]
        <3>1. ASSUME Queued(a)
              PROVE  Queued(a)' \/ a = block_start[b]
            <4>1. PICK k \in 1 .. n : a = block_start[block_stack[k]]
                BY <3>1 DEF Queued, n
            <4>2. CASE k = n  BY <4>1, <4>2 DEF b
            <4>3. CASE k # n
                <5>1. k \in 1 .. n - 1 /\ k \in 1 .. Len(block_stack')
                    BY <2>2, <4>1, <4>3
                <5> QED  BY <2>1, <2>2, <4>1, <5>1 DEF Queued
            <4> QED  BY <4>2, <4>3
        <3>2. ASSUME Queued(a)'
              PROVE  Queued(a)
            BY <2>1, <2>2, <3>2 DEF Queued, n
        <3>3. n \in 1 .. n  BY <2>2
        <3>4. Queued(block_start[b])  BY <3>3 DEF Queued, n, b
        <3> QED  BY <3>1, <3>2, <3>4
    <2>4. \A a : Holds(block_end, a)' <=> Holds(block_end, a)
        BY <2>1 DEF Holds, Blocks
    <2>5. \A a : Scanned(a)' <=> Scanned(a)
        BY <2>1, <2>3, <2>4 DEF Scanned
    <2> QED  BY <2>1, <2>5, NoCallScanned
<1>2. CASE FallThroughKnown
    <2>1. /\ block_end' = block_end /\ Blocks' = Blocks
          /\ inst_address # block_start[this_block]
        BY <1>2, FallThroughEnds
    <2>2. /\ pc' = "pop"
          /\ UNCHANGED <<code, direct_calls, block_start, block_stack>>
        BY <1>2 DEF FallThroughKnown
    <2>3. \A a : Scanned(a)' <=> Scanned(a)
        BY <2>1, <2>2 DEF Scanned, Holds, Queued
    <2> QED  BY <2>2, <2>3, NoCallScanned
<1>3. CASE EndReturn
    <2>1. /\ Reading /\ EndsBlock(inst) /\ UNCHANGED <<code, direct_calls>>
        BY <1>3 DEF EndReturn
    <2>2. ~CallAt(inst_address)  BY <2>1 DEF EndsBlock, CallAt, inst
    <2>3. \A a \in Addr : CallAt(a) => (Scanned(a)' <=> Scanned(a))
        BY <1>3, <2>2, ExtendedScans
    <2> QED  BY <2>1, <2>3, NoCallScanned
<1>4. CASE TakeBranch \/ BranchTrue
    <2>1. /\ pc = "scan" /\ EndsBlock(inst) /\ pc' # "scan"
          /\ UNCHANGED <<code, direct_calls>>
        BY <1>4 DEF TakeBranch, BranchTrue, Reading
    <2> QED  BY <1>4, <2>1, BranchEffects, BranchCalls
<1>5. CASE BranchFalse
    <2>1. /\ pc = "bcFalse" /\ pc' # "scan" /\ UNCHANGED <<code, direct_calls>>
        BY <1>5 DEF BranchFalse
    <2>2. EndsBlock(inst)  BY <2>1 DEF IInv, AtScan
    <2> QED  BY <1>5, <2>1, <2>2, BranchEffects, BranchCalls
<1>6. CASE /\ UNCHANGED <<code, direct_calls, block_start, block_end,
                          block_stack>>
           /\ Blocks' = Blocks
           /\ \/ pc # "scan" /\ pc' # "scan"
              \/ UNCHANGED <<pc, inst_address, this_block>>
    <2>1. \A a : Scanned(a)' <=> Scanned(a)
        BY <1>6 DEF Scanned, Holds, Queued
    <2> QED  BY <1>6, <2>1, NoCallScanned
<1>7. CASE EndScan  BY <1>6, <1>7 DEF EndScan, Blocks
<1>8. CASE FinishBlock
    <2>1. Blocks' = Blocks  BY <1>8, FinishBlockSize DEF Blocks
    <2> QED  BY <1>6, <1>8, <2>1 DEF FinishBlock
<1>9. CASE Finish  BY <1>6, <1>9 DEF Finish, Blocks
<1>10. CASE UNCHANGED vars  BY <1>6, <1>10 DEF vars, Blocks
<1> QED
    BY <1>1, <1>2, <1>3, <1>4, <1>5, <1>7, <1>8, <1>9, <1>10, StepOverCalls
    DEF Next, Scan, Terminating

\* When nothing is queued any more, every word of a block has been scanned.
LEMMA CallsAtTheEnd ==
    ASSUME IInv, CallInv
    PROVE  CallsRecordedOnce
<1> SUFFICES ASSUME pc = "done", NEW t \in Addr
             PROVE  Count(direct_calls, t) = Cardinality(CallsOf(t))
    BY DEF CallsRecordedOnce
<1>1. TypeOK /\ block_stack = <<>>  BY DEF IInv, StackDone
<1>2. \A a : Scanned(a) <=> Holds(block_end, a)
    BY <1>1 DEF Scanned, Queued
<1>3. Covered \subseteq Int
      /\ \A a \in Int : a \in Covered <=> Holds(block_end, a)
    BY <1>1, CoveredIsHolds
<1>4. Addr \subseteq Int  BY EntryAssumption DEF Addr
<1>5. \A a \in Covered : a \in Addr  BY <1>1, <1>3, HeldIsAddr
<1>6. CallsOf(t) = CallsScanned(t)
    BY <1>2, <1>3, <1>4, <1>5 DEF CallsOf, CallsScanned, CallAt
<1> QED  BY <1>6 DEF CallInv

-----------------------------------------------------------------------------

\* The graph every later pass starts from is sound, whatever the routine and
\* however often its blocks are split: the two copies of every edge agree, the
\* root leads to the block at the entry and on to every other block, and
\* _direct_calls holds every call of the routine once.
THEOREM GraphAlwaysSound == Spec => []GraphSound
<1>1. Init => GraphInv /\ FreshApart /\ CallInv
    BY InitGraph, InitFresh, InitCalls
<1>2. IInv /\ GraphInv /\ [Next]_vars => GraphInv'  BY NextGraph
<1>3. IInv /\ FreshApart /\ [Next]_vars => FreshApart'  BY NextFresh
<1>4. IInv /\ FreshApart /\ CallInv /\ [Next]_vars => CallInv'  BY NextCalls
<1>5. IInv /\ GraphInv /\ CallInv => GraphSound
    BY ReachableIsRooted, CallsAtTheEnd DEF IInv, GraphInv, GraphSound
<1> QED
    BY <1>1, <1>2, <1>3, <1>4, <1>5, InductiveInvariant, PTL DEF Spec

-----------------------------------------------------------------------------
(* The edges of a block and its last instruction *)

HeadOf(c, a) == c \in Blocks /\ block_start[c] = a

\* s is the _out list of the block b whose last word is `last`; the closing
\* foreach_real links the blocks that return, and has come to `fill`.
Exits(b, last, s) ==
    LET i == code[last]
    IN  /\ ~EndsBlock(i) =>
            \E c : HeadOf(c, last + 1) /\ s = <<Edge(c, "kFallthrough")>>
        /\ EndsBlock(i) /\ i.op = "kB" =>
            \E c : HeadOf(c, i.target) /\ s = <<Edge(c, "kUnconditional")>>
        /\ EndsBlock(i) /\ i.op = "kBc" =>
            \E c, d : /\ HeadOf(c, i.target) /\ HeadOf(d, last + 1)
                      /\ s = <<Edge(c, "kConditionTrue"),
                               Edge(d, "kConditionFalse")>>
        /\ EndsBlock(i) /\ i.op = "kReturn" =>
            s = IF b < fill THEN <<Edge(Terminal, "kUnconditional")>> ELSE <<>>

\* No word of b in front of `last` ends the block.
Straight(b, last) ==
    \A a \in Int : block_start[b] <= a /\ a < last => ~EndsBlock(code[a])

Flows(b) ==
    Straight(b, block_end[b] - 1) /\ Exits(b, block_end[b] - 1, gr.out[b])

Busy(b) == InStack(b) \/ (pc \in {"scan", "bcFalse"} /\ b = this_block)

\* Every block the scan is through with has the edges of its last instruction;
\* a block that is queued or being scanned has none yet, or the first of two.
FlowInv ==
    /\ \A b \in Blocks : InStack(b) => gr.out[b] = <<>>
    /\ pc = "scan" => gr.out[this_block] = <<>>
    /\ pc = "bcFalse" =>
            \E c : /\ HeadOf(c, inst.target)
                   /\ gr.out[this_block] = <<Edge(c, "kConditionTrue")>>
    /\ pc \in {"scan", "bcFalse"} => Straight(this_block, inst_address)
    /\ \A b \in Blocks : ~Busy(b) => Flows(b)
    /\ pc \notin {"finish", "done"} => fill = FirstReal
    /\ pc = "done" => fill = gr.size

\* A split of the block being scanned leaves a tail that is not scanned again.
FlowIInv == selfSplit \/ FlowInv

\* The edges of a block stay those of its last instruction while blocks are
\* added, d being the block or the one that takes them over.
LEMMA ExitsKept ==
    ASSUME NEW b, NEW d, NEW last, NEW s, Exits(b, last, s), code' = code,
           d < fill' <=> b < fill, Blocks \subseteq Blocks',
           \A c \in Blocks : block_start'[c] = block_start[c]
    PROVE  Exits(d, last, s)'
<1>1. \A c, a : HeadOf(c, a) => HeadOf(c, a)'  BY DEF HeadOf
<1> QED  BY <1>1 DEF Exits

\* So do those of a block that does not change.
LEMMA FlowsKept ==
    ASSUME NEW b \in Blocks, Flows(b), code' = code, b < fill' <=> b < fill,
           Blocks \subseteq Blocks',
           \A c \in Blocks : block_start'[c] = block_start[c],
           block_end'[b] = block_end[b], gr'.out[b] = gr.out[b]
    PROVE  Flows(b)'
<1>1. PICK last : last = block_end[b] - 1  OBVIOUS
<1>2. PICK s : s = gr.out[b]  OBVIOUS
<1>3. Exits(b, last, s)  BY <1>1, <1>2 DEF Flows
<1>4. Exits(b, last, s)'  BY <1>3, ExitsKept
<1>5. last = block_end'[b] - 1 /\ s = gr'.out[b]  BY <1>1, <1>2
<1>6. Straight(b, last)'  BY <1>1 DEF Flows, Straight
<1> QED  BY <1>4, <1>5, <1>6 DEF Flows, Exits, Straight

\* The three effects of handle_branch, with the _out lists.
OutLinked(target, tr) ==
    /\ Linked(target)
    /\ \E c \in Blocks :
        /\ block_start[c] = target
        /\ gr'.out[this_block] = Append(gr.out[this_block], Edge(c, tr))
    /\ \A b \in Blocks : b # this_block => gr'.out[b] = gr.out[b]

OutSplit(target, tr, o) ==
    /\ Split(target, o)
    /\ o # this_block =>
        /\ gr'.out[this_block] = Append(gr.out[this_block], Edge(gr.size, tr))
        /\ gr'.out[o] = <<Edge(gr.size, "kFallthrough")>>
        /\ gr'.out[gr.size] = gr.out[o]
        /\ \A b \in Blocks \ {o, this_block} : gr'.out[b] = gr.out[b]

OutAdded(target, tr) ==
    /\ Added(target)
    /\ gr'.out[this_block] = Append(gr.out[this_block], Edge(gr.size, tr))
    /\ gr'.out[gr.size] = <<>>
    /\ \A b \in Blocks : b # this_block => gr'.out[b] = gr.out[b]

\* handle_branch has one of them as long as the blocks do not overlap.
LEMMA BranchOut ==
    ASSUME BranchPoint, Mirrored(gr), Apart(Extended),
           NEW target \in Addr, NEW tr \in BlockTransfer,
           HandleBranch(Extended, this_block, target, tr)
    PROVE  \/ OutLinked(target, tr)
           \/ \E o \in Blocks : OutSplit(target, tr, o)
           \/ OutAdded(target, tr)
<1> DEFINE n == gr.size
<1>1. /\ IsGraph(gr) /\ this_block \in Blocks
      /\ Blocks \subseteq Vertices(gr) /\ Blocks \subseteq Nat
      /\ n \in Nat /\ TypeOK
    BY BlocksAreVertices DEF BranchPoint, TypeOK
<1>2. /\ target \in Int
      /\ \A b \in Blocks : /\ block_start[b] \in Int /\ Extended[b] \in Int
                           /\ block_start[b] < Extended[b]
    BY BranchPointFacts, EntryAssumption DEF Addr
<1>3. Branched(target)  BY <1>1, HandleBranchEffect
<1>4. n \notin Blocks  BY <1>1 DEF Blocks
<1>5. CASE LinkKnown(Extended, this_block, target, tr)
    <2> DEFINE b == Min(BlocksAtHead(target))
    <2>1. b \in Blocks /\ block_start[b] = target
        <3>1. BlocksAtHead(target) # {} /\ BlocksAtHead(target) \subseteq Nat
            BY <1>1, <1>5 DEF LinkKnown, BlocksAtHead
        <3>2. b \in BlocksAtHead(target)  BY <3>1, MinType
        <3> HIDE DEF b
        <3> QED  BY <3>2 DEF BlocksAtHead
    <2>2. gr' = EmplaceLink(gr, this_block, b, tr)
        BY <1>5 DEF LinkKnown
    <2> HIDE DEF b, n
    <2>3. /\ gr'.out[this_block] = Append(gr.out[this_block], Edge(b, tr))
          /\ \A w \in Blocks : w # this_block => gr'.out[w] = gr.out[w]
        <3>1. this_block \in Vertices(gr) /\ b \in Vertices(gr)
            BY <1>1, <2>1
        <3> QED  BY <1>1, <2>2, <3>1, EmplaceLinkLists
    <2>4. Linked(target)  BY <1>3, <2>1 DEF Branched, Split, Added
    <2> QED  BY <2>1, <2>3, <2>4 DEF OutLinked
<1>6. CASE SplitKnown(Extended, this_block, target, tr)
    <2> DEFINE o == Min(BlocksContaining(Extended, target))
               h == InsertAfter(gr, o, "kFallthrough")
               m == Moved(gr, o)
    <2>1. o \in Blocks /\ block_start[o] < target /\ target < Extended[o]
        <3> DEFINE C == BlocksContaining(Extended, target)
        <3>1. C # {} /\ C \subseteq Nat
            BY <1>1, <1>6 DEF SplitKnown, BlocksContaining
        <3> HIDE DEF C
        <3>2. Min(C) \in C  BY <3>1, MinType
        <3> HIDE DEF o
        <3>3. o \in C  BY <3>2 DEF C, o
        <3> QED  BY <3>3 DEF C, BlocksContaining
    <2>2. gr' = EmplaceLink(h, this_block, n, tr)  BY <1>6 DEF SplitKnown
    <2>3. ~(\E b \in Blocks : block_start[b] = target)
        BY <1>6 DEF SplitKnown, BlocksAtHead
    <2> HIDE DEF o
    <2>4. "kFallthrough" \in BlockTransfer  BY DEF BlockTransfer
    <2>5. Split(target, o)
        <3>1. ~Linked(target) /\ ~Added(target)
            BY <2>1, <2>3 DEF Linked, Added
        <3>2. PICK p \in Blocks : Split(target, p)
            BY <1>3, <3>1 DEF Branched
        <3>3. block_start[p] < target /\ target < Extended[p]
            BY <3>2 DEF Split
        <3>4. p = o
            <4> HIDE DEF Extended
            <4> QED  BY <1>2, <2>1, <3>3 DEF Apart
        <3> QED  BY <3>2, <3>4
    <2>6. ASSUME o # this_block
          PROVE  /\ gr'.out[this_block] =
                        Append(gr.out[this_block], Edge(n, tr))
                 /\ gr'.out[o] = <<Edge(n, "kFallthrough")>>
                 /\ gr'.out[n] = gr.out[o]
                 /\ \A b \in Blocks \ {o, this_block} : gr'.out[b] = gr.out[b]
        <3>1. /\ Vertices(m) = Vertices(gr) \cup {n} /\ n \notin Vertices(gr)
              /\ m.out[o] = <<>> /\ m.out[n] = gr.out[o]
              /\ \A v \in Vertices(gr) : v # o => m.out[v] = gr.out[v]
            BY <1>1, <2>1, MovedLists
        <3>2. IsGraph(m)  BY <1>1, <2>1, MovedType
        <3>3. h = EmplaceLink(m, o, n, "kFallthrough")  BY InsertAfterIs
        <3>4. IsGraph(h) /\ h.size = n + 1
            BY <1>1, <2>1, <2>4, InsertAfterType
        <3>5. o \in Vertices(m) /\ n \in Vertices(m)  BY <1>1, <2>1, <3>1
        <3> HIDE DEF m, h, n
        <3>6. /\ Vertices(h) = Vertices(m)
              /\ h.out[o] = Append(<<>>, Edge(n, "kFallthrough"))
              /\ \A v \in Vertices(m) : v # o => h.out[v] = m.out[v]
            BY <2>4, <3>1, <3>2, <3>3, <3>5, EmplaceLinkLists
        <3>7. /\ gr'.out[this_block] = Append(h.out[this_block], Edge(n, tr))
              /\ \A v \in Vertices(h) : v # this_block => gr'.out[v] = h.out[v]
            <4>1. this_block \in Vertices(h) /\ n \in Vertices(h)
                BY <1>1, <3>1, <3>5, <3>6
            <4> QED  BY <2>2, <3>4, <4>1, EmplaceLinkLists
        <3>8. h.out[o] = <<Edge(n, "kFallthrough")>>  BY <3>6
        <3> QED
            BY <1>1, <1>4, <2>1, <2>6, <3>1, <3>5, <3>6, <3>7, <3>8
    <2> QED  BY <2>1, <2>5, <2>6 DEF OutSplit
<1>7. CASE NewBlock(Extended, this_block, target, tr)
    <2> DEFINE h == EmplaceVertex(gr)
    <2>1. gr' = EmplaceLink(h, this_block, n, tr)  BY <1>7 DEF NewBlock
    <2>2. IsGraph(h)  BY <1>1, EmplaceVertexType
    <2>3. /\ Vertices(h) = Vertices(gr) \cup {n} /\ n \notin Vertices(gr)
          /\ \A v \in Vertices(gr) : h.out[v] = gr.out[v]
          /\ h.out[n] = <<>>
        BY <1>1, EmplaceVertexLists
    <2> HIDE DEF h
    <2>4. /\ gr'.out[this_block] = Append(h.out[this_block], Edge(n, tr))
          /\ \A v \in Vertices(h) : v # this_block => gr'.out[v] = h.out[v]
        <3>1. this_block \in Vertices(h) /\ n \in Vertices(h)
            BY <1>1, <2>3
        <3> QED  BY <2>1, <2>2, <3>1, EmplaceLinkLists
    <2>5. /\ \A b \in Blocks : block_start[b] # target
          /\ \A b \in Blocks : ~(block_start[b] < target
                                 /\ target < Extended[b])
        BY <1>7 DEF NewBlock, BlocksAtHead, BlocksContaining
    <2>6. Added(target)  BY <1>3, <2>5 DEF Branched, Linked, Split
    <2> QED  BY <1>1, <1>4, <2>3, <2>4, <2>6 DEF OutAdded
<1> QED  BY <1>5, <1>6, <1>7 DEF HandleBranch

\* After a branch that splits no block being scanned: the blocks the scan is
\* through with have their edges, those that are queued have none, and
\* this_block has one more.
LEMMA BranchFlows ==
    ASSUME IInv, GraphInv, ApartInv, FlowInv, ~selfSplit, ~selfSplit',
           pc \in {"scan", "bcFalse"}, pc = "scan" => ~AtOtherHead,
           UNCHANGED <<code, this_block, inst_address, fill>>,
           NEW target \in Addr, NEW tr \in BlockTransfer,
           HandleBranch(Extended, this_block, target, tr)
    PROVE  /\ Blocks \subseteq Blocks' /\ this_block \in Blocks
           /\ \A b \in Blocks : block_start'[b] = block_start[b]
           /\ block_end'[this_block] = inst_address + 1
           /\ \A b \in Blocks' : InStack(b)' => gr'.out[b] = <<>>
           /\ \A b \in Blocks' : b # this_block /\ ~InStack(b)' => Flows(b)'
           /\ \E c : /\ HeadOf(c, target)'
                     /\ gr'.out[this_block] =
                            Append(gr.out[this_block], Edge(c, tr))
<1>1. BranchPoint /\ AtScan  BY BranchPointHolds DEF IInv
<1>2. Apart(Extended)  BY <1>1, ExtendedApart DEF ApartInv
<1>3. /\ \A b \in Blocks : /\ block_start[b] \in Int /\ Extended[b] \in Int
                           /\ block_start[b] < Extended[b]
      /\ \A b \in Blocks : b # this_block => Extended[b] = block_end[b]
      /\ Extended[this_block] = inst_address + 1 /\ this_block \in Blocks
      /\ target \in Int /\ block_stack \in Seq(Blocks)
      /\ \A k \in 1 .. Len(block_stack) :
            /\ block_stack[k] \in Blocks /\ block_stack[k] # this_block
            /\ block_end[block_stack[k]] = block_start[block_stack[k]] + 1
    BY <1>1, BranchPointFacts, EntryAssumption DEF Addr
<1>4. /\ \A b \in Blocks : InStack(b) => gr.out[b] = <<>>
      /\ \A b \in Blocks : b # this_block /\ ~InStack(b) => Flows(b)
      /\ fill = FirstReal
    BY DEF FlowInv, Busy
<1>5. FirstReal \in Nat /\ \A b \in Blocks : ~(b < fill)
    BY <1>1, <1>4, BranchPointFacts
<1>6. \/ OutLinked(target, tr)
      \/ \E o \in Blocks : OutSplit(target, tr, o)
      \/ OutAdded(target, tr)
    BY <1>1, <1>2, BranchOut DEF GraphInv, GraphWellFormed
<1> HIDE DEF Extended, Blocks
<1>7. CASE OutLinked(target, tr)
    <2>1. /\ Linked(target)
          /\ \A b \in Blocks : b # this_block => gr'.out[b] = gr.out[b]
        BY <1>7 DEF OutLinked
    <2>2. Blocks' = Blocks  BY <2>1 DEF Linked, Blocks
    <2>3. /\ block_end' = Extended /\ block_start' = block_start
          /\ block_stack' = block_stack
        BY <2>1 DEF Linked, Same
    <2>4. \A b : InStack(b)' <=> InStack(b)  BY <2>3 DEF InStack
    <2>5. \A b \in Blocks : InStack(b)' => gr'.out[b] = <<>>
        <3>1. \A b : InStack(b) => b # this_block  BY <1>3 DEF InStack
        <3> QED  BY <1>4, <2>1, <2>4, <3>1
    <2>6. \A b \in Blocks : b # this_block /\ ~InStack(b)' => Flows(b)'
        BY <1>3, <1>4, <2>1, <2>2, <2>3, <2>4, FlowsKept
    <2>7. \E c : /\ HeadOf(c, target)'
                 /\ gr'.out[this_block] = Append(gr.out[this_block], Edge(c, tr))
        BY <1>7, <2>2, <2>3 DEF OutLinked, HeadOf
    <2> QED  BY <1>3, <2>2, <2>3, <2>5, <2>6, <2>7
<1>8. CASE \E o \in Blocks : OutSplit(target, tr, o)
    <2>1. PICK o \in Blocks : OutSplit(target, tr, o)  BY <1>8
    <2>2. PICK n : n = gr.size  OBVIOUS
    <2>3. Split(target, o)  BY <2>1 DEF OutSplit
    <2>4. /\ Blocks' = Blocks \cup {n} /\ n \notin Blocks
          /\ \A b \in Blocks : block_start'[b] = block_start[b]
          /\ block_start'[n] = target /\ block_end'[n] = Extended[o]
          /\ \A b \in Blocks \ {o} : block_end'[b] = Extended[b]
          /\ block_end'[o] = IF o = this_block THEN Extended[o] ELSE target
          /\ block_start[o] < target /\ target < Extended[o]
          /\ o # this_block
        BY <1>1, <2>2, <2>3, SplitEndsAt
    <2>5. /\ gr'.out[this_block] = Append(gr.out[this_block], Edge(n, tr))
          /\ gr'.out[o] = <<Edge(n, "kFallthrough")>>
          /\ gr'.out[n] = gr.out[o]
          /\ \A b \in Blocks \ {o, this_block} : gr'.out[b] = gr.out[b]
        BY <2>1, <2>2, <2>4 DEF OutSplit
    <2>6. block_stack' = block_stack  BY <2>3 DEF Split
    <2>7. /\ \A b : InStack(b)' <=> InStack(b)
          /\ \A b : InStack(b) => b \in Blocks \ {o, this_block}
        BY <1>3, <2>4, <2>6 DEF InStack
    <2>8. \A b : InStack(b)' => gr'.out[b] = <<>>
        BY <1>4, <2>5, <2>7
    <2>9. Flows(o)  BY <1>4, <2>4, <2>7
    <2>10. ~(n < fill)
        BY SMTT(30), <1>1, <1>4, <1>5, <2>2, BranchPointFacts
    <2>11. PICK last : last = block_end[o] - 1  OBVIOUS
    <2>12. Straight(o, last) /\ Exits(o, last, gr.out[o])
        BY <2>9, <2>11 DEF Flows
    <2>13. last \in Int /\ last = Extended[o] - 1 /\ target <= last
        BY <1>3, <2>4, <2>11
    <2>14. Flows(n)'
        <3>1. PICK s : s = gr.out[o]  OBVIOUS
        <3>2. Exits(o, last, s)  BY <2>12, <3>1
        <3>3. Exits(n, last, s)'
            BY <1>5, <2>4, <2>10, <3>2, ExitsKept
        <3>4. Straight(n, last)'
            BY <1>3, <2>4, <2>12 DEF Straight
        <3>5. last = block_end'[n] - 1 /\ s = gr'.out[n]
            BY <2>4, <2>5, <2>13, <3>1
        <3> QED  BY <3>3, <3>4, <3>5 DEF Flows, Exits, Straight
    <2>15. Flows(o)'
        <3>1. block_end'[o] = target  BY <2>4
        <3>2. ~EndsBlock(code[target - 1])
            BY <1>3, <2>4, <2>12, <2>13 DEF Straight
        <3>3. HeadOf(n, target)'  BY <2>4 DEF HeadOf
        <3>4. target - 1 + 1 = target  BY <1>3
        <3>5. Straight(o, target - 1)'
            BY <1>3, <2>4, <2>12, <2>13 DEF Straight
        <3>6. Exits(o, target - 1, <<Edge(n, "kFallthrough")>>)'
            BY <3>2, <3>3, <3>4 DEF Exits
        <3> QED  BY <2>5, <3>1, <3>5, <3>6 DEF Flows, Exits, Straight
    <2>16. ASSUME NEW b \in Blocks, b \notin {o, this_block}, ~InStack(b)
           PROVE  Flows(b)'
        <3>1. Flows(b)  BY <1>4, <2>16
        <3>2. block_end'[b] = block_end[b] /\ gr'.out[b] = gr.out[b]
            BY <1>3, <2>4, <2>5, <2>16
        <3> QED  BY <2>4, <2>16, <3>1, <3>2, FlowsKept
    <2>17. HeadOf(n, target)'  BY <2>4 DEF HeadOf
    <2>18. block_end'[this_block] = inst_address + 1
        BY <1>3, <2>4
    <2> QED
        BY <1>3, <2>4, <2>5, <2>7, <2>8, <2>14, <2>15, <2>16, <2>17, <2>18
<1>9. CASE OutAdded(target, tr)
    <2>1. PICK n : n = gr.size  OBVIOUS
    <2>2. /\ Added(target)
          /\ gr'.out[this_block] = Append(gr.out[this_block], Edge(n, tr))
          /\ gr'.out[n] = <<>>
          /\ \A b \in Blocks : b # this_block => gr'.out[b] = gr.out[b]
        BY <1>9, <2>1 DEF OutAdded
    <2>3. /\ Blocks' = Blocks \cup {n} /\ n \notin Blocks
          /\ \A b \in Blocks : /\ block_start'[b] = block_start[b]
                               /\ block_end'[b] = Extended[b]
          /\ block_start'[n] = target
        BY <1>1, <2>1, <2>2, AddedAt
    <2>4. block_stack' = Append(block_stack, n)  BY <2>1, <2>2 DEF Added
    <2>5. block_stack \in Seq(Blocks \cup {n}) /\ n \in Blocks \cup {n}
        BY <1>3, SeqMonotonic
    <2>6. /\ Len(block_stack') = Len(block_stack) + 1
          /\ Len(block_stack) \in Nat
          /\ \A k \in 1 .. Len(block_stack) : block_stack'[k] = block_stack[k]
          /\ block_stack'[Len(block_stack) + 1] = n
        BY <2>4, <2>5, AppendProperties
    <2>7. \A b : InStack(b)' <=> InStack(b) \/ b = n
        <3>1. ASSUME NEW b, InStack(b)'
              PROVE  InStack(b) \/ b = n
            <4>1. PICK k \in 1 .. Len(block_stack') : b = block_stack'[k]
                BY <3>1 DEF InStack
            <4>2. CASE k = Len(block_stack) + 1  BY <2>6, <4>1, <4>2
            <4>3. CASE k # Len(block_stack) + 1
                BY <2>6, <4>1, <4>3 DEF InStack
            <4> QED  BY <4>2, <4>3
        <3>2. ASSUME NEW b, InStack(b)
              PROVE  InStack(b)'
            BY <2>6, <3>2 DEF InStack
        <3>3. InStack(n)'  BY <2>6 DEF InStack
        <3> QED  BY <3>1, <3>2, <3>3
    <2>8. \A b : InStack(b) => b \in Blocks /\ b # this_block
        BY <1>3 DEF InStack
    <2>9. \A b : InStack(b)' => gr'.out[b] = <<>>
        BY <1>4, <2>2, <2>7, <2>8
    <2>10. ASSUME NEW b \in Blocks, b # this_block, ~InStack(b)
           PROVE  Flows(b)'
        <3>1. Flows(b)  BY <1>4, <2>10
        <3>2. block_end'[b] = block_end[b] /\ gr'.out[b] = gr.out[b]
            BY <1>3, <2>2, <2>3, <2>10
        <3> QED  BY <2>3, <3>1, <3>2, FlowsKept
    <2>11. HeadOf(n, target)'  BY <2>3 DEF HeadOf
    <2> QED  BY <1>3, <2>2, <2>3, <2>7, <2>9, <2>10, <2>11
<1> QED  BY <1>6, <1>7, <1>8, <1>9
\* The first block is queued, and has no edges yet.
LEMMA InitFlow == Init => FlowIInv
<1> SUFFICES ASSUME Init PROVE FlowInv  BY DEF FlowIInv
<1> DEFINE g == EmplaceVertex(NewGraph)
<1>1. IsGraph(NewGraph) /\ NewGraph.size = FirstReal  BY NewGraphType
<1>2. IsGraph(g) /\ g.size = FirstReal + 1  BY <1>1, EmplaceVertexType
<1>3. gr = EmplaceLink(g, Root, FirstReal, "kFallthrough")  BY DEF Init
<1>4. g.out[FirstReal] = <<>>  BY <1>1, EmplaceVertexLists
<1>5. Root \in Vertices(g) /\ FirstReal \in Vertices(g) /\ Root # FirstReal
    BY <1>2 DEF Vertices, Root, Terminal, FirstReal
<1> HIDE DEF g
<1>6. "kFallthrough" \in BlockTransfer  BY DEF BlockTransfer
<1>7. gr.out[FirstReal] = <<>> /\ gr.size = FirstReal + 1
    BY <1>2, <1>3, <1>4, <1>5, <1>6, EmplaceLinkLists, EmplaceLinkType
<1>8. Blocks = {FirstReal}  BY <1>7 DEF Blocks, FirstReal
<1>9. block_stack = <<FirstReal>> /\ pc = "pop" /\ fill = FirstReal
    BY DEF Init
<1>10. InStack(FirstReal)
    <2>1. 1 \in 1 .. Len(block_stack) /\ block_stack[1] = FirstReal  BY <1>9
    <2> QED  BY <2>1 DEF InStack
<1> QED  BY <1>7, <1>8, <1>9, <1>10 DEF FlowInv, Busy

\* Popping a block: it was queued, so it has no edges, and its scan starts.
LEMMA PopFlow == ASSUME IInv, FlowInv, PopBlock PROVE FlowInv'
<1> DEFINE n == Len(block_stack)
           b == block_stack[n]
<1>1. /\ pc = "pop" /\ block_stack # <<>>
      /\ this_block' = b /\ inst_address' = block_start[b] /\ pc' = "scan"
      /\ UNCHANGED <<code, gr, block_start, block_end, fill>>
    BY DEF PopBlock
<1>2. /\ n \in Nat \ {0} /\ Len(block_stack') = n - 1
      /\ \A k \in 1 .. n - 1 : block_stack'[k] = block_stack[k]
    BY StackPopped
<1>3. b \in Blocks /\ InStack(b)
    <2>1. n \in 1 .. n  BY <1>2
    <2> QED  BY <1>1, <2>1, StackTop DEF InStack
<1>4. ASSUME NEW c
      PROVE  InStack(c) <=> InStack(c)' \/ c = b
    <2>1. ASSUME InStack(c)
          PROVE  InStack(c)' \/ c = b
        <3>1. PICK k \in 1 .. n : c = block_stack[k]
            BY <2>1 DEF InStack
        <3>2. k # n => k \in 1 .. n - 1 /\ k \in 1 .. Len(block_stack')
            BY <1>2, <3>1
        <3> QED  BY <1>2, <3>1, <3>2 DEF InStack
    <2>2. ASSUME InStack(c)'
          PROVE  InStack(c)
        BY <1>2, <2>2 DEF InStack
    <2> QED  BY <1>3, <2>1, <2>2
<1> HIDE DEF n, b
<1>5. Blocks' = Blocks  BY <1>1 DEF Blocks
<1>6. \A c \in Blocks : InStack(c)' => gr'.out[c] = <<>>
    BY <1>1, <1>4 DEF FlowInv
<1>7. gr'.out[this_block'] = <<>>  BY <1>1, <1>3 DEF FlowInv
<1>8. Straight(this_block, inst_address)'
    <2>1. block_start[b] \in Int  BY <1>3, EntryAssumption DEF IInv, TypeOK, Addr
    <2> QED  BY <1>1, <2>1 DEF Straight
<1>9. ASSUME NEW c \in Blocks, ~Busy(c)'
      PROVE  Flows(c)'
    <2>1. ~Busy(c)  BY <1>1, <1>4, <1>9 DEF Busy
    <2>2. Flows(c)  BY <2>1 DEF FlowInv
    <2> QED  BY <1>1, <1>5, <2>2, FlowsKept
<1>10. fill' = FirstReal  BY <1>1 DEF FlowInv
<1> QED  BY <1>1, <1>5, <1>6, <1>7, <1>8, <1>9, <1>10 DEF FlowInv

\* The block that runs into a known one falls through to it.
LEMMA FallThroughFlow ==
    ASSUME IInv, FlowInv, FallThroughKnown
    PROVE  FlowInv'
<1>1. /\ block_end' = block_end /\ Blocks' = Blocks
      /\ inst_address # block_start[this_block]
    BY FallThroughEnds
<1>2. /\ pc = "scan" /\ pc' = "pop"
      /\ UNCHANGED <<code, block_start, block_stack, this_block,
                     inst_address, fill>>
    BY DEF FallThroughKnown
<1>3. /\ IsGraph(gr) /\ this_block \in Blocks /\ Blocks \subseteq Nat
      /\ Blocks \subseteq Vertices(gr)
    BY BlocksAreVertices DEF IInv, TypeOK
<1>4. PICK h : /\ h \in Blocks /\ block_start[h] = inst_address
               /\ gr' = EmplaceLink(gr, this_block, h, "kFallthrough")
    <2> DEFINE m == Min(BlocksAtHead(inst_address))
    <2>1. BlocksAtHead(inst_address) # {}
        BY DEF FallThroughKnown, AtOtherHead
    <2>2. m \in BlocksAtHead(inst_address)
        BY <1>3, <2>1, MinType DEF BlocksAtHead
    <2>3. gr' = EmplaceLink(gr, this_block, m, "kFallthrough")
        BY DEF FallThroughKnown
    <2> HIDE DEF m
    <2> QED  BY <2>2, <2>3 DEF BlocksAtHead
<1>5. gr.out[this_block] = <<>>  BY <1>2 DEF FlowInv
<1>6. /\ gr'.out[this_block] = <<Edge(h, "kFallthrough")>>
      /\ \A b \in Blocks : b # this_block => gr'.out[b] = gr.out[b]
    <2>1. "kFallthrough" \in BlockTransfer  BY DEF BlockTransfer
    <2>2. this_block \in Vertices(gr) /\ h \in Vertices(gr)  BY <1>3, <1>4
    <2>3. /\ gr'.out[this_block] =
                Append(gr.out[this_block], Edge(h, "kFallthrough"))
          /\ \A w \in Vertices(gr) : w # this_block => gr'.out[w] = gr.out[w]
        <3>1. IsGraph(gr)  BY <1>3
        <3>2. gr' = EmplaceLink(gr, this_block, h, "kFallthrough")  BY <1>4
        <3> QED  BY <2>1, <2>2, <3>1, <3>2, EmplaceLinkLists
    <2>4. Append(<<>>, Edge(h, "kFallthrough")) = <<Edge(h, "kFallthrough")>>
        OBVIOUS
    <2> QED  BY <1>3, <1>5, <2>3, <2>4
<1>7. \A b : InStack(b)' <=> InStack(b)  BY <1>2 DEF InStack
<1>8. \A b : InStack(b) => b # this_block
    <2>1. BranchPoint  BY <1>2, BranchPointHolds
    <2> QED  BY <1>2, <2>1, BranchPointFacts DEF InStack
<1>9. PICK last : last = block_end[this_block] - 1  OBVIOUS
<1>10. /\ last + 1 = inst_address /\ last \in Int /\ inst_address \in Int
       /\ block_start[this_block] \in Int
       /\ block_start[this_block] <= last /\ last < inst_address
    <2>1. /\ block_start[this_block] \in Int /\ inst_address \in Int
          /\ block_start[this_block] <= inst_address
          /\ block_end[this_block] = inst_address
        BY <1>1, <1>2, <1>3, EntryAssumption DEF IInv, AtScan, TypeOK, Addr
    <2> QED  BY <1>1, <1>9, <2>1
<1>11. Straight(this_block, inst_address)  BY <1>2 DEF FlowInv
<1>12. PICK t : t = this_block  OBVIOUS
<1>13. Flows(t)'
    <2>1. Straight(t, last)'
        <3>1. \A a \in Int : a < last => a < inst_address  BY <1>10
        <3> QED  BY <1>2, <1>11, <1>12, <3>1 DEF Straight
    <2>2. ~EndsBlock(code[last])  BY <1>10, <1>11 DEF Straight
    <2>3. HeadOf(h, last + 1)'  BY <1>1, <1>2, <1>4, <1>10 DEF HeadOf
    <2>4. Exits(t, last, <<Edge(h, "kFallthrough")>>)'
        BY <1>2, <2>2, <2>3 DEF Exits
    <2> QED
        BY <1>1, <1>6, <1>9, <1>12, <2>1, <2>4 DEF Flows, Exits, Straight
<1>14. ASSUME NEW b \in Blocks, ~Busy(b)'
       PROVE  Flows(b)'
    <2>1. CASE b = this_block  BY <1>12, <1>13, <2>1
    <2>2. CASE b # this_block
        <3>1. Flows(b)  BY <1>7, <1>14, <2>2 DEF FlowInv, Busy
        <3> QED  BY <1>1, <1>2, <1>6, <2>2, <3>1, FlowsKept
    <2> QED  BY <2>1, <2>2
<1>15. \A b \in Blocks : InStack(b)' => gr'.out[b] = <<>>
    BY <1>6, <1>7, <1>8 DEF FlowInv
<1> QED  BY <1>1, <1>2, <1>14, <1>15 DEF FlowInv
\* Scanning a word: an instruction that does not end the block leaves the scan
\* where it is, a return ends it without an edge.
LEMMA ExtendFlow ==
    ASSUME IInv, FlowInv, StepOver \/ EndReturn
    PROVE  FlowInv'
<1>1. /\ pc = "scan" /\ ~AtOtherHead /\ block_end' = Extended
      /\ UNCHANGED <<code, gr, block_start, block_stack, this_block, fill>>
    BY DEF StepOver, EndReturn, Reading
<1>2. BranchPoint  BY <1>1, BranchPointHolds
<1>3. /\ this_block \in Blocks /\ Extended[this_block] = inst_address + 1
      /\ inst_address \in Int /\ FirstReal \in Nat
      /\ Blocks = FirstReal .. gr.size - 1 /\ gr.size \in Nat
      /\ \A b \in Blocks : b # this_block => Extended[b] = block_end[b]
    BY <1>2, BranchPointFacts
<1>4. Blocks' = Blocks /\ \A b : InStack(b)' <=> InStack(b)
    BY <1>1 DEF Blocks, InStack
<1>5. ASSUME NEW b \in Blocks, b # this_block, ~InStack(b)
      PROVE  Flows(b)'
    <2>1. Flows(b)  BY <1>5 DEF FlowInv, Busy
    <2>2. block_end'[b] = block_end[b]  BY <1>1, <1>3, <1>5
    <2> HIDE DEF Extended
    <2> QED  BY <1>1, <1>4, <2>1, <2>2, FlowsKept
<1>6. /\ \A b \in Blocks : InStack(b)' => gr'.out[b] = <<>>
      /\ gr'.out[this_block] = <<>> /\ Straight(this_block, inst_address)
      /\ fill = FirstReal
    BY <1>1, <1>4 DEF FlowInv
<1>7. CASE StepOver
    <2>1. /\ pc' = "scan" /\ ~EndsBlock(code[inst_address])
          /\ inst_address' = inst_address + 1
        BY <1>1, <1>7 DEF StepOver, inst
    <2>2. \A a \in Int : a < inst_address + 1 => a < inst_address \/ a = inst_address
        BY <1>3
    <2>3. Straight(this_block, inst_address)'
        BY <1>1, <1>6, <2>1, <2>2 DEF Straight
    <2>4. \A b \in Blocks : ~Busy(b)' => Flows(b)'
        BY <1>1, <1>4, <1>5, <2>1 DEF Busy
    <2> QED  BY <1>1, <1>4, <1>6, <2>1, <2>3, <2>4 DEF FlowInv
<1>8. CASE EndReturn
    <2>1. pc' = "pop" /\ EndsBlock(inst) /\ inst.op = "kReturn"
        BY <1>8 DEF EndReturn
    <2>2. PICK u, x : u = this_block /\ x = inst_address  OBVIOUS
    <2>3. Straight(u, x)'  BY <1>1, <1>6, <2>2 DEF Straight
    <2>4. ~(u < fill)  BY <1>3, <1>6, <2>2
    <2>5. Exits(u, x, <<>>)'
        BY <1>1, <2>1, <2>2, <2>4 DEF Exits, inst
    <2>6. block_end'[u] - 1 = x /\ gr'.out[u] = <<>>
        <3>1. block_end'[u] = x + 1 /\ x \in Int  BY <1>1, <1>3, <2>2
        <3> QED  BY <1>1, <1>6, <2>2, <3>1
    <2>7. Flows(u)'  BY <2>3, <2>5, <2>6 DEF Flows, Straight, Exits
    <2>8. \A b \in Blocks : ~Busy(b)' => Flows(b)'
        BY <1>4, <1>5, <2>2, <2>7 DEF Busy
    <2> QED  BY <1>1, <1>4, <1>6, <2>1, <2>8 DEF FlowInv
<1> QED  BY <1>7, <1>8

\* The second of two edges.
LEMMA AppendToOne ==
    ASSUME NEW e, NEW f
    PROVE  Append(<<e>>, f) = <<e, f>>
<1> DEFINE S == {e, f}
<1>1. <<e>> \in Seq(S) /\ <<e, f>> \in Seq(S) /\ f \in S  OBVIOUS
<1>2. Append(<<e>>, f) \in Seq(S) /\ Len(Append(<<e>>, f)) = 2
      /\ Append(<<e>>, f)[1] = e /\ Append(<<e>>, f)[2] = f
    BY <1>1, AppendProperties
<1>3. Len(<<e, f>>) = 2 /\ <<e, f>>[1] = e /\ <<e, f>>[2] = f
    OBVIOUS
<1> DEFINE p == Append(<<e>>, f)
           q == <<e, f>>
<1> HIDE DEF S, p, q
<1>4. p \in Seq(S) /\ q \in Seq(S) /\ Len(p) = 2 /\ Len(q) = 2
    BY <1>1, <1>2, <1>3 DEF p, q
<1>5. \A i \in 1 .. 2 : p[i] = q[i]
    <2>1. \A i \in 1 .. 2 : i = 1 \/ i = 2  OBVIOUS
    <2> QED  BY <1>2, <1>3, <2>1 DEF p, q
<1>6. p = q  BY <1>4, <1>5, SeqEqual
<1> QED  BY <1>6 DEF p, q

\* A branch that ends the block: it has its edges, one or two.
LEMMA BranchesFlow ==
    ASSUME IInv, GraphInv, ApartInv, FlowInv, ~selfSplit, ~selfSplit',
           TakeBranch \/ BranchTrue \/ BranchFalse
    PROVE  FlowInv'
<1>1. PICK target, tr, u, x :
        /\ tr = IF TakeBranch THEN "kUnconditional"
                ELSE IF BranchTrue THEN "kConditionTrue" ELSE "kConditionFalse"
        /\ target = IF TakeBranch \/ BranchTrue
                    THEN inst.target ELSE inst_address + 1
        /\ u = this_block /\ x = inst_address
    OBVIOUS
<1>2. /\ pc \in {"scan", "bcFalse"} /\ (pc = "scan" => ~AtOtherHead)
      /\ EndsBlock(inst)
      /\ UNCHANGED <<code, this_block, inst_address, fill>>
    BY DEF TakeBranch, BranchTrue, BranchFalse, Reading, IInv, AtScan
<1>3. BranchPoint  BY <1>2, BranchPointHolds
<1>4. target \in Addr /\ x \in Addr /\ Addr \subseteq Int
    <2>1. IsProgram(code) /\ N \in Nat /\ inst_address \in Addr
        BY EntryAssumption DEF IInv, TypeOK
    <2>2. inst.target \in Addr  BY InstType DEF IInv
    <2>3. BranchFalse => inst.op = "kBc"  BY DEF BranchFalse, IInv, AtScan
    <2>4. BranchFalse => inst_address + 1 \in Addr
        BY <2>1, <2>3, NextWord DEF inst
    <2> QED  BY <1>1, <2>1, <2>2, <2>4 DEF Addr
<1>5. tr \in BlockTransfer  BY <1>1 DEF BlockTransfer
<1>6. HandleBranch(Extended, this_block, target, tr)
    <2>1. TakeBranch => pc = "scan" /\ pc' = "pop"
        BY DEF TakeBranch, Reading
    <2>2. BranchTrue => pc' = "bcFalse"  BY DEF BranchTrue
    <2>3. CASE TakeBranch  BY <1>1, <2>3 DEF TakeBranch
    <2>4. CASE BranchTrue  BY <1>1, <2>1, <2>2, <2>4 DEF BranchTrue
    <2>5. CASE BranchFalse
        <3>1. pc = "bcFalse" /\ pc' = "pop"  BY <2>5 DEF BranchFalse
        <3>2. block_end = Extended  BY <3>1, FalseBranchExtended
        <3>3. ~TakeBranch /\ ~BranchTrue
            BY <2>1, <3>1 DEF BranchTrue, Reading
        <3> QED  BY <1>1, <2>5, <3>2, <3>3 DEF BranchFalse
    <2> QED  BY <2>3, <2>4, <2>5
<1>7. /\ Blocks \subseteq Blocks' /\ this_block \in Blocks
      /\ \A b \in Blocks : block_start'[b] = block_start[b]
      /\ block_end'[this_block] = inst_address + 1
      /\ \A b \in Blocks' : InStack(b)' => gr'.out[b] = <<>>
      /\ \A b \in Blocks' : b # this_block /\ ~InStack(b)' => Flows(b)'
      /\ \E c : /\ HeadOf(c, target)'
                /\ gr'.out[this_block] = Append(gr.out[this_block], Edge(c, tr))
    BY <1>2, <1>4, <1>5, <1>6, BranchFlows
<1>8. PICK c : /\ HeadOf(c, target)'
               /\ gr'.out[u] = Append(gr.out[u], Edge(c, tr))
    BY <1>1, <1>7
<1>9. /\ fill' = FirstReal /\ Straight(u, x)'
    BY <1>1, <1>2, <1>7 DEF FlowInv, Straight
<1>10. block_end'[u] - 1 = x  BY <1>1, <1>4, <1>7
<1>11. ASSUME pc' = "pop", NEW s, gr'.out[u] = s, Exits(u, x, s)'
       PROVE  FlowInv'
    <2>1. Flows(u)'  BY <1>9, <1>10, <1>11 DEF Flows, Straight, Exits
    <2>2. \A b \in Blocks' : ~Busy(b)' => Flows(b)'
        BY <1>1, <1>7, <2>1 DEF Busy
    <2> QED  BY <1>7, <1>9, <1>11, <2>2 DEF FlowInv
<1>12. CASE TakeBranch
    <2>1. pc = "scan" /\ pc' = "pop" /\ inst.op = "kB"
        BY <1>12 DEF TakeBranch, Reading
    <2>2. gr.out[u] = <<>>  BY <1>1, <2>1 DEF FlowInv
    <2>3. gr'.out[u] = <<Edge(c, tr)>>  BY <1>8, <2>2
    <2>4. tr = "kUnconditional" /\ target = inst.target  BY <1>1, <1>12
    <2>5. Exits(u, x, <<Edge(c, "kUnconditional")>>)'
        BY <1>1, <1>2, <1>8, <2>1, <2>4 DEF Exits, inst
    <2> QED  BY <1>11, <2>1, <2>3, <2>4, <2>5
<1>13. CASE BranchTrue
    <2>1. pc = "scan" /\ pc' = "bcFalse" /\ inst.op = "kBc"
        BY <1>13 DEF BranchTrue, Reading
    <2>2. gr.out[u] = <<>>  BY <1>1, <2>1 DEF FlowInv
    <2>3. gr'.out[u] = <<Edge(c, tr)>>  BY <1>8, <2>2
    <2>4. tr = "kConditionTrue" /\ target = inst.target
        BY <1>1, <1>13, <2>1 DEF TakeBranch
    <2>5. HeadOf(c, target)' /\ inst' = inst  BY <1>2, <1>8 DEF inst
    <2>6. \A b \in Blocks' : ~Busy(b)' => Flows(b)'
        BY <1>2, <1>7, <2>1 DEF Busy
    <2>7. Straight(this_block, inst_address)'
        BY <1>1, <1>2, <1>9 DEF Straight
    <2>8. \E d : /\ HeadOf(d, inst.target)'
                 /\ gr'.out[this_block'] = <<Edge(d, "kConditionTrue")>>
        BY <1>1, <1>2, <2>3, <2>4, <2>5 DEF HeadOf
    <2> QED  BY <1>7, <1>9, <2>1, <2>6, <2>7, <2>8 DEF FlowInv
<1>14. CASE BranchFalse
    <2>1. pc = "bcFalse" /\ pc' = "pop"  BY <1>14 DEF BranchFalse
    <2>2. inst.op = "kBc"  BY <2>1 DEF IInv, AtScan
    <2>3. PICK d : /\ HeadOf(d, inst.target)
                   /\ gr.out[u] = <<Edge(d, "kConditionTrue")>>
        BY <1>1, <2>1 DEF FlowInv
    <2>4. tr = "kConditionFalse" /\ target = x + 1
        BY <1>1, <2>1 DEF TakeBranch, BranchTrue, Reading
    <2>5. gr'.out[u] = <<Edge(d, "kConditionTrue"), Edge(c, "kConditionFalse")>>
        <3>1. Append(<<Edge(d, "kConditionTrue")>>, Edge(c, tr)) =
                <<Edge(d, "kConditionTrue"), Edge(c, tr)>>
            BY AppendToOne
        <3> QED  BY <1>8, <2>3, <2>4, <3>1
    <2>6. PICK t : t = inst.target  OBVIOUS
    <2>7. HeadOf(d, t)'  BY <1>7, <2>3, <2>6 DEF HeadOf
    <2>8. HeadOf(c, x + 1)'  BY <1>8, <2>4
    <2>9. t = code'[x].target /\ EndsBlock(code'[x]) /\ code'[x].op = "kBc"
        BY <1>1, <1>2, <2>2, <2>6 DEF inst
    <2>10. Exits(u, x, <<Edge(d, "kConditionTrue"),
                         Edge(c, "kConditionFalse")>>)'
        BY <2>7, <2>8, <2>9 DEF Exits
    <2> QED  BY <1>11, <2>1, <2>5, <2>10
<1> QED  BY <1>12, <1>13, <1>14
\* The last instruction of a block is one of the routine.
LEMMA LastInst ==
    ASSUME IInv, NEW b \in Blocks
    PROVE  /\ block_start[b] \in Int /\ block_end[b] \in Int
           /\ block_start[b] < block_end[b]
           /\ code[block_end[b] - 1] \in Inst
<1>1. /\ block_start[b] \in Addr /\ block_end[b] \in 0 .. N /\ N \in Nat
      /\ block_start[b] < block_end[b] /\ code \in [Addr -> Inst]
    BY EntryAssumption DEF IInv, TypeOK, NonEmpty, IsProgram
<1>2. block_end[b] - 1 \in Addr  BY <1>1 DEF Addr
<1> QED  BY <1>1, <1>2 DEF Addr

\* The closing loop gives the blocks that return their edge, and touches no
\* other block.
LEMMA FinishFlow == ASSUME IInv, FlowInv, FinishBlock PROVE FlowInv'
<1>1. /\ pc = "finish" /\ fill \in Blocks /\ fill' = fill + 1
      /\ gr' = IF gr.out[fill] = <<>>
               THEN EmplaceLink(gr, fill, Terminal, "kUnconditional")
               ELSE gr
      /\ UNCHANGED <<code, pc, block_start, block_end, block_stack>>
    BY DEF FinishBlock
<1>2. /\ IsGraph(gr) /\ Blocks \subseteq Vertices(gr) /\ Blocks \subseteq Nat
      /\ Terminal \in Vertices(gr) /\ "kUnconditional" \in BlockTransfer
    BY BlocksAreVertices, VertexKinds DEF IInv, TypeOK, BlockTransfer
<1>3. PICK f : f = fill  OBVIOUS
<1>4. /\ gr'.out[f] = IF gr.out[f] = <<>>
                      THEN <<Edge(Terminal, "kUnconditional")>> ELSE gr.out[f]
      /\ \A b \in Blocks : b # f => gr'.out[b] = gr.out[b]
    <2>1. CASE gr.out[f] = <<>>
        <3>1. gr' = EmplaceLink(gr, f, Terminal, "kUnconditional")
            BY <1>1, <1>3, <2>1
        <3>2. f \in Vertices(gr)  BY <1>1, <1>2, <1>3
        <3>3. /\ gr'.out[f] = Append(gr.out[f], Edge(Terminal, "kUnconditional"))
              /\ \A w \in Vertices(gr) : w # f => gr'.out[w] = gr.out[w]
            <4>1. /\ IsGraph(gr) /\ Terminal \in Vertices(gr)
                  /\ "kUnconditional" \in BlockTransfer
                BY <1>2
            <4> QED  BY <3>1, <3>2, <4>1, EmplaceLinkLists
        <3>4. Append(<<>>, Edge(Terminal, "kUnconditional")) =
                    <<Edge(Terminal, "kUnconditional")>>
            OBVIOUS
        <3> QED  BY <1>2, <2>1, <3>3, <3>4
    <2>2. CASE gr.out[f] # <<>>  BY <1>1, <1>3, <2>2
    <2> QED  BY <2>1, <2>2
<1>5. Blocks' = Blocks  BY FinishBlockSize DEF Blocks
<1>6. (\A b : ~InStack(b)) /\ (\A b : ~InStack(b)')
    BY <1>1 DEF IInv, StackDone, InStack
<1>7. \A b \in Blocks : Flows(b)  BY <1>1, <1>6 DEF FlowInv, Busy
<1>8. ASSUME NEW b \in Blocks, b # f
      PROVE  Flows(b)'
    <2>1. b < fill' <=> b < fill  BY <1>1, <1>2, <1>3, <1>8
    <2>2. gr'.out[b] = gr.out[b]  BY <1>4, <1>8
    <2> QED  BY <1>1, <1>5, <1>7, <2>1, <2>2, FlowsKept
<1>9. Flows(f)'
    <2>1. PICK last, s, i :
            /\ last = block_end[f] - 1 /\ s = gr.out[f]
            /\ i = code[block_end[f] - 1]
        OBVIOUS
    <2>2. f \in Blocks /\ i \in Inst  BY <1>1, <1>3, <2>1, LastInst
    <2>3. Straight(f, last) /\ Exits(f, last, s) /\ i = code[last]
        BY <1>7, <2>1, <2>2 DEF Flows
    <2>4. ~(f < fill) /\ f < fill'  BY <1>1, <1>2, <1>3
    <2>5. PICK t : t = gr'.out[f]  OBVIOUS
    <2>6. t = IF s = <<>> THEN <<Edge(Terminal, "kUnconditional")>> ELSE s
        BY <1>4, <2>1, <2>5
    <2>7. \A c, a : HeadOf(c, a) => HeadOf(c, a)'  BY <1>1, <1>5 DEF HeadOf
    <2>8. Exits(f, last, t)'
        <3>1. \A x, y : <<x>> # <<>> /\ <<x, y>> # <<>>  OBVIOUS
        <3>2. CASE EndsBlock(i) /\ i.op = "kReturn"
            <4>1. s = <<>>  BY <2>3, <2>4, <3>2 DEF Exits
            <4>2. t = <<Edge(Terminal, "kUnconditional")>>  BY <2>6, <4>1
            <4>3. i = code'[last]  BY <1>1, <2>3
            <4> QED  BY <2>4, <3>2, <4>2, <4>3 DEF Exits
        <3>3. CASE ~(EndsBlock(i) /\ i.op = "kReturn")
            <4>1. i = code'[last]  BY <1>1, <2>3
            <4>2. s # <<>>
                <5>1. i.op \in Op /\ (EndsBlock(i) => i.op # "kOther")
                    BY <2>2 DEF Inst, EndsBlock
                <5> QED  BY <2>3, <3>1, <3>3, <5>1 DEF Exits, Op
            <4>3. t = s  BY <2>6, <4>2
            <4> QED  BY <2>3, <2>7, <3>3, <4>1, <4>3 DEF Exits
        <3> QED  BY <3>2, <3>3
    <2>9. Straight(f, last)'  BY <1>1, <2>3 DEF Straight
    <2>10. last = block_end'[f] - 1  BY <1>1, <2>1
    <2> QED  BY <2>5, <2>8, <2>9, <2>10 DEF Flows, Exits, Straight
<1>10. \A b \in Blocks : Flows(b)'  BY <1>8, <1>9
<1> QED  BY <1>1, <1>5, <1>6, <1>10 DEF FlowInv

\* Every step keeps the edges of the blocks right.
LEMMA NextFlow ==
    ASSUME IInv, GraphInv, ApartInv, FlowIInv, [Next]_vars
    PROVE  FlowIInv'
<1>1. selfSplit => selfSplit'
    <2>1. ASSUME NEW end, NEW cur, NEW target, NEW tr,
                 HandleBranch(end, cur, target, tr)
          PROVE  selfSplit => selfSplit'
        BY <2>1 DEF HandleBranch, LinkKnown, SplitKnown, NewBlock
    <2>2. CASE TakeBranch \/ BranchTrue \/ BranchFalse
        BY <2>1, <2>2 DEF TakeBranch, BranchTrue, BranchFalse
    <2>3. CASE \/ PopBlock \/ FallThroughKnown \/ StepOver \/ EndReturn
               \/ EndScan \/ FinishBlock \/ Finish \/ UNCHANGED vars
        BY <2>3 DEF PopBlock, FallThroughKnown, StepOver, EndReturn, EndScan,
                    FinishBlock, Finish, vars
    <2> QED  BY <2>2, <2>3 DEF Next, Scan, Terminating
<1>2. SUFFICES ASSUME FlowInv, ~selfSplit, ~selfSplit'
               PROVE  FlowInv'
    BY <1>1 DEF FlowIInv
<1>3. ASSUME UNCHANGED <<code, gr, block_start, block_end, block_stack,
                         this_block, inst_address, fill>>,
             pc' = pc \/ pc \notin {"scan", "bcFalse"},
             pc' \notin {"scan", "bcFalse"} \/ pc' = pc,
             pc' \notin {"finish", "done"} => fill = FirstReal,
             pc' = "done" => fill = gr.size
      PROVE  FlowInv'
    <2>1. Blocks' = Blocks /\ \A b : InStack(b)' <=> InStack(b)
        BY <1>3 DEF Blocks, InStack
    <2>2. \A b : Busy(b)' <=> Busy(b)  BY <1>3, <2>1 DEF Busy
    <2>3. \A b \in Blocks : Flows(b) => Flows(b)'
        BY <1>3, <2>1, FlowsKept
    <2>4. Straight(this_block, inst_address) =>
                Straight(this_block, inst_address)'
        BY <1>3 DEF Straight
    <2>5. pc' = "bcFalse" =>
            \E c : /\ HeadOf(c, inst.target)'
                   /\ gr'.out[this_block'] = <<Edge(c, "kConditionTrue")>>
        BY <1>2, <1>3, <2>1 DEF FlowInv, HeadOf, inst
    <2> QED  BY <1>2, <1>3, <2>1, <2>2, <2>3, <2>4, <2>5 DEF FlowInv
<1>4. CASE EndScan
    <2>1. pc = "pop" /\ pc' = "finish"  BY <1>4 DEF EndScan
    <2> QED  BY <1>3, <1>4, <2>1 DEF EndScan
<1>5. CASE Finish
    <2>1. pc = "finish" /\ pc' = "done"  BY <1>5 DEF Finish
    <2>2. fill = gr.size
        <3>1. fill \notin Blocks /\ fill \in FirstReal .. gr.size
              /\ gr.size \in Nat /\ FirstReal \in Nat
            BY <1>5, VertexKinds DEF Finish, IInv, TypeOK
        <3> QED  BY <3>1 DEF Blocks
    <2> QED  BY <1>3, <1>5, <2>1, <2>2 DEF Finish
<1>6. CASE UNCHANGED vars
    <2>1. UNCHANGED <<code, gr, block_start, block_end, block_stack,
                      this_block, inst_address, fill, pc>>
        BY <1>6 DEF vars
    <2> QED  BY <1>2, <1>3, <2>1 DEF FlowInv
<1> QED
    BY <1>2, <1>4, <1>5, <1>6, PopFlow, FallThroughFlow, ExtendFlow,
       BranchesFlow, FinishFlow
    DEF Next, Scan, Terminating

\* No two blocks have the same head.
LEMMA HeadIsBlockAt ==
    ASSUME IInv, NEW c, NEW a, HeadOf(c, a)
    PROVE  BlockAt(a) = c
<1>1. Blocks \subseteq Nat  BY BlocksAreVertices DEF IInv, TypeOK
<1>2. c \in BlocksAtHead(a) /\ BlocksAtHead(a) \subseteq Nat
    BY <1>1 DEF HeadOf, BlocksAtHead
<1>3. Min(BlocksAtHead(a)) \in BlocksAtHead(a)  BY <1>2, MinType
<1>4. \A b \in BlocksAtHead(a) : b = c
    BY <1>2 DEF IInv, ScannedOnce, BlocksAtHead
<1> QED  BY <1>3, <1>4 DEF BlockAt

\* When the analysis is done, no block is queued or being scanned.
LEMMA FlowAtTheEnd ==
    ASSUME IInv, FlowIInv
    PROVE  FlowFaithful
<1> SUFFICES ASSUME pc = "done", ~selfSplit, NEW b \in Blocks
             PROVE  /\ Extent(b) # {}
                    /\ \A a \in Extent(b) :
                            EndsBlock(code[a]) => a = block_end[b] - 1
                    /\ gr.out[b] = ExpectedOut(b)
    BY DEF FlowFaithful
<1>1. FlowInv  BY DEF FlowIInv
<1>2. ~Busy(b)  BY DEF IInv, StackDone, Busy, InStack
<1>3. PICK last, i : last = block_end[b] - 1 /\ i = code[block_end[b] - 1]
    OBVIOUS
<1>4. Straight(b, last) /\ Exits(b, last, gr.out[b])
    BY <1>1, <1>2, <1>3 DEF FlowInv, Flows
<1>5. /\ block_start[b] \in Int /\ block_end[b] \in Int
      /\ block_start[b] < block_end[b] /\ i \in Inst /\ i = code[last]
    BY <1>3, LastInst
<1>6. Extent(b) # {}
    <2>1. block_start[b] \in Extent(b)  BY <1>5 DEF Extent
    <2> QED  BY <2>1
<1>7. \A a \in Extent(b) : EndsBlock(code[a]) => a = block_end[b] - 1
    BY <1>3, <1>4, <1>5 DEF Extent, Straight
<1>8. b < fill
    <2>1. fill = gr.size  BY <1>1 DEF FlowInv
    <2>2. gr.size \in Nat /\ FirstReal \in Nat
        BY VertexKinds DEF IInv, TypeOK
    <2> QED  BY <2>1, <2>2 DEF Blocks
<1>9. gr.out[b] = ExpectedOut(b)
    <2>1. i.op \in Op /\ (EndsBlock(i) => i.op # "kOther")
        BY <1>5 DEF Inst, EndsBlock
    <2>2. CASE ~EndsBlock(i)
        <3>1. PICK c : /\ HeadOf(c, last + 1)
                       /\ gr.out[b] = <<Edge(c, "kFallthrough")>>
            BY <1>4, <1>5, <2>2 DEF Exits
        <3>2. BlockAt(last + 1) = c  BY <3>1, HeadIsBlockAt
        <3> QED  BY <1>3, <2>2, <3>1, <3>2 DEF ExpectedOut
    <2>3. CASE EndsBlock(i) /\ i.op = "kB"
        <3>1. PICK c : /\ HeadOf(c, i.target)
                       /\ gr.out[b] = <<Edge(c, "kUnconditional")>>
            BY <1>4, <1>5, <2>3 DEF Exits
        <3>2. BlockAt(i.target) = c  BY <3>1, HeadIsBlockAt
        <3> QED  BY <1>3, <2>3, <3>1, <3>2 DEF ExpectedOut
    <2>4. CASE EndsBlock(i) /\ i.op = "kBc"
        <3>1. PICK c, d : /\ HeadOf(c, i.target) /\ HeadOf(d, last + 1)
                          /\ gr.out[b] = <<Edge(c, "kConditionTrue"),
                                           Edge(d, "kConditionFalse")>>
            BY <1>4, <1>5, <2>4 DEF Exits
        <3>2. BlockAt(i.target) = c /\ BlockAt(last + 1) = d
            BY <3>1, HeadIsBlockAt
        <3> QED  BY <1>3, <2>4, <3>1, <3>2 DEF ExpectedOut
    <2>5. CASE EndsBlock(i) /\ i.op = "kReturn"
        <3>1. gr.out[b] = <<Edge(Terminal, "kUnconditional")>>
            BY <1>4, <1>5, <1>8, <2>5 DEF Exits
        <3> QED  BY <1>3, <2>5, <3>1 DEF ExpectedOut
    <2> QED  BY <2>1, <2>2, <2>3, <2>4, <2>5 DEF Op
<1> QED  BY <1>6, <1>7, <1>9

-----------------------------------------------------------------------------

\* The finished graph is the flow graph of the code, whatever the routine: a
\* block is left only at its end, and its edges lead exactly to the blocks at
\* the addresses its last instruction can transfer to, wherever later splits
\* have moved them; as long as no block was split while it was being scanned.
THEOREM GraphIsTheCode == Spec => []FlowFaithful
<1>1. Init => GraphInv /\ ApartInv /\ FlowIInv
    BY InitGraph, InitApart, InitFlow
<1>2. IInv /\ GraphInv /\ [Next]_vars => GraphInv'  BY NextGraph
<1>3. IInv /\ ApartInv /\ [Next]_vars => ApartInv'  BY NextApart
<1>4. IInv /\ GraphInv /\ ApartInv /\ FlowIInv /\ [Next]_vars => FlowIInv'
    BY NextFlow
<1>5. IInv /\ FlowIInv => FlowFaithful  BY FlowAtTheEnd
<1> QED
    BY <1>1, <1>2, <1>3, <1>4, <1>5, InductiveInvariant, PTL DEF Spec
=============================================================================
