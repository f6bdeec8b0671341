# A TLA+ model of PowerDecompile

PowerDecompile turns a GameCube/Wii executable into higher-level code. It is one
sequential program: there are no threads, no messages and no persistent state, so
what can go wrong is not interleaving but *order*. Each pass mutates data that an
earlier pass built, under assumptions about that data nobody writes down (two
copies of an edge agree, block extents do not overlap, every vertex can be reached),
and a long sequence of legal calls can break them where no test looks. The modules
here model those passes and state the assumptions as properties.

## The system

| Part | State | Operations | Hard behaviour |
|---|---|---|---|
| `utl/LaunchCommand`, `Commands.cc`, `DecompMain.cc` | cursor into the arguments, parse mode, parsed parameters and options | exec_command, parse_argv, five commands | cursor and mode are shared by three kinds of argument; missing values |
| `producers/*`, `ppc/BinaryContext`, `utl/PatternScan` | the stream, section headers, an interval tree of sections, addresses of the save routines | load_from, add_section, read_word, pattern_scan_code | short reads and dropped sections go unnoticed; addresses outside read as zero |
| `ppc/PpcDisasm`, `ppc/BinInst`, `dbgutil/Disassembler` | tables | disasm_single, write_inst_disassembly | two sets of tables for the same words; lists read by position elsewhere |
| `utl/FlowGraph` mutators | `_vtx`: per vertex `_out`, `_in`, `_detached` | emplace_vertex, emplace_link, insert_after, detach, substitute_pair | every edge is stored twice and no mutator checks both copies; `detach` erases `end()` when they differ |
| `ppc/SubroutineGraph` | the graph, `_block_start`, `_block_end`, work stack, `_direct_calls` | run_graph_analysis, handle_branch, split_blocks | blocks are split after edges were added to them, even while they are being scanned |
| `utl/FlowGraph` traversals, dominators | visited sets, DFS numbers, forest | preorder, postorder, preorder_pathacc, lengauer_tarjan | unreachable vertices, endless loops, the order of finalisation |
| `utl/IntervalTree` | AVL tree, threads `_prev`/`_next`, cached `_height`, `_st_max` | try_emplace, cut_emplace_below, query, query_min, iterate | cached values and threads after rotations |
| `ppc/RegisterLiveness` | per block sets of live registers | local evaluation, propagation to a fixpoint, backpropagation, removal of unused sections | termination, independence of visiting order |
| `ppc/SubroutineStack`, `ppc/Perilogue` | stack size, variables, the type of each instruction | run_stack_analysis, run_perilogue_analysis | the stack size is used while it is being found; what is marked is left out of the IR |
| `ir/RegisterBinding`, `ir/GekkoTranslator` | forest of temporaries, IR blocks, conditions | translate_subroutine | dereferences what four analyses found, without a test |
| `hll/*`, IR printer | unfinished code, formatting | structurize, print | - |

The passes run in the order `Commands.cc` calls them: the producers give memory, the
decoder instructions, `run_graph_analysis` builds a `SubroutineGraph` (a `FlowGraph` of
`BasicBlock`s, with a `dinterval_tree` from addresses to blocks), liveness, stack and
perilogue analysis annotate its blocks, the binding and the translator walk it, and the
structurizer would rewrite it with `detach` and `substitute_pair`. They interact only
through memory, the graph and the per-block records. The modules follow these seams:
`Commands` goes from the command line to memory, `Disassembler` from a word to its line,
`SubroutineGraph` from code to blocks, and `GekkoTranslator` from words, through five
passes, to the IR.

What makes each part correct:

* command line and image: what runs is what was written; memory shows the file and
  nothing else; the save routines found are there;
* decoder: its lists agree with the printer's tables and with what later passes take
  out of them by position; they fit their vectors;
* mutators: the two copies of every edge agree; a detached vertex is isolated;
  insert_after changes no path;
* builder: block heads unique, extents disjoint, every block reachable, the edges
  those of the code, every reachable instruction covered, termination;
* traversals and dominators: each vertex visited once and in order; the computed
  tree is the dominator tree of the definition;
* interval tree: a search tree, balanced, whose caches are those of the
  set of intervals; queries answer as the set would;
* liveness: the least fixpoint of its equations, whatever the order;
* stack and prologue: each slot once, with all that use it; exactly the instructions of
  the frame are left out;
* binding and translator: every operand has one temporary, values keep theirs, the IR
  reads nothing unwritten, and the program stops only where it is known to.

The hazards behind these are listed in `PROJECT.json`, each at its line.

## Modules

| Module | Models |
|---|---|
| `Lists` | what is left of a sequence when entries are dropped by position |
| `FlowGraph` | a graph as a value and each mutator as an operator on it; paths, mirror property |
| `FlowGraphCalls` | every sequence of mutator calls a client may make |
| `Gekko` | the routine under analysis: one instruction per word, reduced to where control goes next |
| `CodeReach` | abstract specification: find the instructions control can reach, in any order, and stop |
| `SubroutineGraph` | run_graph_analysis; implements `CodeReach` |
| `GraphTraversal` | preorder, preorder_pathacc and postorder over one graph |
| `Dominators` | lengauer_tarjan on the preorder of `GraphTraversal`, in either direction, and `dominates` |
| `IntervalSet` | abstract specification: a set of disjoint intervals |
| `IntervalTree` | dinterval_tree's insertion with its rotations, and its query; implements `IntervalSet` |
| `RegisterLiveness` | run_liveness_analysis for one register class |
| `RegisterBinding` | the temporaries of the IR, composed with `RegisterLiveness`, whose result they are made of |
| `BinInst` | the fields of an instruction word, and the sources and destinations they stand for |
| `PpcDisasm` | disasm_single: what a word does, by the decoder's tables |
| `Disassembler` | the loop decode-and-print, with the printer's own tables |
| `SubroutineStack` | the stack of a routine as a value, and what one instruction adds to it |
| `Perilogue` | run_stack_analysis and run_perilogue_analysis on decoded routines, behind `RegisterLiveness` |
| `GekkoTranslator` | the IR of a routine, behind `RegisterBinding` and `Perilogue` |
| `Characters` | the hexadecimal digits, as patterns and numbers on the command line have them |
| `Image` | DolData, ElfData, SectionedData, PatternScan and BinaryContext: from a file to memory |
| `LaunchCommand` | exec_command: from an argument list to a command with its parameters and options |
| `Commands` | the five commands, on `LaunchCommand` and `Image` |
| `FlowGraphProofs`, `FlowGraphCallsProofs`, `GraphTraversalProofs`, `SubroutineGraphProofs`, `GekkoTranslatorProofs`, `PpcDisasmProofs`, `CommandsProofs`, `DisassemblerProofs` | theorems; `GekkoTranslatorProofs` is about all passes behind the graph |
| `MC*` | values for the constants of the runs |

**FlowGraph.** `gr.out[v]`, `gr.in[v]` and `gr.detached[v]` are the fields of vertex
`v`; vertices 0 and 1 are the pseudo vertices the constructor makes; `gr.size` is the
index the next vertex gets. Mutators are operators so that the builder can call
several in one step, as the code does. `Detach` erases all entries naming the vertex
where the code erases one per edge: the two agree while `Mirror` holds, which the run
shows and `EdgesAlwaysConsistent` proves. `SubstitutePair` keeps the code's single
`inlist`; `EmplaceLinks` says at once what its loop of `emplace_link` leaves.

**SubroutineGraph.** One step is one iteration of the scan loop; the second
`handle_branch` of a conditional branch (`BranchFalse`) and each vertex of the closing
`foreach_real` (`FinishBlock`) are steps of their own. `pc` is the place in the
function: `pop` (line 70), `scan` (the top of the inner loop), `bcFalse` (line 119),
`finish` (line 136), `done`. `HandleBranch` has one disjunct per outcome of the
lambda. `_instructions` is determined by the extents, and `_nodes_by_range` belongs to
the interval tree; what the tree demands, disjoint extents, is the property `Disjoint`.
`selfSplit` is a history variable: the known defect below occurred. Properties that
the defect breaks are stated for routines without it; the others hold regardless.

Addresses are word numbers. An instruction is one of four kinds, with a target and the
link flag; this is all the builder reads of it. `IsProgram` says that the last word
transfers control unconditionally: the code would otherwise run on through memory.

**GraphTraversal and Dominators.** A traversal is a loop over a stack that may hold a
vertex several times; an iteration that pops a visited vertex is `Skip`, one that calls
the visitor is `Visit`. `parent` is the value `preorder_pathacc` passes down when the
visitor returns its own vertex, as lengauer_tarjan's does. `out` holds the edges of the
direction taken, so the backward variants are the same code on the `_in` lists. The
dominator computation starts where the preorder ended (`Number`) and takes one step per
iteration of its loops over DFS numbers: `Semi` from the last vertex to the second,
`Complete` forward. `Vert` keeps the code's habit of sizing `dfs2vert` by the graph:
past the vertices reached it is zero, and vertex 0 is processed once for each of them.
The union-find structure is modelled by the root of every vertex, since its path
compression changes no answer; `MinVert` walks the tree path below that root, where the
code walks the parents. `w_gr` is what the loops keep of `dfs2vert`, read when `w_dfs`
is set: the last increment of the last loop reads the word past the end of the vector
(`FlowGraph.cc:169`), which holds anything (`Beyond`), and nothing looks at it afterwards;
`DomTypeOK` says so, since an iteration begins at a vertex only while `w_dfs` is in range. `Computable` names the graphs the code is defined for: if an
edge leads from an unreached vertex to a reached one, a number of -1 becomes an index.

**IntervalTree.** Stored intervals are disjoint, so the lower bound names the node and
is the pointer to it. `Accept` or `Reject` is the query at the start of `try_emplace`,
`Descend` one iteration of its search loop (which raises `_st_max` on the way), `Link`
the new node, `Level` and `Rotate` one iteration of `rebalance`. The mapped value is
left out. The threads `_prev` and `_next` are set as the code sets them.

**RegisterLiveness.** Registers are elements of one class; an instruction is what it
reads, what it writes and whether it calls. Cycles 1, 4 and 5, in which no block affects
another, are one step each; the two fixpoint loops take one step per block. The code
visits the blocks of a sweep in depth-first order; here any order is allowed, so what
holds does not depend on it. The operators over the code of one block (`Inputs`, `Held`,
`Pending`, `Unused`) say in closed form what the code's loops over instructions
accumulate in masks.

**RegisterBinding.** `BindNext` first runs the liveness analysis and then
`compute_block_binds` on every real block and the unions of
`collect_block_scope_temps`. A temporary of a block is named by its block, register and
extent, so the numbering, which depends on the visiting order, is left out; `root` is
the representative at the end of each chain of `_parent` (the length of a chain, which
caching shortens, changes no answer). Which member of a group lends its representative
depends on `std::partition`, which is not stable, and is left open. The client binds every real block; whether the
program ever gets there is a question for `GekkoTranslator`.

**BinInst, PpcDisasm, Disassembler.** A word is a record of its fields (`Word`). The
switches of the decoder are tables here, each indexed from a set of rows: a row gives an
operation, its opcode, and the accessors of `BinInst` its case pushes, in order; `Disasm` looks the row up, as the
nested switches do, and builds the `MetaInst`. The computed cases are operators of their
own (`FpscrBits`, `CounterWrite`). The printer's tables are a second set, translated from
`Disassembler.cc` alone. A line is a mnemonic, its letters and a sequence of operands;
spelling and columns are left out. `Fetch`, `Write` and `NewLine` are the turns of the
loop in `linear_dis`.

**SubroutineStack, Perilogue.** The stack is a value, variables by offset within each of
the two regions; one turn of `analyze_block` is `analyze_block_inst`. `Perilogue` composes
it with `RegisterLiveness`, which gets what it sees of an instruction (`View`) from
the decoder's lists: a *text* is a routine assembled from words and decoded. One
instruction is looked at per step, in the entry block and then in every exit. Where the
code dereferences a null pointer, throws or fails an assertion, `fault` says how, and the
behaviour ends. `frame` says which instructions the compiler put there for the frame: the
code does not know, which is what `FrameSeparated` is about.

**GekkoTranslator.** One instruction of the routine per step, `translate_op` on the
stack of `Perilogue` and the temporaries of `RegisterBinding`. An instruction of the IR
is a sequence of an opcode and operands; cases the code leaves empty emit nothing.
Blocks that do not end in `bc` end in an assertion: both outcomes, with and
without assertions, are there (`TranslateOtherEnd`). The first traversal of `translate`
returns on the real vertices (`GekkoTranslator.cc:780`) and takes the data of the root,
which has none: as written, no routine is translated. Its comment has it skip the pseudo
vertices instead. `FirstTest` says which of the two tests the traversal may make:
`TakeDataOfRoot` is the step of the one that is written, `BindStep` of the one that is
meant, and the run has both, so that the passes behind the test are checked as well.

**Image, LaunchCommand, Commands.** A file is what the two formats store: section
headers and cells. `LoadSection` reads one section from the stream, which fails for good
after a short read, as a `std::istream` does; a header the file is too short for holds
anything (`Garbage`). Sections live in a set of disjoint intervals, which is what
`IntervalTree` is shown to implement. An ELF header that is cut off is zeros behind the
cut: the code does not refuse it, and finds no section. A pattern is read a pair of
hexadecimal digits at a time. A number on the command line is what `strtoul` makes of it in
base 0 or 16, blanks, sign, prefix and overflow included; `ULong` is where that overflows
and `Blanks` the characters it skips. The cursor of `LaunchCommand` is an argument and a
position in it; one parameter, or one turn of the mode loop, is one step. `Commands`
puts both behind `sCommands`; a line of a disassembly is one step, and the analyses
inside summarize, testcmd and graphviz, the subject of the other modules, are one.

**Slips.** Definitions commented as "the slip that ..." are the ways the code could
plausibly have been written wrong. Each is there to show that a property notices; the
table `mutants` of `PROJECT.json` pairs them. No specification uses one.

## Runs

| Run | Bounds | Shows |
|---|---|---|
| `graph_calls` | 5 vertices, 3 client edges, 2 transfers | any order of mutator calls keeps edges mirrored, detached vertices isolated (`EdgesConsistent`); insert_after keeps paths |
| `builder` | every routine of 4 words with its entry at the second; 1008 routines of 6 words in which a block is split | type, unique heads, disjoint extents, well-formed and connected graph at every step, calls recorded once (`GraphSound`), and the finished graph is the flow graph of the code; the scan implements `CodeReach`, fairness included, and ends |
| `builder_self_split` | same | *violation*: a block that falls through to its tail still covers it |
| `dominators` | 5 vertices; forward with at most two ways out of a vertex, backward with at most three | the traversals visit everything once and depth first (`VisitsDepthFirst`); semidominators, immediate dominators and `dominates` are those of the paths of the graph (`DominatorsExact`); every call ends |
| `interval_tree` | any insertions of intervals within 0..7 | the tree is ordered, balanced, its caches exact (`TreeWellFormed`), its queries complete; it implements `IntervalSet`; every insertion ends |
| `liveness_cleared` | 6 shapes of three blocks, 6 bodies of one or two instructions, a register of each kind | *violation*: a value set for a call in the next block is cleared |
| `liveness_params` | same | *violation*: an argument overwritten on one path only is not a parameter |
| `binding` | 4 shapes of three blocks with 9 bodies, two registers at a time and an ABI register; 2 more shapes of loops with the bodies of `liveness_cleared` | the fixpoints end and are exact, every use is live, parameters are provided by no block (`LivenessFaithful`); sections agree with summaries; every operand is bound once (`OperandsNamed`); values keep their temporary, and temporaries are the connected components of the block ends, flags included (`ValuesNamed`) |
| `decode` | 64 838 words: every function code, every branch, every shift with mask bounds at either end | the printer's operands and letters are those of the decoder's lists; rotate mnemonics read back; the lists fit, and hold what later passes ask for by position (but for `li` and `lis`, whose base is no register); updating forms add the base; branches count as classified |
| `translation` | 682 assembled routines of one to four blocks: 4 kinds of frame, 4 x 5 x 3 bodies, 4 shapes, every BO, 38 uncommon ones; the first test of `translate` as written and as meant | slots found with all their uses (`RefsExact`); the frame and nothing else is left out (`FrameSeparated`); the program stops only for the reasons listed (`StopsExplained`); the IR reads nothing unwritten; arguments stay apart |
| `commands` | 3 204 command lines of up to three option arguments and 15 ways to write a number; 5 381 DOL and ELF files of seven bytes with up to three sections, overlapping, truncated, headless; 17 356 initial states | memory shows the file; the save routines found are there; a command runs as written; a listing and a graph are what, and where, was asked for |
| `commands_documented` | same | *violation*: a hexadecimal number is not read in base 16 |

Why the bounds are enough: two pseudo and three real vertices hold a split of a vertex
with a self-loop and with parallel edges, and the replacement of a pair with a
neighbour left over. Four words allow forward, backward and self branches, a branch
before the entry, a call, a fall-through into a known block and a split of a finished
block or of the block being scanned. Two splits of the same block need a block of
three words and two branches scanned after it: the longer routines of `builder` fix the
block and leave the branches, and where they lead, open.

Five vertices give the dominator computation a preheader and a region of four blocks:
irreducible loops, a semidominator that is not the immediate dominator, and a deferred
vertex that waits for another deferred one. Forward graphs are taken up to a renaming
of the vertices past the second, which `MCDominators` does by fixing the successor
lists of vertex 1; nothing else tells these vertices apart. Backward graphs have one
to three exits and endless loops, whose vertices the terminal does not reach backward.
Bounds from 0 to 7 allow seven nodes of length one, a full tree of three levels, and
with them each of the four rotations at the root and below it, on either side. Three
blocks hold each kind of loop, a join, two exits and an irreducible loop; registers do
not affect each other, so a routine uses one of them. Binding groups a list by
register, so its routines use two; a temporary can then span all three blocks, and a
union meets sets of several members in either order.

The words of `decode` take every row of every table. Registers differ and agree, fields
that share bits take either value; rotates take all shifts, with masks at both ends of
the word and in the middle, since their mnemonics depend on differences modulo 32. The
texts of `translation` are routines as CodeWarrior lays them out, with stores of
registers one by one, by `stmw` and by the `_savegpr` routine, and the old form that
saves LR first; bodies use saved registers, locals, arguments on the stack, calls and
spills. The liveness sweeps and the unions of the binding run in one order there:
the run `binding` has every order. Seven
bytes hold two sections of three bytes that overlap in the file, in memory, or not; the
patterns are three and two bytes long, so that one fits at the end of a section, across
two, or nowhere. Two option arguments and a third cover every option spelled with its value and
something after it. Numbers of five bits, and of seven in `strtoul`, wrap and overflow
within three digits.

Fairness: `WF_vars(Scan)`. The analysis is one thread and nothing blocks it, so a
step that can be taken is taken. `DomSpec` and `BindSpec` assume the same of
a call that has begun, and stop when it returns, so their runs do not check deadlock.
`IntervalTree` is fair to the steps of an insertion, not to the client who begins one.
`Disassembler` and `Perilogue` state no fairness: their properties are invariants, and
a behaviour that ends in a fault may end anywhere. `Commands` is fair to the program and
stops when it returns.
`FlowGraphCalls` has no fairness and no liveness
property: a client may stop at any time, which is also why its runs do not check
deadlock.

## Findings

Shown by a run each:

* `handle_branch` (`SubroutineGraph.cc:64`) sets the end of the current block after
  `split_blocks` may have cut that very block: the usual shape of a loop whose
  condition is at its end. The top block then covers its tail as well, the branch
  leaves from the top, and the tail looks like an exit of the routine.
* `backpropagate_outputs` (`RegisterLiveness.cc:171`) never asks for the arguments of a
  call: they count as used only when `clear_unused_sections` sweeps the block of the call,
  so what an earlier block computes for it is cleared as dead.
* `find_routine_params` (`RegisterLiveness.cc:258`) leaves out a register as soon as one
  predecessor provides it, although the caller's value arrives by another path.
* `parse_u32_base` (`LaunchCommand.cc:89`) ignores its base, so a parameter the help calls
  "hex uint32" is read as decimal or octal when it has no `0x` (`HexIsBase16`). The property
  of the run, `CommandLineAsDocumented`, has two more parts, which TLC finds violated as
  well when each is checked alone: `-o=x` keeps the `=` that `LaunchCommand.hh:29` calls
  optional (`OptionalEquals`), and `graphviz` without `--out` writes nowhere and returns 0,
  where `DecompMain.cc:54` promises a default path (`DefaultPath`).

Met while translating the code, and named in the properties that would otherwise fail:

* Decoder: the later searches of opcode 4 never run, `search_again` being cleared where
  it should be set (`PpcDisasm.cc:170`, `LaterSearches`); `mcrf` lists its destination as
  its source, and `mcrfs`, `mtfsb0`, `mtfsb1`, `mtfsfi` print a field of FPSCR as one of
  CR (`OtherFields`); `oe` is read from bit 30 (`BinInst.hh:117`); an `ori r0,r0,n`
  with n < 2048 prints as `nop`; `clrlslwi` prints its numbers in the order n, b; `bcctr`
  never lists CTR.
* Prologue: in an exit block that is not the entry, the spill of a callee-saved register
  that was live since the start of the block passes for the caller's save, and is left
  out with its reload (`Perilogue.cc:66`, `Spills`). The old form of a prologue
  (`mflr`, `stw`, `stwu`) records the slot of LR under one offset and looks it up under
  another, so its restore is not recognised (`SavedEarly`). Before a call of a save routine
  the base of an `li r11` is taken for a register, which throws (`Perilogue.cc:107`), and
  such a call as first instruction of its block has nothing before it (line 104).
* Stack: a slot used before the frame is allocated is recorded in one region and looked
  up in the other; `variable_for_offset` then returns null (`SubroutineStack.cc:153`,
  `UsedEarly`), as it does for offsets below the frame.
* Dominators: the last turn of `lengauer_tarjan`'s last loop reads past the end of
  `dfs2vert` (`FlowGraph.cc:169`, `Beyond`), on every call.
* Translator: the first traversal of `translate` skips the real vertices and throws at
  the root (`GekkoTranslator.cc:780`, `TakeDataOfRoot`, the first reason of `StopsExplained`); `lis` throws (line 269); a block that does not end
  in `bc` meets an assertion (line 742); a load through a parameter's temporary becomes a
  move (line 294); a register that is found to be a parameter in two blocks without a common
  predecessor has two temporaries, and `_int_param` keeps the last (line 756, `FoundApart`);
  `blr` returns r3 and r4 whenever both have a temporary.
* Command line: a missing value at the end of the line is read through a null pointer
  (`LaunchCommand.cc:144`).
* Producers: the size check of a file without a header passes, the position of the
  failed stream being -1 (`DolData.cc:102`); the results of `read` and `add_section` are
  not looked at.

## Proofs

TLAPS checks the following for every length `N` of the routine, every entry and every
set of routines `Programs`. The assumptions are `EntryAssumption` (`N` is a natural
number, `Entry` is a word of the routine) and `ProgramsAssumption` (every routine ends
in an unconditional transfer).

| Theorem | States |
|---|---|
| `InductiveInvariant` | `Spec => []IInv` |
| `TypeCorrect` | `Spec => []TypeOK` |
| `ScansOnce` | `Spec => []ScannedOnce` |
| `ExtentsDisjoint` | `Spec => []Disjoint` |
| `ImplementsReachSafely` | `Spec => Reach!SafeSpec`: the refinement of `CodeReach` without its fairness |
| `GraphAlwaysSound` | `Spec => []GraphSound` |
| `GraphIsTheCode` | `Spec => []FlowFaithful` |

`GekkoTranslatorProofs` is about the passes from the graph to the IR. Of the liveness
analysis it proves, for every set of registers and blocks, every set of routines over
them and every order of visits, from `RegSetAssumption` (calls do not kill the registers
they return values in) and `RoutinesAssumption`:

| Theorem | States |
|---|---|
| `TypeCorrect` | `Spec => []TypeOK` |
| `SectionsAlwaysAgree` | `Spec => []SectionsAgree` |
| `NothingTakenBack` | `Spec => NeverTakenBack` |
| `LoopsFollowPaths` | `Spec => [](LivenessExact /\ ParamsNeverProvided)` |
| `UsesAlwaysLive` | `Spec => []UsesAreLive`, a conjunct of `LivenessFaithful` |
| `AnalysisFaithful` | `Spec => []LivenessFaithful` |

of the binding, with one more assumption, `AbiRegsAssumption` (the ABI registers are
registers), for every order in which blocks are bound and groups united:

| Theorem | States |
|---|---|
| `OperandsAlwaysNamed` | `BindSpec => []OperandsNamed` |
| `ValuesAlwaysNamed` | `BindSpec => []ValuesNamed` |

and of the passes together, for every set of texts, from `TextsAssumption` (every
instruction of a text is what `Disasm` makes of a word, and its operands are among the
registers) and `ParametersAssumption` (arguments come in r3 to r10, which is also what
`_int_param` has room for), and `FirstTestAssumption` (the first traversal returns on the
real vertices, on the pseudo ones, or may do either):

| Theorem | States |
|---|---|
| `StackAlwaysExact` | `TranslatorSpec => []RefsExact` |
| `StopsAlwaysExplained` | `TranslatorSpec => []StopsExplained` |
| `ParamsAlwaysApart` | `TranslatorSpec => []ParamsApart` |

`FlowGraphCallsProofs` is about every sequence of calls of the mutators, for any bounds
`MaxVertices` and `MaxEdges`, from `TransfersAssumption`:

| Theorem | States |
|---|---|
| `EdgesAlwaysConsistent` | `Spec => []EdgesConsistent` |
| `SplitsKeepPaths` | `Spec => InsertAfterKeepsPaths` |

`GraphTraversalProofs` is about every call of preorder and postorder, on any finite set
of vertices and any graphs over it, from `TraversalAssumption` (a start and a list of
targets per vertex) and `DominatorsAssumption` (vertices are numbered from 0, there are at
least two, and the word past a vector holds something):

| Theorem | States |
|---|---|
| `TraversalsDepthFirst` | `DomSpec => []VisitsDepthFirst` |
| `PathNeverLengthened` | `DomSpec => []TravTypeOK` |

`CommandsProofs` is about every command line and every file of `Argvs`, `DolFiles` and
`ElfFiles`: argument lists of any length over any characters, files with any number of
headers, bytes and overlaps, any patterns. It starts from `CommandsAssumption` (the table
of commands is that of `DecompMain.cc`, files have the type of their format, the empty
path cannot be opened for writing), `ImageAssumption` (what an unread header may hold has
the type of a header, `None` is not a number) and `PatternAssumption` (a pattern
compiles to at least one byte and to no more than a save routine has). `AlwaysRunAsWritten`
leaves out what the finding is about: command lines with a hexadecimal number that is
another one in base 0 (`Misread`), and `-o=x`:

| Theorem | States |
|---|---|
| `MemoryAlwaysShowsTheFile` | `Spec => []MemoryShowsTheFile` |
| `AbiRoutinesAreAlwaysFound` | `Spec => []AbiRoutinesAreFound` |
| `AlwaysRunAsWritten` | `Spec => []RunAsWritten` |
| `ListingAlwaysShowsTheFile` | `Spec => []ListingShowsTheFile` |
| `GraphAlwaysGoesWhereAsked` | `Spec => []GraphGoesWhereAsked` |

`DisassemblerProofs` is about every set of words, from `WordsAssumption` (a word has the
fields of a word):

| Theorem | States |
|---|---|
| `CapacityAlwaysKept` | `Spec => []CapacityKept` |
| `PositionsAlwaysAgreed` | `Spec => []PositionsAgreed` |
| `CountersAlwaysAgree` | `Spec => []CountersAgree` |
| `UpdatesAlwaysAddTheBase` | `Spec => []UpdatesAddTheBase` |
| `SuffixAlwaysShowsFlags` | `Spec => []SuffixShowsFlags` |
| `RotatesAlwaysReadBack` | `Spec => []RotatesReadBack` |

*Why an inductive invariant.* `TypeOK` and `ScannedOnce` are not inductive. That the
block being scanned is in no queue does not say that splitting leaves queued blocks
alone, and a queued block that could be split would be scanned twice. `IInv` adds what
the code relies on: `NonEmpty` (no block is empty), `QueuedOneWord` (a queued block is
one word long, so no address is strictly inside it and no branch splits it), `AtScan`
(where the block being scanned ends, as a function of `pc`) and `StackDone`.

*How a branch is handled.* `HandleBranchEffect` reduces `HandleBranch` to three effects
on the blocks, `Linked`, `Split` and `Added`, and forgets the graph beyond its type,
which `FlowGraphProofs` provides for each mutator (`InsertAfterType`,
`EmplaceLinkType`, ...). One lemma per effect says what it keeps, and one per action
that the action keeps `IInv`.

*Disjointness* (`ApartInv`) is inductive relative to `IInv`. The argument is that a word
about to be scanned is in no other block: a block that starts there is noticed by
`AtOtherHead`, and one that starts before would already overlap the block being scanned,
because it would hold the word before too.

*The refinement.* `ExploredInv` says that the successors of every covered word have been
seen, unless the word is queued, has just been popped or its branch is half done. Each
step then either leaves the code seen alone (`Quiet`) or adds one successor of the word
being scanned (`Grows`), and at the end nothing is pending, so everything is closed
under successors. Note that this holds even after the self-split defect: it loses
edges, not code.

*The graph.* `FlowGraphProofs` says what each mutator does to the lists of every vertex
(`EmplaceLinkLists`, `MovedLists`, ...). From that it proves that `EmplaceVertex`,
`EmplaceLink` and `InsertAfter` keep a mirrored graph mirrored, for graphs of any size
and with parallel edges and self-loops; the entries of a list are counted with
`Cardinality`, so that one more entry is one more position. Reachability is stated
without paths: a block is reachable if it is in every set that is closed under
successors and holds those of the root (`Rooted`), and a mutator that closes no path cannot
take a block out of all of them. `GraphInv` adds `Rooted` to the well-formedness of the
graph.

*Detached vertices.* The inductive invariant of `FlowGraphCalls` is `Consistent`: the
graph is well-typed and mirrored, and a detached vertex has empty lists. That nobody
names one is not part of it, it follows (`BareIsolated`): an entry that names it would be
counted in its own lists too. `detach` and `substitute_pair_existing` choose entries out
of lists, which `Pick` does by position: the entries have ranks (`NthOfSet`), so a chosen
entry is counted as often as it was (`CountPick`). The neighbours that substitution links
to the new vertex are attached because an attached vertex named them
(`NeighboursAttached`). For the paths, a closed set of the old graph is one of the new if
the inserted vertex is added when `before` may pass through it, and the other way round
if it is taken out (`InsertAfterPaths`).

*Traversals.* A vertex may be on the stack several times, put there by different
vertices, and the entry that is popped first need not be the first pushed. That the order
is depth first all the same rests on two facts about the stack: every edge from a vertex
visited to one not visited has its entry (`Pending`), and the vertices that the entries
come from are ancestors of each other, from the bottom up (`Chained`). So when a vertex is
visited, all visited vertices with an edge to it are its ancestors (`EdgesFromAbove`),
which is `PreInv`. In postorder an entry's depth names the vertex of the path it comes
from (`DepthInv`), and what is cut off the path has no entry left, hence no edge to a
vertex not visited (`VisitPost`); an edge from it leads up the path or to a vertex handed
over before (`HandedDone`). `Ancestors` walks up the tree; the proofs use `Above`, the
sets closed under the parent, and `AncestorsAreAbove` shows the two equal on a tree
without a circle (`Grounded`).

*Calls.* `CallInv` counts the calls recorded against the calls in the words scanned so
far: those covered by a block, without the one word of a queued block and the next word
of the one being scanned. It needs that a word about to be scanned is in no other block.
`ApartInv` says so only until a block is split under the scan; `FreshApart` says it of
the blocks queued or being scanned alone, and for these it survives the split. This is
why calls are counted right even where edges are lost.

*Edges.* `FlowInv` gives every block that is neither queued nor being scanned the edges
of its last instruction (`Flows`), a block being scanned none or, between the two halves
of a conditional branch, the first of two. A split (`OutSplit`) hands the edges of the
original to its tail, whose last instruction they belong to, and leaves a fall-through
behind: right because no instruction inside a block ends it (`Straight`). The one block
for which this fails is the one being scanned, whose new edge goes to its top: the finding
about `FallthroughAdjacent`, and the reason why `FlowIInv` begins with `selfSplit`.

*Liveness.* Sections and summaries are computed separately, once per instruction and once
per block, and nothing in the loops compares them. `Summary` says what each set of a block
is in terms of its code and of `Passed`, the registers it was made to pass on: these are
neither overwritten nor used first, and guesses and outputs together are what the block
holds at its end. `Sections` says that until they are cleared, sections are `LiveAfter`
of the code and the passed registers. Cycle 4 then clears, at the ends of a block,
exactly the guesses nobody took up (`UnusedAtEnd`), which leaves the inputs and the
outputs. `Rising` (what a block passes on only grows with what its predecessors hold)
makes the first loop monotone.

*The loops and the paths.* `Reached` is the least set that holds its start and is closed
under its edges. Each loop is bounded from both sides by it. Nothing outside is ever
added (`CarriedOnly`: what a block holds comes to it along a path; `WantedOnly`: what is
an input or an output is wanted on a path), and when a loop ends, the last sweep having
changed nothing, the set computed is closed itself (`ForwardSettled`, `BackwardSettled`),
so it holds all of `Reached`. While a sweep goes on, the two say this of the blocks it has
visited, as long as it has changed nothing. `CarriedAll` hands the result of the first
loop on to the second; together they are `FixInv`.

*Binding.* `Cleared` keeps what `Sections` said after cycle 4 too. The last instruction
before a read that touches the register decides: a kill is the exception of
`OperandsBound`, a use or a definition holds the register (`Held`), and if there is none
it is an input; what is read is never in the mask that is cleared (`ReadsLive`).
`Extent` says where a temporary lies: its register is live between its instructions
(`RegionLive`, from the last place where it is not), not live before its first one
unless the block starts there, and not after its last one unless the block ends there.
Two such pieces of one register that overlap are the same (`ExtentsApart`), and the
first place after a live one where the register is dead closes a region that covers it
(`LiveCovered`). `Bound` says that the temporaries are those of the blocks bound so far,
so the unions do not disturb any of this; `OneTemp` puts it together. Least and greatest
elements take the place of induction over the instructions.

*Names of values.* The unions consume the lists while they go, so no list can be
compared with the ones before. `ListsShrink` says what remains true: temporaries of one
register that meet the end of one block leave its list together, and have one root when
they are gone. `RootsConnected` bounds the unions from the other side: a root is
connected, over ends of blocks, with every member of its set. `FlagsFit` carries both
directions for the flags of parameters and results, which are gathered at roots that may be
united later. When all lists are empty (`AllUnited`), one root and connected are
the same.

*The stack.* What one instruction refers to (`InstRefs`) is a set of offset, address and
kind, and a stack `Shows` a set of references if its two regions are those offsets,
divided by its size, each with its references. `ReferShows` says that one more reference
is shown by one more call of `Refer`. The difficulty is the size, which changes on the
way and with it the border between the regions. Without `UsedEarly` everything referred to
before an allocation is at offset 4 or below, in the variables under every size, so what
was shown before is shown after (`Sized`), and the new size is in force when the
references of the same instruction are entered. `PassInv` says this of the places before
`at` (`Seen`); `SizeIsFrame` identifies the size at the end with that of the last
allocation.

*Why the program stops.* `TInv` joins `PassInv` with the invariants of liveness and
binding, which the translator's one order of steps inherits because each of its
steps is one of theirs (`TranslatorBinds`), and with `PassesInOrder`: no pass
starts before the one whose results it takes is over. The operators of the translator
are not steps, so the proof is about values: an operand is `Sound` if it is not a stop or
is one that is explained here, and a list of IR instructions is `Fine` if its stop is.
`OperandSound` is where the analyses meet: a slot has been recorded (`SlotFound`, from
`StackAlwaysExact`), a register has its temporary (`RegisterFound`, from
`OperandsAlwaysNamed` and `OperandViewed`, which says that the liveness analysis saw
every register the decoder lists). That the operand taken by position is of the kind
asked for comes from `PpcDisasmProofs` (`InstructionPlaced`, `FollowsRow`), which
`DisassemblerProofs` and this module share. One lemma per case of `translate_ppc_inst`
puts them together; `RootStops` is the stop at the root, before any of this. `StopsExplained` is then inductive relative to `TInv`: after a fault
nothing moves (`StopsStay`).

*Parameters.* Numbers on the stack are ranks, so two of them are equal only for equal offsets
(`StackParamsApart`), which needs finitely many parameters (`FewParams`, an invariant of its
own since counting is about finite sets), and they start above the last register
(`IntParamsBelow`). A temporary flagged as a parameter begins where one is found
(`ParamTempFrom`), with its register an input there (`ParamStartLive`); two blocks without a
common predecessor are the only way not to be united (`RegisterParamsApart`).

*The image.* `ImageInv` follows the loading, section by section. `All` is what there is to
read and `Done` how much of it has been read; every region comes from one header read so
far (`RegionsFromFile`), regions are disjoint (`RegionsApart`), and as long as nothing was
lost every header kept among the first `Done` has its region (`NothingLost`). Memory then
shows the file because a read is answered only where one region covers the whole range,
and disjoint regions leave no choice (`ReadWithin`, `ReadOutside`). For the truncated files
a byte is what the file has at its place, or a zero. `Scanned` names the result of the two
scans as a function of the memory they read, which later steps leave alone; that the
address found is the first match rests on the least element of a set of positions.

*The command line.* `ParserInv` says for every place of the cursor what has been
understood. In front of the options it is position by position: the parameters taken are
the values of the arguments passed (`Taken`, `InParams`). Behind them `Rest` is what is
left, and `AtHeader` and `AtOption` say which of the two ways of writing an option is being
read and how far. `OneOption` carries the promise of `RunAsWritten` along: if what is left
of the line when the options begin is one spelling of one option, then the parser is
before it or has taken its value. The cursor only moves forward, inside an argument or to the next one,
so an argument is never read twice. `Listing` and `Returned` then say of the commands
what their output is so far. The two halves do not disturb each other, the parser
writing nothing of the image and the image nothing of the parser; `Parsing`, `Loading`
and the commands each keep the half of the others by the names they leave unchanged.

*The decoder.* Nothing about a table of a hundred rows should need a hundred cases at
every use. For each set of rows a *shape* lists, per group of rows with equal lists, which
operations have which codes, operands and flags (`MoveShape`, `BitShape`, ...), and one
lemma per set shows that its rows have it (`MoveRow`, ...). `RowOfShape` hands the shape
of the right table on to the row a word selects, or says that there is none, and everything
about a word follows from its shape. `LoopInvariant` says what the loop keeps: an
instruction is what some word decodes to (`Decoded`), a line printed is the line of that
instruction (`Printed`). `UpdatesAlwaysAddTheBase` needs that the row of the plain form
exists, one opcode below or 32 below (`Twins`); `SuffixAlwaysShowsFlags` compares the two
lists of operations operation by operation (`Lettered`); `RotatesAlwaysReadBack` goes
through the mnemonics of `guess_rlwinm`, each with the case split on shift and mask its
condition makes, and the wrap modulo 32 is linear arithmetic in each.

Only model-checked: termination and the fairness of the refinement (TLAPS does not
reason about them); what is computed by recursion over data (`TreeWellFormed`,
`QueryExact`, `DominatorsExact`), because no induction principle can be instantiated;
`FrameSeparated` and `IrReadsAreWritten`, which are about the routines a compiler writes
and not about all of them (which of their instructions belong to the frame is known only
of the texts of the run); and `LineNamesOperands`, which relates two sets of tables row by row. The inductive
invariants were found with TLC, on the instances of the runs `builder`, `binding`,
 `graph_calls`, `dominators`, `decode`, `translation` and `commands`.

## Not modelled

Of the modelled parts: `generate_between` and `preorder_until` (nothing calls the first,
and it alone calls the second); `copy_shape` and `copy_shape_generator`, used by no code
that compiles; `query_min` and `iterate`, which nothing calls, and `cut_emplace_below`,
which does not compile when it is used; the three register classes side by side, which
share no state but the loop; `BinaryContext::create_raw`, which has no caller; option
types no command declares (numbers and flags, and with them the branches of `parse_opt`
for them); an ELF section table that ends inside a header; sections without a byte.

The listing of sources (`write_inst_info`) and the IR printer are formatting. Of the
translator, floating point and condition registers are other instances of the binding
and are not composed: conditions are named by their field. The structurizers and the HLL
classes are unfinished in the repository, no command reaches them, and the largest of
them does not compile; how they call the graph decided which calls `FlowGraphCalls`
allows. `elf.h` is vendored.
