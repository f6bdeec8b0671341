------------------------- MODULE MCGekkoTranslator -------------------------
(* Routines as a compiler lays them out, assembled word for word: a prologue, *)
(* bodies of one or three blocks and the epilogue that goes with it.          *)
EXTENDS GekkoTranslator

MCReg == {0, 1, 2, 3, 4, 5, 11, 30, 31}
MCAbiRegs == {1, 2}
MCReturnSet == {3, 4}
MCParameterSet == {3, 4, 5}
MCKilledByCall == {0, 5, 11}
MCBlock == 1 .. 4
MCSaveGpr == 4096
MCRestGpr == 8192
MCFirstTest == {"is_real", "is_pseudo"}

-----------------------------------------------------------------------------
(* The assembler. The offset of a branch is its target until it is placed. *)

X(opcd, d, a, b, ext) == [opcd |-> opcd, d |-> d, a |-> a, b |-> b, ext |-> ext, rc |-> 0]

D(opcd, d, a, n) ==
    LET u == n % 65536
    IN  [opcd |-> opcd, d |-> d, a |-> a, b |-> u \div 2048, ext |-> (u \div 2) % 1024,
         rc |-> u % 2]

addic(r, a, n) == D(12, r, a, n)
addi(r, a, n) == D(14, r, a, n)
load(r, n) == addi(r, 0, n)
lwz(r, n) == D(32, r, 1, n)
stw(r, n) == D(36, r, 1, n)
stwu(n) == D(37, 1, 1, n)
lmw(r, n) == D(46, r, 1, n)
stmw(r, n) == D(47, r, 1, n)
cmpwi(a) == D(11, 0, a, 0)
bl(target) == D(18, 0, 0, target + 1)
bc(bo) == D(16, bo, 2, 0)
mr(r, s) == X(31, s, r, s, 444)
add(r, a, b) == X(31, r, a, b, 266)
mflr == X(31, 0, 8, 0, 339)
mtlr == X(31, 0, 8, 0, 467)
sync == X(31, 0, 0, 0, 598)
blr == X(19, 20, 0, 0, 16)

-----------------------------------------------------------------------------
(* Texts: per block a sequence of <<word, is it the frame's>> *)

Frame(ws) == [k \in DOMAIN ws |-> <<ws[k], TRUE>>]
Body(ws) == [k \in DOMAIN ws |-> <<ws[k], FALSE>>]

Starts(blocks) ==
    [b \in MCBlock |-> 4 * FoldLeft(LAMBDA n, c : n + Len(c), 0, SubSeq(blocks, 1, b - 1))]

Placed(w, va, third) ==
    IF w.opcd = 18 THEN D(18, 0, 0, Low(w) - va)
    ELSE IF w.opcd = 16 THEN D(16, w.d, w.a, third - va) ELSE w

Text(shape, blocks) ==
    LET all == blocks \o [i \in 1 .. 4 - Len(blocks) |-> Body(<<sync>>)]
        start == Starts(all)
        inst(item, va) == Disasm(va, Placed(item[1], va, start[3]))
    IN  [code |-> [b \in MCBlock |-> [k \in DOMAIN all[b] |->
                                          inst(all[b][k], start[b] + 4 * (k - 1))]],
         succ |-> shape, entry |-> 1, used |-> 1 .. Len(blocks),
         frame |-> UNION {{<<b, k>> : k \in {j \in DOMAIN all[b] : all[b][j][2]}} : b \in MCBlock}]

Straight == <<{}, {}, {}, {}>>
Around == <<{2, 3}, {3}, {}, {}>>
TwoExits == <<{2, 3}, {}, {}, {}>>
LateExit == <<{2, 3}, {}, {4}, {}>>

-----------------------------------------------------------------------------
(* Ways to build and to take down a frame of 32 bytes that keeps r30 and r31 *)

SaveLR == <<stwu(-32), mflr, stw(0, 36)>>
RestoreLR == <<lwz(0, 36), mtlr, addi(1, 1, 32)>>

Frames ==
    {[pro |-> SaveLR \o <<stw(31, 28), stw(30, 24)>>,
      epi |-> <<lwz(31, 28), lwz(30, 24)>> \o RestoreLR],
     [pro |-> SaveLR \o <<stmw(30, 24)>>, epi |-> <<lmw(30, 24)>> \o RestoreLR],
     [pro |-> SaveLR \o <<addi(11, 1, 32), bl(MCSaveGpr + 64)>>,
      epi |-> <<addi(11, 1, 32), bl(MCRestGpr + 64)>> \o RestoreLR],
     \* LR is saved before the frame is there.
     [pro |-> <<mflr, stw(0, 4), stwu(-32), stw(31, 28), stw(30, 24)>>,
      epi |-> <<lwz(31, 28), lwz(30, 24)>> \o RestoreLR]}

\* What a routine does in its frame.
Firsts ==
    {<<mr(31, 3), mr(30, 4)>>,
     <<mr(31, 3), stw(31, 8), load(0, 5), stw(0, 12), lwz(30, 8)>>,
     <<load(0, 5), stw(0, 8), lwz(31, 40), lwz(30, 44)>>,
     <<lwz(31, 44), addi(30, 1, 40), add(31, 31, 5)>>}
Seconds ==
    {<<mr(3, 31)>>, <<bl(12288), mr(31, 3), mr(3, 30)>>, <<addi(3, 1, 8), bl(12288), add(3, 3, 31)>>,
     <<stw(31, 8), load(3, 1), bl(12288), lwz(31, 8), mr(3, 31)>>, <<addi(31, 31, 1), add(3, 31, 30)>>}
Thirds == {<<mr(3, 31)>>, <<stw(31, 16), lwz(0, 44), addic(4, 0, 3), lwz(3, 16)>>, <<add(3, 30, 31)>>}

Ended(f, ws) == Body(ws) \o Frame(f.epi) \o Body(<<blr>>)
Asking(bo) == Body(<<cmpwi(31), bc(bo)>>)

Branching(f, b, bo) == Frame(f.pro) \o Body(b) \o Asking(bo)

Compiled ==
    {Text(Straight, <<Frame(f.pro) \o Body(b) \o Ended(f, c)>>) :
        f \in Frames, b \in Firsts, c \in Seconds}
    \cup {Text(Around, <<Branching(f, b, 12), Body(c), Ended(f, d)>>) :
             f \in Frames, b \in Firsts, c \in Seconds, d \in Thirds}
    \cup {Text(TwoExits, <<Branching(f, b, 4), Ended(f, c), Ended(f, d)>>) :
             f \in Frames, b \in Firsts, c \in Seconds, d \in Thirds}
    \cup {Text(Around, <<Branching(f, <<mr(31, 3)>>, bo), Body(<<mr(3, 31)>>), Ended(f, <<mr(30, 3)>>)>>) :
             f \in Frames, bo \in 0 .. 20}

\* Routines that name what the analyses do not look for. A call of _savegpr is the
\* frame's wherever its register comes from, as are a frame that comes late and
\* the address of the register area.
Odd(ws) ==
    [k \in DOMAIN ws |-> <<ws[k], \/ ws[k].opcd \in {18, 37}
                                  \/ ws[k] \in {addi(11, 1, n) : n \in {-8, 8}}>>]
Uncommon ==
    {Text(Straight, <<Odd(ws \o <<blr>>)>>) : ws \in
        {<<lwz(3, -8)>>, <<stw(3, -8), lwz(4, -8)>>, <<D(15, 3, 0, 1)>>, <<D(15, 3, 4, 1)>>,
         <<mr(3, 1)>>, <<D(11, 1, 3, 0)>>, <<D(10, 0, 3, 9)>>, <<bl(MCSaveGpr + 64)>>, <<load(11, 8), bl(MCSaveGpr + 64)>>,
         <<addi(11, 3, 8), bl(MCSaveGpr + 64)>>, <<addi(5, 1, 8), bl(MCSaveGpr + 64)>>,
         <<mr(11, 3), bl(MCSaveGpr + 64)>>, <<addi(11, 1, -8), bl(MCSaveGpr + 64)>>,
         <<addi(11, 1, 8), bl(MCSaveGpr + 64), stwu(-32)>>, <<lwz(4, 8), stwu(-32)>>,
         <<X(31, 3, 3, 4, 138)>>, <<X(31, 3, 4, 0, 202)>>, <<X(31, 3, 4, 0, 234)>>,
         <<[X(19, 20, 0, 0, 528) EXCEPT !.rc = 1]>>,
         <<[X(31, 3, 3, 4, 266) EXCEPT !.rc = 1]>>, <<[mr(3, 4) EXCEPT !.rc = 1]>>,
         <<X(31, 3, 3, 4, 444), D(34, 3, 3, 0), D(38, 3, 4, 2), D(36, 5, 4, 4)>>}}
    \cup {Text(Straight, <<Body(ws \o <<blr>>)>>) : ws \in
        {<<X(19, 20, 0, 0, 528)>>, <<bl(12288), mr(3, 5)>>, <<D(32, 3, 2, 8)>>, <<D(32, 3, 2, -8)>>,
         <<stw(3, -(2 ^ 15))>>, <<D(56, 1, 1, 12), lwz(3, 16)>>, <<mr(1, 3), lwz(3, 8)>>,
         <<addic(3, 1, 8), lwz(4, 8)>>, <<D(13, 3, 1, 8)>>, <<D(32, 3, 4, -8)>>,
         <<D(37, 3, 1, -32), lwz(4, 40)>>}}
    \cup {Text(Straight, <<Odd(ws \o <<blr>>)>>) : ws \in
        {<<stwu(-4), stwu(-32), lwz(3, 40), D(60, 1, 1, 8), lwz(4, 12)>>, <<stwu(8), lwz(3, 16)>>,
         <<D(37, 1, 3, -32), lwz(4, 8)>>, <<D(33, 4, 1, 8), lwz(4, 12)>>}}

\* r3 is found to be a parameter in two blocks without a predecessor in common.
Twice ==
    Text(LateExit, <<Body(<<cmpwi(4), bc(12)>>), Body(<<mr(31, 3), blr>>),
                     Body(<<load(30, 1), bc(12)>>), Body(<<add(3, 3, 30), blr>>)>>)

MCTexts == Compiled \cup Uncommon \cup {Twice}
MCRoutines == {RoutineOf(t) : t \in MCTexts}
=============================================================================
