--------------------------- MODULE MCDisassembler ---------------------------
(* Every opcode; every function code; the fields that a property looks into. *)
EXTENDS Disassembler

W(opcds, ds, as, bs, exts) ==
    [opcd : opcds, d : ds, a : as, b : bs, ext : exts, rc : 0 .. 1]

\* The opcodes with a function code, with registers that differ and ones that agree.
Extended == W({4, 19, 31, 59, 63}, {1, 3}, {1, 4}, {3}, 0 .. 1023)

\* The others, with r0 and r1, displacements of either sign and either value of bit 21.
Plain == W((0 .. 63) \ {4, 19, 20, 21, 31, 59, 63}, {0, 1, 3, 20}, {0, 1, 9}, {0, 5, 31},
           {0, 4, 511, 512, 1023})

\* Every way to branch, back and forth.
Branches == W({16, 18}, 0 .. 31, {2, 5, 30}, {0, 31}, 0 .. 3)
Returns == W({19}, 0 .. 31, {2, 5}, {0}, {16, 528})

\* Every shift with the mask bounds near either end and in the middle.
Ends == {0, 1, 2, 7, 8, 15, 16, 17, 23, 24, 29, 30, 31}
Rotates == W({20, 21, 23}, {3}, {4}, 0 .. 31, {32 * mb + me : mb \in Ends, me \in Ends})

MCWords == UNION {Extended, Plain, Branches, Returns, Rotates}
=============================================================================
