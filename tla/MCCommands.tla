------------------------------ MODULE MCCommands ------------------------------
(***************************************************************************)
(* Files of seven bytes with two text sections and a data section, over    *)
(* addresses in which 2 .. 9 is where a section may begin; every command   *)
(* line of the commands with up to two options on one file.  The two       *)
(* patterns are short ones of the kind the program has.  Numbers have five *)
(* bits, and seven in strtoul.                                             *)
(***************************************************************************)
EXTENDS Commands

SavePattern == <<"0", "1", " ", "z", "z", " ", "1", "0">>
RestPattern == <<"1", "1", " ", "?", "?">>

ASSUME PatternRead ==
    compile_pattern(<<"9", "1", " ", "?", "?", " ", "f", "F", " ", "?", "0">>) = <<145, None, 255>>

Bin == <<"f">>
Missing == <<"n">>
Test == <<"t">>
Dot == <<"d">>
Paths == {Bin, Test}
Default(a) == <<"f", "_", "2", ".", "d", "o", "t">>
Writables == {Dot, <<"=", "d">>, Default(<<>>)}
MCBlanks == {" "}

Cells == <<1, 16, 17, 0, 17, 2, 16>>
H(o, v, s) == [off |-> o, va |-> v, size |-> s]
Zero == H(0, 0, 0)

Headers == {H(o, v, s) : o \in {0, 1, 3}, v \in {2, 3, 5, 8}, s \in {2, 3}}
Odd == {Zero, H(7, 4, 2), H(0, 1, 2), H(0, 10, 2), H(5, 4, 3)}

Dol(text, data, bss) ==
    [format |-> "dol", whole |-> TRUE, cells |-> Cells,
     header |-> [text |-> text, data |-> data, bss |-> bss, entry |-> 3]]
Bss == [va |-> 9, size |-> 0]

LoadFiles ==
    {Dol(<<t1, t2>>, <<d>>, Bss) :
       t1 \in Headers, t2 \in Headers \cup Odd, d \in {Zero, H(2, 4, 3), H(6, 8, 2), H(4, 7, 2)}}
    \cup {Dol(<<H(0, 2, 3)>>, <<H(3, 5, 2)>>, b) : b \in {[va |-> 1, size |-> 0], [va |-> 2, size |-> 3]}}
Headless == {[format |-> "dol", whole |-> FALSE, cells |-> <<>>,
              header |-> [text |-> <<>>, data |-> <<>>, bss |-> Bss, entry |-> 0]]}
Unwritten == {[text |-> <<t>>, data |-> <<>>, bss |-> Bss] : t \in {H(1, 2, 2), H(1, 1, 2), Zero}}
DolSet == LoadFiles \cup Headless

E(kind, o, v, s, alloc) == [off |-> o, va |-> v, size |-> s, kind |-> kind, alloc |-> alloc]
EHeaders == {E(k, o, v, s, TRUE) : k \in {"text", "data", "other"}, o \in {1, 5}, v \in {0, 2, 4}, s \in {2, 3}}
ElfSet == {[format |-> "elf", whole |-> w, cells |-> IF w THEN Cells ELSE SubSeq(Cells, 1, 4),
            header |-> [shdrs |-> <<a, b, c>>, entry |-> 2]] :
             w \in {TRUE, FALSE}, a \in EHeaders, b \in EHeaders,
             c \in {E("data", 2, 6, 2, FALSE)}}
          \cup {[format |-> "other", whole |-> w, cells |-> IF w THEN Cells ELSE <<>>,
                 header |-> [shdrs |-> <<>>, entry |-> 0]] : w \in {TRUE, FALSE}}

Arg(c, a) == [command |-> c, args |-> a]
Simple == {Arg("testcmd", <<>>), Arg("sections", <<Bin>>), Arg("graphviz", <<Bin, <<"2">>>>),
           Arg("dis", <<Bin, <<"1">>, <<"3">>>>)}
Pieces == {<<"-", "o">>, <<"-", "-", "o", "u", "t">>, Dot, Missing, <<"o">>, <<"o", "u", "t">>, <<"-", "h">>,
           <<"-", "o", "d">>, <<"-", "o", "=", "d">>, <<"-", "-", "o", "u", "t", "=", "d">>,
           <<"-", "-", "o", "u", "t", "=">>, <<>>, <<"-">>, <<"-", "-", "x">>}
Lists(S) == {<<>>} \cup {<<a>> : a \in S} \cup {<<a, b>> : a \in S, b \in S}
                   \cup {<<a, b, c>> : a \in S, b \in S, c \in S}
Numbers == {<<"2">>, <<"0", "x", "1", "3">>, <<"0", "1", "1">>, <<"0", "8">>, <<>>, <<"x">>,
            <<"1", "2">>, <<"a">>, <<"0", "X", "f", "F">>, <<" ", "+", "4">>, <<"-", "1">>,
            <<"9", "9", "9">>, <<"-", "0", "x", "1", "f">>, <<" ">>, <<"0", "x">>}
Parsed == {Arg("graphviz", <<Bin, n>> \o l) : n \in {<<"2">>}, l \in Lists(Pieces)}
          \cup {Arg("graphviz", <<Missing, <<"2">>>>), Arg("graphviz", <<Bin>>), Arg("", <<>>),
                Arg("--help", <<>>), Arg("what", <<Bin>>), Arg("testcmd", <<Bin>>)}
          \cup {Arg("dis", <<Bin, a, n>>) : a \in Numbers, n \in Numbers}
          \cup {Arg("summarize", <<Bin, a>>) : a \in Numbers}

\* Every file is loaded, and every command line read, but not each with each
FewFiles == {Dol(<<H(0, 2, 3), H(3, 5, 2)>>, <<H(4, 8, 2)>>, Bss)} \cup Headless
FewElfs == {f \in ElfSet : f.format = "other"}

MCInit == /\ Given(Simple, DolSet, ElfSet) \/ Given(Parsed, FewFiles, FewElfs)
          /\ ParserInit /\ ImageInit
          /\ exit_code = None /\ lines = <<>> /\ dotfile = None
MCSpec == MCInit /\ [][Next]_vars /\ WF_vars(Next)

ArgvSet == Simple \cup Parsed
=============================================================================
