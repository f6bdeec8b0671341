------------------------------- MODULE Commands -------------------------------
(***************************************************************************)
(* The program: a command line is parsed (LaunchCommand), the binary it    *)
(* names is loaded (Image), and the command reads it.  The passes testcmd, *)
(* summarize and graphviz run on the image are the other modules' subject; *)
(* here they are one step.  One line of a disassembly is one step.         *)
(***************************************************************************)
EXTENDS LaunchCommand, Image

CONSTANTS Readable, Writable,   \* the paths that can be opened
          TestElf,              \* the file testcmd reads, "test.elf"
          WordSize,             \* 4
          DefaultDot(_),        \* '<cwd>/<DOL name>_<address>.dot' for an argument list
          Argvs, DolFiles, ElfFiles     \* what the program is given

VARIABLES exit_code,  \* None until the command returns
          lines,      \* what was printed
          dotfile     \* the path a graph was written to

vars == <<parser, image, exit_code, lines, dotfile>>

OutOption == [opt |-> <<"o", "u", "t">>, shortopt |-> "o", type |-> "kPath", default |-> <<>>]

sCommands ==
    <<[name |-> "testcmd", params |-> <<>>, opts |-> <<>>],
      [name |-> "summarize", params |-> <<"kPath", "kU32Hex">>, opts |-> <<>>],
      [name |-> "graphviz", params |-> <<"kPath", "kU32Hex">>, opts |-> <<OutOption>>],
      [name |-> "sections", params |-> <<"kPath">>, opts |-> <<>>],
      [name |-> "dis", params |-> <<"kPath", "kU32Hex", "kU32">>, opts |-> <<>>]>>

ASSUME CommandsAssumption ==
    /\ cmd_list = sCommands
    /\ U32 \in Nat \ {0} /\ ULong \in Nat \ {0} /\ WordSize \in Nat \ {0}
    /\ Argvs \subseteq [command : STRING, args : Seq(Seq(STRING))]
    /\ DolFiles \subseteq DolFile /\ ElfFiles \subseteq ElfFile
    /\ <<>> \notin Writable       \* no file has the empty path

\* testcmd reads an ELF file, the others a DOL
Given(argvs, dols, elfs) ==
    /\ \E argv \in argvs : command = argv.command /\ args = argv.args
    /\ file \in IF command = "testcmd" THEN elfs ELSE dols

Init == /\ Given(Argvs, DolFiles, ElfFiles)
        /\ ParserInit /\ ImageInit
        /\ exit_code = None /\ lines = <<>> /\ dotfile = None

Return(code) == exit_code' = code /\ UNCHANGED <<parser, image>>

Parsing == Parse /\ UNCHANGED <<image, exit_code, lines, dotfile>>

\* A command line that is not run ends the program
NotRun == /\ outcome \notin {"parsing", "run"} /\ exit_code = None
          /\ Return(CASE outcome = "help" -> 0
                      [] outcome \in {"usage", "error"} -> 1
                      [] outcome = "crash" -> 139)
          /\ UNCHANGED <<lines, dotfile>>

Running == outcome = "run" /\ exit_code = None
Path == IF command = "testcmd" THEN TestElf ELSE parsed_args[1]
Opens == Path \in Readable

Loading == /\ Running /\ Opens
           /\ \/ LoadDol \/ LoadElf \/ LoadSection \/ EndSections
              \/ command # "sections" /\ DiscoverAbi
           /\ UNCHANGED <<parser, exit_code, lines, dotfile>>

CannotLoad == /\ Running
              /\ ~Opens \/ loading = "refused"
              /\ Return(1) /\ UNCHANGED <<lines, dotfile>>

\* print_sections, which needs no routine but the headers
PrintSections ==
    /\ Running /\ command = "sections" /\ loading = "scan"
    /\ lines' = [k \in 1 .. Len(text_sections) + Len(data_sections) |->
                   LET h == (text_sections \o data_sections)[k]
                   IN  <<h.va, h.va + h.size, h.off, h.off + h.size, h.size>>]
    /\ Return(0) /\ UNCHANGED dotfile

\* linear_dis: the count of lines is turned into a signed int
LineCount == LET n == parsed_args[3] IN IF n < U32 \div 2 THEN n ELSE n - U32

DisassembleLine ==
    /\ Running /\ command = "dis" /\ loading = "loaded"
    /\ IF Len(lines) < LineCount
       THEN /\ LET address == (parsed_args[2] + WordSize * Len(lines)) % U32
               IN  lines' = Append(lines, <<address, Read(address, WordSize)>>)
            /\ UNCHANGED <<parser, image, exit_code>>
       ELSE UNCHANGED lines /\ Return(0)
    /\ UNCHANGED dotfile

\* dump_dotfile: a path that cannot be opened is reported, and then written to
DumpDotfile ==
    /\ Running /\ command = "graphviz" /\ loading = "loaded"
    /\ LET dot_path == Option(<<"o", "u", "t">>)
       IN  dotfile' = IF dot_path \in Writable THEN dot_path ELSE None
    /\ Return(0) /\ UNCHANGED lines

Summarize == /\ Running /\ command \in {"summarize", "testcmd"} /\ loading = "loaded"
             /\ Return(0) /\ UNCHANGED <<lines, dotfile>>

Next == \/ Parsing \/ NotRun \/ Loading \/ CannotLoad
        \/ PrintSections \/ DisassembleLine \/ DumpDotfile \/ Summarize

Spec == Init /\ [][Next]_vars /\ WF_vars(Next)

-----------------------------------------------------------------------------
KnownCommand == \E c \in Range(cmd_list) : c.name = command
HelpAsked == \E i \in DOMAIN args : IsHelp(args[i])

Dash == <<"-">>
\* The arguments behind the parameters
Behind == SubSeq(args, Len(Cmd.params) + 1, Len(args))
\* The ends of these: what can be the value of an option
Values == UNION {Suffixes(a) : a \in Range(Behind)}

\* The ways to write an option with a value, but for -o=v: the code takes the =
\* for a part of the value (OptionalEquals)
Written(o, v) == {<<Dash \o <<o.shortopt>>, v>>,
                  <<Dash \o Dash \o o.opt, v>>,
                  <<Dash \o Dash \o o.opt \o <<"=">> \o v>>}
                 \cup (IF v = <<>> \/ Head(v) = "=" THEN {}
                       ELSE {<<Dash \o <<o.shortopt>> \o v>>})

\* The number an argument stands for, by the type the help gives its parameter
Base(type) == IF type = "kU32Hex" THEN 16 ELSE 0
Meant(type, str) == IF type = "kPath" THEN str ELSE AsU32(strtoul(str, Base(type)))

\* A hexadecimal number that is another one in base 0, or none: without its 0x,
\* all but the smallest (HexIsBase16)
Misread == \E i \in DOMAIN Cmd.params \cap DOMAIN args :
             /\ Cmd.params[i] = "kU32Hex"
             /\ Meant("kU32Hex", args[i]) # Meant("kU32", args[i])

\* A command is run exactly as it was written: one that is run has each of its
\* parameters, in order and with the number meant; a command line with good
\* parameters and no option, or one option with a value in any of its spellings,
\* is run with that value; and only an option that ends the command line can be
\* missing its value.  Not so for the two that the code reads otherwise than the
\* help and the header say: hexadecimal numbers in another base, and -o=v.
\* (src/utl/LaunchCommand.cc:176-254, LaunchCommand.hh:26-30)
RunAsWritten ==
    outcome \notin {"parsing", "usage", "help"} =>
      LET params == Cmd.params
          Value(i) == Meant(params[i], args[i])
          good == /\ Len(args) >= Len(params)
                  /\ \A i \in DOMAIN params : params[i] # "kPath" => Value(i) # NoNumber
      IN  /\ ~Misread =>
               /\ outcome = "run" => good /\ parsed_args = [i \in DOMAIN params |-> Value(i)]
               /\ good /\ Behind = <<>> => outcome = "run" /\ parsed_opts = <<>>
               /\ \A o \in Range(Cmd.opts) : \A v \in Values :
                    good /\ Behind \in Written(o, v) =>
                      outcome = "run" /\ parsed_opts = <<[opt |-> o.opt, val |-> v]>>
          /\ outcome = "crash" => \E o \in Range(Cmd.opts) :
               Last(args) \in {Dash \o <<o.shortopt>>, Dash \o Dash \o o.opt,
                             <<o.shortopt>>, o.opt}

\* A disassembly shows the words asked for, as the file holds them: line i is
\* the word at the address i-1 words after the one given, read from the section
\* whose header covers it, and zero where none does.
\* (src/Commands.cc:302-335, src/producers/SectionedData.cc:8-25)
ListingShowsTheFile ==
    exit_code = 0 /\ command = "dis" /\ outcome = "run" /\ Sound =>
      /\ Len(lines) = IF parsed_args[3] < U32 \div 2 THEN parsed_args[3] ELSE 0
      /\ \A i \in DOMAIN lines :
           LET address == (parsed_args[2] + WordSize * (i - 1)) % U32
               over == {h \in Range(Sections) : Covers(h, address, WordSize)}
           IN  lines[i] = <<address, IF over = {} THEN Zeros(WordSize)
                                     ELSE InFile(CHOOSE h \in over : TRUE, address, WordSize)>>

\* A graph is written where the command line says: to the path of the option, in
\* any spelling the code and LaunchCommand.hh agree on, when that can be written,
\* and nowhere else or before the command has come to its end.  (What no option
\* means is DefaultPath.)  (src/Commands.cc:220-224, src/utl/LaunchCommand.cc:263-276)
GraphGoesWhereAsked ==
    /\ dotfile # None => command = "graphviz" /\ exit_code = 0 /\ loading = "loaded"
    /\ command = "graphviz" /\ exit_code = 0 /\ outcome = "run" =>
         \A v \in Values :
           Behind \in Written(OutOption, v) =>
             dotfile = IF v \in Writable THEN v ELSE None

-----------------------------------------------------------------------------
(* What the help and the header say of the command line. *)

\* "hex uint32" (src/utl/LaunchCommand.cc:39), for which the caller passes 16
\* (:124): a hexadecimal parameter is read in base 16.
HexIsBase16 ==
    outcome = "run" => \A i \in DOMAIN Cmd.params :
      Cmd.params[i] = "kU32Hex" => parsed_args[i] = Meant("kU32Hex", args[i])

\* "followed by the param value (with an optional =)"
\* (src/utl/LaunchCommand.hh:29): the = of -o=v is not part of the value.
OptionalEquals ==
    outcome = "run" => \A o \in Range(Cmd.opts) : \A v \in Values :
      Behind = <<Dash \o <<o.shortopt, "=">> \o v>> =>
        parsed_opts = <<[opt |-> o.opt, val |-> v]>>

\* "If not provided, it will be written to '<cwd>/<DOL name>_<address>.dot'"
\* (src/DecompMain.cc:54): without --out a graph is written to that path.
DefaultPath ==
    command = "graphviz" /\ exit_code = 0 /\ outcome = "run" /\ Behind = <<>> =>
      dotfile = IF DefaultDot(args) \in Writable THEN DefaultDot(args) ELSE None

\* The command line means what the program says of it.  None of the three holds.
CommandLineAsDocumented == HexIsBase16 /\ OptionalEquals /\ DefaultPath
=============================================================================
