---------------------------- MODULE LaunchCommand ----------------------------
(***************************************************************************)
(* exec_command: the argument list is matched against the commands and     *)
(* parsed with a cursor into the current argument and a mode, one          *)
(* parameter or one turn of the loop per step; a command is run with the   *)
(* parameters and options it got, or not at all.                           *)
(*                                                                         *)
(* An argument is a sequence of characters; `args` are those after the     *)
(* command's name.  The cursor is an argument's number and how many of its *)
(* characters are behind; past the last argument it is the null pointer.   *)
(***************************************************************************)
EXTENDS Characters, Sequences, FiniteSets, SequencesExt

CONSTANTS cmd_list,   \* the commands: [name, params, opts]
          U32,        \* 2^32 in the code
          ULong,      \* ULONG_MAX + 1
          Blanks      \* the characters isspace knows

VARIABLES command,    \* the name given, "" when there is none
          args,
          curs,       \* [arg, at]
          parse_mode, \* "Start", "Params", "Header", "Longopt", "Shortopt"
          parsed_args, parsed_opts,
          outcome     \* "parsing", "run", "usage", "help", "error" or "crash"

parser == <<command, args, curs, parse_mode, parsed_args, parsed_opts, outcome>>

Cmd == CHOOSE c \in Range(cmd_list) : c.name = command

\* The number that the digits stand for.
Positional(digits, radix) ==
    LET value[n \in 0 .. Len(digits)] ==
          IF n = 0 THEN 0 ELSE radix * value[n - 1] + HexDigit[digits[n]]
    IN  value[Len(digits)]

\* strtoul of the C library in base 0 or 16: blanks, a sign, a prefix and digits,
\* and the greatest number for all that are too great; NoNumber when it stops
\* before the end of str, which it does at once when it finds no digit
NoNumber == -1
strtoul(str, base) ==
    LET first == SelectInSeq(str, LAMBDA c : c \notin Blanks)
        text == IF first = 0 THEN <<>> ELSE SubSeq(str, first, Len(str))
        signed == text # <<>> /\ Head(text) \in {"+", "-"}
        number == IF signed THEN Tail(text) ELSE text
        hex == Len(number) >= 3 /\ number[1] = "0" /\ number[2] \in {"x", "X"}
        octal == base = 0 /\ ~hex /\ number # <<>> /\ number[1] = "0"
        digits == IF hex THEN SubSeq(number, 3, Len(number)) ELSE number
        radix == IF hex \/ base = 16 THEN 16 ELSE IF octal THEN 8 ELSE 10
        proper == \A c \in Range(digits) : c \in DOMAIN HexDigit /\ HexDigit[c] < radix
        value == Positional(digits, radix)
    IN  IF str = <<>> THEN 0
        ELSE IF digits = <<>> \/ ~proper THEN NoNumber
        ELSE IF value >= ULong THEN ULong - 1
        ELSE IF signed /\ Head(text) = "-" THEN (ULong - value) % ULong
        ELSE value

\* The cast to uint32_t of what strtoul gives
AsU32(number) == IF number = NoNumber THEN NoNumber ELSE number % U32

\* The base is read off the number, whatever base the caller names
parse_u32_base(str, base) == AsU32(strtoul(str, 0))

AtEnd(c) == c.arg > Len(args)
At(c) == SubSeq(args[c.arg], c.at + 1, Len(args[c.arg]))
Nxt(c) == [arg |-> c.arg + 1, at |-> 0]
Ahead(c, n) == [c EXCEPT !.at = @ + n]

Named(opt) == {o \in Range(Cmd.opts) : o.opt = opt}
ShortNamed(c) == {o \in Range(Cmd.opts) : o.shortopt = c}

IsHelp(arg) == arg \in {<<"-", "h">>, <<"-", "-", "h", "e", "l", "p">>}

ParserInit == /\ curs = [arg |-> 1, at |-> 0] /\ parse_mode = "Start"
              /\ parsed_args = <<>> /\ parsed_opts = <<>>
              /\ outcome = "parsing"

Quit(why) == outcome' = why /\ UNCHANGED <<command, args, curs, parse_mode, parsed_args, parsed_opts>>

\* Nothing is parsed when help is asked for anywhere, or the command unknown
Dispatch ==
    /\ outcome = "parsing" /\ parse_mode = "Start"
    /\ \/ /\ command = "" /\ Quit("usage")
       \/ /\ command \in {"-h", "--help"} /\ Quit("help")
       \/ /\ command \notin {"", "-h", "--help"}
          /\ IF \A c \in Range(cmd_list) : c.name # command THEN Quit("usage")
             ELSE IF \E i \in DOMAIN args : IsHelp(args[i]) THEN Quit("help")
             ELSE /\ parse_mode' = "Params"
                  /\ UNCHANGED <<command, args, curs, parsed_args, parsed_opts, outcome>>

Number == parse_u32_base(At(curs), 16)

\* parse_argv's loop over the parameters, with parse_arg
ParseParam ==
    /\ outcome = "parsing" /\ parse_mode = "Params"
    /\ Len(parsed_args) < Len(Cmd.params)
    /\ LET type == Cmd.params[Len(parsed_args) + 1]
       IN  IF AtEnd(curs) \/ (type # "kPath" /\ Number = NoNumber)
           THEN Quit("error")
           ELSE /\ parsed_args' = Append(parsed_args, IF type = "kPath" THEN At(curs) ELSE Number)
                /\ curs' = Nxt(curs)
                /\ UNCHANGED <<command, args, parse_mode, parsed_opts, outcome>>

StartOptions ==
    /\ outcome = "parsing" /\ parse_mode = "Params"
    /\ Len(parsed_args) = Len(Cmd.params)
    /\ parse_mode' = "Header"
    /\ UNCHANGED <<command, args, curs, parsed_args, parsed_opts, outcome>>

InOptions == outcome = "parsing" /\ parse_mode \in {"Header", "Longopt", "Shortopt"}

\* The loop ends when the cursor is past the last argument
EndOptions == InOptions /\ AtEnd(curs) /\ Quit("run")

Header ==
    /\ InOptions /\ parse_mode = "Header" /\ ~AtEnd(curs)
    /\ LET str == At(curs)
           dashes == IF IsPrefix(<<"-", "-">>, str) THEN 2
                     ELSE IF IsPrefix(<<"-">>, str) THEN 1 ELSE 0
       IN  IF dashes = 0 THEN Quit("error")
           ELSE /\ curs' = Ahead(curs, dashes)
                /\ parse_mode' = IF dashes = 2 THEN "Longopt" ELSE "Shortopt"
                /\ UNCHANGED <<command, args, parsed_args, parsed_opts, outcome>>

\* parse_opt with the cursor at the option's value.  A boolean takes none; the
\* others read through the cursor, null or not.
ParseOpt(desc, val) ==
    LET value == IF desc.type = "kPath" THEN At(val) ELSE parse_u32_base(At(val), 16)
    IN  IF desc.type # "kBoolean" /\ AtEnd(val) THEN Quit("crash")
        ELSE IF desc.type \in {"kU32", "kU32Hex"} /\ value = NoNumber THEN Quit("error")
        ELSE /\ parsed_opts' = Append(parsed_opts,
                  [opt |-> desc.opt, val |-> IF desc.type = "kBoolean" THEN TRUE ELSE value])
             /\ curs' = IF desc.type = "kBoolean" THEN val ELSE Nxt(val)
             /\ UNCHANGED <<command, args, parse_mode, parsed_args, outcome>>

\* The value is behind the first =, or the next argument.  The mode stays.
Longopt ==
    /\ InOptions /\ parse_mode = "Longopt" /\ ~AtEnd(curs)
    /\ LET str == At(curs)
           split == SelectInSeq(str, LAMBDA c : c = "=")
           name == IF split = 0 THEN str ELSE SubSeq(str, 1, split - 1)
           val == IF split = 0 THEN Nxt(curs) ELSE Ahead(curs, split)
       IN  IF Named(name) = {} THEN Quit("error")
           ELSE ParseOpt(CHOOSE o \in Named(name) : TRUE, val)

\* The slip that never looks for the value in the next argument.
AfterShortInPlace(c) == Ahead(c, 1)

\* One character, then its value, at once or in the next argument
AfterShort(c) == IF Len(At(c)) = 1 THEN Nxt(c) ELSE Ahead(c, 1)
Shortopt ==
    /\ InOptions /\ parse_mode = "Shortopt" /\ ~AtEnd(curs)
    /\ IF At(curs) = <<>> \/ ShortNamed(Head(At(curs))) = {} THEN Quit("error")
       ELSE ParseOpt(CHOOSE o \in ShortNamed(Head(At(curs))) : TRUE, AfterShort(curs))

Parse == \/ Dispatch \/ ParseParam \/ StartOptions \/ EndOptions
         \/ Header \/ Longopt \/ Shortopt

\* The slip that asks for the default first.
DefaultOption(opt) == (CHOOSE o \in Named(opt) : TRUE).default

\* option: the first one parsed, or the default
Option(opt) ==
    LET given == SelectInSeq(parsed_opts, LAMBDA o : o.opt = opt)
    IN  IF given # 0 THEN parsed_opts[given].val
        ELSE (CHOOSE o \in Named(opt) : TRUE).default
=============================================================================
