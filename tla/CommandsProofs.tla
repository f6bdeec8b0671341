---------------------------- MODULE CommandsProofs ----------------------------
(***************************************************************************)
(* What TLAPS proves of the program around the analyses, for every binary, *)
(* every command line and every address: memory shows the file, the save   *)
(* routines are found, a command is run as it was written, a listing shows *)
(* the file and a graph goes where it was asked for.                       *)
(*                                                                         *)
(* The image and the command line have an invariant each; neither of the   *)
(* two writes the other's variables.                                       *)
(***************************************************************************)
EXTENDS Commands, FlowGraphProofs, WellFoundedInduction

-----------------------------------------------------------------------------
(* The invariant of the image *)

\* The headers the loader goes through, in order, of a file it does not refuse,
\* and which of them it fills a section for.
All == IF file.format = "elf" THEN file.header.shdrs ELSE Sections
Kept(h) == file.format = "elf" => Held(h)

Done == Len(All) - Len(pending)

\* A section as the file holds it.
RegionOf(h) == [base |-> h.va, data |-> [i \in 1 .. h.size |-> file.cells[h.off + i]]]

Begun == loading \in {"sections", "scan", "loaded"}

ImageTypeOK ==
    /\ file \in DolFile \cup ElfFile
    /\ stream \in BOOLEAN
    /\ loading \in {"closed", "sections", "scan", "loaded", "refused"}
    /\ pending \in Seq(SectionHeader)
    /\ text_sections \in Seq(Place) /\ data_sections \in Seq(Place)
    /\ \A s \in regions : /\ s.base \in Nat /\ s.data \in Seq(Byte)
                          /\ s = [base |-> s.base, data |-> s.data]

\* What is known of the file once its header is accepted.
Accepted ==
    /\ ~Begun => regions = {}
    /\ Begun => /\ file.format # "other"
                /\ stream => file.whole
    /\ loading \in {"scan", "loaded"} => pending = <<>>

\* No address is in two sections.
RegionsApart ==
    \A s, t \in regions, a \in Int : Covering(s, a) /\ Covering(t, a) => s = t

\* A section is all zeros, or one header says where its bytes come from.
RegionFrom(s, h) ==
    /\ s.base = h.va /\ Len(s.data) = h.size
    /\ \A i \in 1 .. h.size :
         s.data[i] # 0 => h.off + i <= Len(file.cells) /\ s.data[i] = file.cells[h.off + i]
RegionsFromFile ==
    \A s \in regions : \/ \A i \in 1 .. Len(s.data) : s.data[i] = 0
                       \/ \E k \in DOMAIN Sections : RegionFrom(s, Sections[k])

\* The headers still to be read are the last of those the file has.
Progress ==
    Begun /\ file.whole =>
        /\ Len(pending) <= Len(All)
        /\ pending = SubSeq(All, Done + 1, Len(All))

\* Nothing is lost as long as nothing can be: every section gone through stands
\* in memory as in the file, and the text sections are listed.
NothingLost ==
    Begun /\ Sound =>
        /\ stream
        /\ regions = {RegionOf(All[k]) : k \in {k \in 1 .. Done : Kept(All[k])}}
        /\ \A k \in 1 .. (IF file.format = "elf" THEN Done ELSE Len(All)) :
             Kept(All[k]) /\ All[k].kind = "text" =>
               \E j \in DOMAIN text_sections : text_sections[j].va = All[k].va

\* The routines recorded are those a scan of the finished image gives.
Scanned ==
    loading = "loaded" =>
        abi_conf = [save |-> pattern_scan_code(kSaveGprPattern),
                    rest |-> pattern_scan_code(kRestGprPattern)]

ImageInv == /\ ImageTypeOK /\ Accepted /\ RegionsApart /\ RegionsFromFile
            /\ Progress /\ NothingLost /\ Scanned

-----------------------------------------------------------------------------
(* The invariant of the command line *)

Params == Cmd.params
Rest == SubSeq(args, Len(Params) + 1, Len(args))

\* The characters of a command line.  (To the provers a literal such as "-" is
\* not known to be a string.)
Char == STRING \cup {"-", "=", "o", "u", "t"}

\* What the parameter at position i was written as, read off the command line.
ValueAt(i) == IF Params[i] = "kPath" THEN args[i] ELSE parse_u32_base(args[i], 16)
Good == /\ Len(args) >= Len(Params)
        /\ \A i \in DOMAIN Params : Params[i] # "kPath" => ValueAt(i) # NoNumber

ParserTypeOK ==
    /\ command \in STRING /\ args \in Seq(Seq(Char))
    /\ curs \in [arg : 1 .. Len(args) + 1, at : Nat]
    /\ ~AtEnd(curs) => curs.at <= Len(args[curs.arg])
    /\ AtEnd(curs) => curs.at = 0
    /\ parse_mode \in {"Start", "Params", "Header", "Longopt", "Shortopt"}
    /\ outcome \in {"parsing", "run", "usage", "help", "error", "crash"}

\* Before the parameters, among them, and behind them.
AtStart ==
    parse_mode = "Start" => /\ outcome \in {"parsing", "usage", "help"}
                            /\ curs = [arg |-> 1, at |-> 0]
                            /\ parsed_args = <<>> /\ parsed_opts = <<>>

Taken ==
    parse_mode # "Start" =>
        /\ KnownCommand /\ outcome \in {"parsing", "run", "error", "crash"}
        /\ Len(parsed_args) \in 0 .. Len(Params) /\ Len(parsed_args) <= Len(args)
        /\ parsed_args = [i \in 1 .. Len(parsed_args) |-> ValueAt(i)]
        /\ \A i \in 1 .. Len(parsed_args) : Params[i] # "kPath" => ValueAt(i) # NoNumber

InParams ==
    parse_mode = "Params" => /\ curs = [arg |-> Len(parsed_args) + 1, at |-> 0]
                             /\ parsed_opts = <<>>
                             /\ outcome \in {"parsing", "error"}
                             /\ outcome = "error" => ~Good

BehindParams ==
    parse_mode \in {"Header", "Longopt", "Shortopt"} => Len(parsed_args) = Len(Params)

\* An argument that can begin an option.
Dashed(arg) == arg # <<>> /\ Head(arg) = "-"

AtHeader ==
    parse_mode = "Header" =>
        /\ curs = [arg |-> Len(Params) + 1, at |-> 0]
        /\ parsed_opts = <<>>
        /\ outcome \in {"parsing", "run", "error"}
        /\ outcome = "run" => Len(args) = Len(Params)
        /\ outcome = "error" => Len(args) > Len(Params) /\ ~Dashed(args[Len(Params) + 1])

\* The cursor of an option is at an argument's beginning, or behind its dashes.
Dashes(mode) == IF mode = "Longopt" THEN Dash \o Dash ELSE Dash
AtOption ==
    parse_mode \in {"Longopt", "Shortopt"} =>
        /\ Len(args) > Len(Params)
        /\ ~AtEnd(curs) /\ curs.at # 0 =>
             /\ curs.at = Len(Dashes(parse_mode))
             /\ args[curs.arg] = Dashes(parse_mode) \o At(curs)
        /\ outcome = "crash" =>
             /\ OutOption \in Range(Cmd.opts)
             /\ Last(args) \in {Dash \o <<"o">>, Dash \o Dash \o OutOption.opt, <<"o">>, OutOption.opt}

\* One option, in any of its spellings, is on its way or has been read.
Before(mode) == /\ outcome = "parsing" /\ parsed_opts = <<>>
                /\ curs = [arg |-> Len(Params) + 1, at |-> Len(Dashes(mode))]
                /\ parse_mode = mode
After(v) == /\ outcome \in {"parsing", "run"} /\ AtEnd(curs)
            /\ parsed_opts = <<[opt |-> OutOption.opt, val |-> v]>>

Short(v) == {<<Dash \o <<"o">>, v>>} \cup (IF v = <<>> THEN {} ELSE {<<Dash \o <<"o">> \o v>>})
Long(v) == {<<Dash \o Dash \o OutOption.opt, v>>, <<Dash \o Dash \o OutOption.opt \o <<"=">> \o v>>}

OneOption(v) ==
    parse_mode \in {"Longopt", "Shortopt"} /\ OutOption \in Range(Cmd.opts) =>
        /\ Rest \in Short(v) => Before("Shortopt") \/ After(v)
        /\ Rest \in Long(v) => Before("Longopt") \/ After(v)

ParserInv == /\ ParserTypeOK /\ AtStart /\ Taken /\ InParams /\ BehindParams
             /\ AtHeader /\ AtOption /\ \A v \in Seq(Char) : OneOption(v)

-----------------------------------------------------------------------------
(* The invariant of the commands *)

\* The line at position i, and a disassembly, which prints these.
Line(i) == LET address == (parsed_args[2] + WordSize * (i - 1)) % U32
           IN  <<address, Read(address, WordSize)>>
Listing ==
    command = "dis" /\ lines # <<>> =>
        /\ Len(lines) \in Nat
        /\ loading = "loaded" /\ outcome = "run"
        /\ Len(lines) <= LineCount
        /\ lines = [i \in 1 .. Len(lines) |-> Line(i)]

\* A command that has returned 0 has come to its end.
Returned ==
    /\ exit_code = 0 /\ outcome = "run" =>
         /\ command = "dis" => loading = "loaded" /\ Len(lines) >= LineCount
         /\ command = "graphviz" =>
              /\ loading = "loaded"
              /\ dotfile = LET path == Option(OutOption.opt)
                           IN  IF path \in Writable THEN path ELSE None
    /\ dotfile # None => command = "graphviz" /\ exit_code = 0 /\ loading = "loaded"
    /\ outcome = "parsing" => exit_code = None

CommandsInv == ImageInv /\ ParserInv /\ Listing /\ Returned

-----------------------------------------------------------------------------
(* Lists of headers *)

\* What a selection by position keeps of a list.
LEMMA PickIs ==
    ASSUME NEW S, NEW s \in Seq(S), NEW K \in SUBSET (1 .. Len(s))
    PROVE  /\ Pick(s, K) \in Seq(S)
           /\ \A k \in DOMAIN Pick(s, K) : \E i \in K : Pick(s, K)[k] = s[i]
           /\ \A i \in K : \E k \in DOMAIN Pick(s, K) : Pick(s, K)[k] = s[i]
           /\ \A i, j \in K : i # j =>
                \E k, l \in DOMAIN Pick(s, K) :
                  k # l /\ Pick(s, K)[k] = s[i] /\ Pick(s, K)[l] = s[j]
<1> DEFINE p == Pick(s, K)
           m == Cardinality(K)
<1>1. /\ p \in Seq(S) /\ Len(p) = m /\ m \in Nat
      /\ \A k \in 1 .. m : Nth(K, k) \in K /\ p[k] = s[Nth(K, k)]
    BY PickType
<1>2. DOMAIN p = 1 .. m  BY <1>1, LenProperties
<1>3. Len(s) \in Nat  BY LenProperties
<1>4. \A i \in K : \E k \in 1 .. m : Nth(K, k) = i  BY <1>3, NthOfSet
<1> HIDE DEF p, m
<1>5. \A k \in 1 .. m : \E i \in K : p[k] = s[i]  BY <1>1
<1>6. \A i \in K : \E k \in 1 .. m : p[k] = s[i]  BY <1>1, <1>4
<1>7. ASSUME NEW i \in K, NEW j \in K, i # j
      PROVE  \E k, l \in 1 .. m : k # l /\ p[k] = s[i] /\ p[l] = s[j]
    <2>1. PICK k \in 1 .. m : Nth(K, k) = i  BY <1>4
    <2>2. PICK l \in 1 .. m : Nth(K, l) = j  BY <1>4
    <2>3. k # l  BY <1>7, <2>1, <2>2
    <2> QED  BY <1>1, <2>1, <2>2, <2>3
<1>8. \A k \in DOMAIN p : \E i \in K : p[k] = s[i]  BY <1>2, <1>5
<1>9. \A i \in K : \E k \in DOMAIN p : p[k] = s[i]  BY <1>2, <1>6
<1>10. \A i, j \in K : i # j => \E k, l \in DOMAIN p : k # l /\ p[k] = s[i] /\ p[l] = s[j]
    BY ONLY <1>2, <1>7
<1>11. p \in Seq(S)  BY <1>1
<1> QED  BY ONLY <1>8, <1>9, <1>10, <1>11 DEF p

LEMMA UsedType ==
    ASSUME NEW list \in Seq(Place)
    PROVE  Used(list) \in Seq(Place)
<1> DEFINE K == {k \in 1 .. Len(list) : ~Unused(list[k])}
<1>1. K \in SUBSET (1 .. Len(list))  OBVIOUS
<1> HIDE DEF K
<1>2. Pick(list, K) \in Seq(Place)  BY <1>1, PickIs
<1> QED  BY <1>2 DEF Used, K

LEMMA TaggedType ==
    ASSUME NEW list \in Seq(Place), NEW kind \in {"text", "data"}
    PROVE  /\ Tagged(list, kind) \in Seq(SectionHeader)
           /\ Len(Tagged(list, kind)) = Len(list)
           /\ \A k \in 1 .. Len(list) : /\ Tagged(list, kind)[k].va = list[k].va
                                        /\ Tagged(list, kind)[k].kind = kind
<1> DEFINE n == Len(list)
           t == [i \in 1 .. n |-> [off |-> list[i].off, va |-> list[i].va,
                    size |-> list[i].size, kind |-> kind, alloc |-> TRUE]]
<1>1. n \in Nat /\ DOMAIN list = 1 .. n  BY LenProperties
<1>2. \A i \in 1 .. n : list[i] \in Place  BY <1>1, ElementOfSeq
<1> HIDE DEF n
<1>3. \A i \in 1 .. n : [off |-> list[i].off, va |-> list[i].va,
         size |-> list[i].size, kind |-> kind, alloc |-> TRUE] \in SectionHeader
    BY <1>2 DEF Place, SectionHeader
<1>4. t \in [1 .. n -> SectionHeader]  BY <1>3
<1>5. \A i \in 1 .. n : t[i].va = list[i].va /\ t[i].kind = kind  OBVIOUS
<1>6. Tagged(list, kind) = t  BY <1>1 DEF Tagged
<1> HIDE DEF t
<1>7. t \in Seq(SectionHeader) /\ Len(t) = n
    <2>1. t \in Seq(SectionHeader)  BY <1>1, <1>4
    <2>2. DOMAIN t = 1 .. n  BY <1>4
    <2> QED  BY <1>1, <2>1, <2>2, LenProperties
<1> QED  BY <1>5, <1>6, <1>7 DEF n

\* The fields of a file.
LEMMA FileParts ==
    ASSUME file \in DolFile \cup ElfFile
    PROVE  /\ file.whole \in BOOLEAN /\ file.cells \in Seq(Byte)
           /\ file.format = "dol" => /\ file \in DolFile
                                     /\ file.header.text \in Seq(Place)
                                     /\ file.header.data \in Seq(Place)
           /\ file.format # "dol" => /\ file \in ElfFile
                                     /\ file.format \in {"elf", "other"}
                                     /\ file.header.shdrs \in Seq(SectionHeader)
<1>1. CASE file \in DolFile  BY <1>1 DEF DolFile, DolHeader
<1>2. CASE file \in ElfFile  BY <1>2 DEF ElfFile
<1> QED  BY <1>1, <1>2

\* The sections of a file are the headers that are kept, each for itself.
LEMMA SectionsAreKept ==
    ASSUME file \in DolFile \cup ElfFile, file.format # "other"
    PROVE  /\ All \in Seq(SectionHeader) /\ Sections \in Seq(SectionHeader)
           /\ \A k \in DOMAIN Sections : \E i \in DOMAIN All :
                Kept(All[i]) /\ Sections[k] = All[i]
           /\ \A i \in DOMAIN All : Kept(All[i]) =>
                \E k \in DOMAIN Sections : Sections[k] = All[i]
           /\ \A i, j \in DOMAIN All : i # j /\ Kept(All[i]) /\ Kept(All[j]) =>
                \E k, l \in DOMAIN Sections :
                  k # l /\ Sections[k] = All[i] /\ Sections[l] = All[j]
<1>1. CASE file.format = "elf"
    <2> DEFINE shdrs == file.header.shdrs
               K == {k \in 1 .. Len(shdrs) : Held(shdrs[k])}
    <2>1. shdrs \in Seq(SectionHeader)  BY <1>1, FileParts
    <2>2. K \in SUBSET (1 .. Len(shdrs))  OBVIOUS
    <2>3. All = shdrs  BY <1>1 DEF All
    <2>4. Sections = Pick(shdrs, K)  BY <1>1 DEF Sections
    <2>5. \A i \in 1 .. Len(shdrs) : Kept(shdrs[i]) <=> i \in K  BY <1>1 DEF Kept
    <2>6. DOMAIN shdrs = 1 .. Len(shdrs)  BY <2>1, LenProperties
    <2> HIDE DEF shdrs, K
    <2>7. /\ Pick(shdrs, K) \in Seq(SectionHeader)
          /\ \A k \in DOMAIN Pick(shdrs, K) : \E i \in K : Pick(shdrs, K)[k] = shdrs[i]
          /\ \A i \in K : \E k \in DOMAIN Pick(shdrs, K) : Pick(shdrs, K)[k] = shdrs[i]
          /\ \A i, j \in K : i # j =>
               \E k, l \in DOMAIN Pick(shdrs, K) :
                 k # l /\ Pick(shdrs, K)[k] = shdrs[i] /\ Pick(shdrs, K)[l] = shdrs[j]
        BY <2>1, <2>2, PickIs
    <2>8. ASSUME NEW k \in DOMAIN Sections
          PROVE  \E i \in DOMAIN All : Kept(All[i]) /\ Sections[k] = All[i]
        <3>1. PICK i \in K : Pick(shdrs, K)[k] = shdrs[i]  BY <2>4, <2>7
        <3>2. i \in DOMAIN All /\ Kept(All[i])  BY <2>2, <2>3, <2>5, <2>6
        <3> QED  BY <2>3, <2>4, <3>1, <3>2
    <2>9. \A i \in DOMAIN All : Kept(All[i]) =>
            \E k \in DOMAIN Sections : Sections[k] = All[i]
        BY <2>3, <2>4, <2>5, <2>6, <2>7
    <2>10. ASSUME NEW i \in DOMAIN All, NEW j \in DOMAIN All, i # j, Kept(All[i]), Kept(All[j])
           PROVE  \E k, l \in DOMAIN Sections :
                    k # l /\ Sections[k] = All[i] /\ Sections[l] = All[j]
        BY <2>3, <2>4, <2>5, <2>6, <2>7, <2>10
    <2>11. All \in Seq(SectionHeader) /\ Sections \in Seq(SectionHeader)
        BY <2>1, <2>3, <2>4, <2>7
    <2> QED  BY ONLY <2>8, <2>9, <2>10, <2>11
<1>2. CASE file.format # "elf"
    <2>1. file.format = "dol"  BY <1>2, FileParts
    <2> DEFINE text == Used(file.header.text)
               data == Used(file.header.data)
    <2>2. text \in Seq(Place) /\ data \in Seq(Place)  BY <2>1, FileParts, UsedType
    <2> HIDE DEF text, data
    <2>3. Tagged(text, "text") \in Seq(SectionHeader) /\ Tagged(data, "data") \in Seq(SectionHeader)
        BY <2>2, TaggedType
    <2>4. Sections = Tagged(text, "text") \o Tagged(data, "data")
        BY <1>2 DEF Sections, text, data
    <2>5. Sections \in Seq(SectionHeader)  BY <2>3, <2>4, ConcatProperties
    <2>6. All = Sections  BY <1>2 DEF All
    <2>7. \A h : Kept(h)  BY <1>2 DEF Kept
    <2> QED  BY <2>5, <2>6, <2>7
<1> QED  BY <1>1, <1>2

\* Two sections of a file of which nothing is lost share no address.
Clear(h, g) == h.va + h.size <= g.va \/ g.va + g.size <= h.va

LEMMA SoundHeaders ==
    ASSUME file \in DolFile \cup ElfFile, file.format # "other", Sound
    PROVE  /\ file.whole
           /\ \A i \in DOMAIN All : Kept(All[i]) => EnoughFor(All[i])
           /\ \A i, j \in DOMAIN All :
                i # j /\ Kept(All[i]) /\ Kept(All[j]) => Clear(All[i], All[j])
<1>1. file.whole  BY DEF Sound
<1>2. ASSUME NEW i \in DOMAIN All, Kept(All[i])
      PROVE  EnoughFor(All[i])
    <2>1. PICK k \in DOMAIN Sections : Sections[k] = All[i]  BY <1>2, SectionsAreKept
    <2> QED  BY <2>1 DEF Sound
<1>3. ASSUME NEW i \in DOMAIN All, NEW j \in DOMAIN All, i # j, Kept(All[i]), Kept(All[j])
      PROVE  Clear(All[i], All[j])
    <2>1. PICK k \in DOMAIN Sections, l \in DOMAIN Sections :
             k # l /\ Sections[k] = All[i] /\ Sections[l] = All[j]
        BY <1>3, SectionsAreKept
    <2> QED  BY <2>1 DEF Sound, Clear
<1> QED  BY <1>1, <1>2, <1>3

-----------------------------------------------------------------------------
(* Reading memory *)

LEMMA FunctionIsList ==
    ASSUME NEW S, NEW n \in Nat, NEW f \in [1 .. n -> S]
    PROVE  f \in Seq(S) /\ Len(f) = n
<1>1. f \in Seq(S)  OBVIOUS
<1>2. DOMAIN f = 1 .. n  OBVIOUS
<1> QED  BY <1>1, <1>2, LenProperties

LEMMA SameList ==
    ASSUME NEW S, NEW s \in Seq(S), NEW n \in Nat, NEW f \in [1 .. n -> S],
           Len(s) = n, \A i \in 1 .. n : s[i] = f[i]
    PROVE  s = f
<1>1. f \in Seq(S) /\ Len(f) = n  BY FunctionIsList
<1> QED  BY <1>1, SeqEqual

LEMMA ZerosList ==
    ASSUME NEW n \in Nat
    PROVE  /\ Zeros(n) \in [1 .. n -> Byte] /\ Zeros(n) \in Seq(Byte) /\ Len(Zeros(n)) = n
           /\ \A i \in 1 .. n : Zeros(n)[i] = 0
<1>1. Zeros(n) \in [1 .. n -> Byte] /\ \A i \in 1 .. n : Zeros(n)[i] = 0
    BY DEF Zeros, Byte
<1> QED  BY <1>1, FunctionIsList

LEMMA RegionParts ==
    ASSUME ImageTypeOK, NEW s \in regions
    PROVE  /\ s.base \in Nat /\ s.data \in Seq(Byte) /\ Len(s.data) \in Nat
           /\ DOMAIN s.data = 1 .. Len(s.data)
           /\ \A i \in 1 .. Len(s.data) : s.data[i] \in Byte
           /\ Right(s) = s.base + Len(s.data)
           /\ s = [base |-> s.base, data |-> s.data]
<1>1. s.base \in Nat /\ s.data \in Seq(Byte) /\ s = [base |-> s.base, data |-> s.data]
    BY DEF ImageTypeOK
<1>2. Len(s.data) \in Nat /\ DOMAIN s.data = 1 .. Len(s.data)  BY <1>1, LenProperties
<1>3. \A i \in 1 .. Len(s.data) : s.data[i] \in Byte  BY <1>1, ElementOfSeq
<1> QED  BY <1>1, <1>2, <1>3 DEF Right

\* Whether a range of addresses lies in one section.
Within(s, a, n) == Covering(s, a) /\ Covering(s, a + n - 1)

LEMMA WithinBounds ==
    ASSUME ImageTypeOK, NEW s \in regions, NEW a \in Int, NEW n \in Nat \ {0}, Within(s, a, n)
    PROVE  /\ s.base <= a /\ a + n <= s.base + Len(s.data)
           /\ s \in Query(a, a + n)
<1>1. s.base \in Nat /\ Len(s.data) \in Nat /\ Right(s) = s.base + Len(s.data)
    BY RegionParts
<1>2. a >= s.base /\ a + n - 1 < s.base + Len(s.data)
    BY <1>1 DEF Within, Covering
<1>3. s.base <= a /\ a + n <= s.base + Len(s.data) /\ s.base < a + n /\ a < s.base + Len(s.data)
    BY <1>1, <1>2
<1>4. s \in Query(a, a + n)  BY <1>1, <1>3 DEF Query
<1> QED  BY <1>3, <1>4

\* A read within a section gives the bytes it has there.
LEMMA ReadWithin ==
    ASSUME ImageTypeOK, RegionsApart, NEW s \in regions,
           NEW a \in Int, NEW n \in Nat \ {0}, Within(s, a, n)
    PROVE  /\ Read(a, n) \in Seq(Byte) /\ Len(Read(a, n)) = n
           /\ \A i \in 1 .. n : Read(a, n)[i] = s.data[a - s.base + i]
<1> DEFINE hit == {t \in Query(a, a + n) : Covering(t, a) /\ Covering(t, a + n - 1)}
           x == a - s.base + 1
           y == a - s.base + n
<1>1. hit = {s}
    <2>1. s \in hit  BY WithinBounds DEF Within
    <2>2. ASSUME NEW t \in hit
          PROVE  t = s
        <3>1. t \in regions /\ Covering(t, a)  BY <2>2 DEF Query
        <3>2. Covering(s, a)  BY DEF Within
        <3> QED  BY <3>1, <3>2 DEF RegionsApart
    <2> QED  BY <2>1, <2>2
<1>2. Read(a, n) = SubSeq(s.data, x, y)
    <2>1. (CHOOSE t \in hit : TRUE) = s  BY <1>1
    <2>2. Read(a, n) = IF hit = {} THEN Zeros(n)
                       ELSE LET t == CHOOSE t \in hit : TRUE
                            IN  SubSeq(t.data, a - t.base + 1, a - t.base + n)
        BY DEF Read
    <2> HIDE DEF hit
    <2> QED  BY <1>1, <2>1, <2>2
<1>3. s.base \in Nat /\ Len(s.data) \in Nat /\ \A i \in 1 .. Len(s.data) : s.data[i] \in Byte
    BY RegionParts
<1>4. s.base <= a /\ a + n <= s.base + Len(s.data)  BY WithinBounds
<1>5. x \in Int /\ y \in Int /\ x <= y /\ y - x + 1 = n  BY <1>3
<1>6. \A i \in x .. y : i \in 1 .. Len(s.data)  BY <1>3, <1>4
<1>7. \A i \in 1 .. n : x + i - 1 = a - s.base + i  BY <1>3
<1> HIDE DEF x, y
<1>8. \A i \in x .. y : s.data[i] \in Byte  BY <1>3, <1>6
<1>9. /\ SubSeq(s.data, x, y) \in Seq(Byte) /\ Len(SubSeq(s.data, x, y)) = n
      /\ \A i \in 1 .. n : SubSeq(s.data, x, y)[i] = s.data[x + i - 1]
    BY <1>5, <1>8, SubSeqProperties
<1> QED  BY <1>2, <1>7, <1>9

\* Any other read gives zeros.
LEMMA ReadElsewhere ==
    ASSUME NEW a, NEW n, \A s \in regions : ~Within(s, a, n)
    PROVE  Read(a, n) = Zeros(n)
BY DEF Read, Query, Within

-----------------------------------------------------------------------------
(* The steps of the loader *)

LEMMA FileFixed ==
    ASSUME file' = file
    PROVE  /\ Sections' = Sections /\ All' = All /\ Sound' = Sound
           /\ \A h : Kept(h)' = Kept(h) /\ RegionOf(h)' = RegionOf(h)
           /\ \A s, h : RegionFrom(s, h)' = RegionFrom(s, h)
<1>1. Sections' = Sections  BY DEF Sections
<1>2. All' = All  BY <1>1 DEF All
<1>3. Sound' = Sound  BY <1>1 DEF Sound, EnoughFor
<1>4. \A h : Kept(h)' = Kept(h) /\ RegionOf(h)' = RegionOf(h)
    BY DEF Kept, RegionOf, Held
<1>5. \A s, h : RegionFrom(s, h)' = RegionFrom(s, h)  BY DEF RegionFrom
<1> QED  BY <1>1, <1>2, <1>3, <1>4, <1>5

LEMMA ScanFixed ==
    ASSUME regions' = regions, text_sections' = text_sections
    PROVE  \A text : pattern_scan_code(text)' = pattern_scan_code(text)
<1>1. \A lo, hi : Query(lo, hi)' = Query(lo, hi)  BY DEF Query, Right
<1>2. ASSUME NEW CONSTANT h, NEW CONSTANT cpat
      PROVE  ScanOf(h, cpat)' = ScanOf(h, cpat)
    <2> DEFINE at(there) ==
                 IF there = {} THEN None
                 ELSE LET s == CHOOSE s \in there : TRUE
                          i == pattern_scan_linear(s.data, cpat)
                      IN  IF i = None THEN None ELSE i + s.base
    <2>1. Query(h.va, h.va + 1)' = Query(h.va, h.va + 1)  BY <1>1
    <2>2. ScanOf(h, cpat) = at(Query(h.va, h.va + 1))  BY DEF ScanOf
    <2>3. ScanOf(h, cpat)' = at(Query(h.va, h.va + 1)')  BY DEF ScanOf
    <2> HIDE DEF at
    <2> QED  BY <2>1, <2>2, <2>3
<1>3. ASSUME NEW CONSTANT text
      PROVE  pattern_scan_code(text)' = pattern_scan_code(text)
    <2> DEFINE first(scans) ==
                 IF \A k \in DOMAIN scans : scans[k] = None THEN None
                 ELSE scans[CHOOSE k \in DOMAIN scans :
                              scans[k] # None /\ \A l \in 1 .. k - 1 : scans[l] = None]
               scans == [k \in DOMAIN text_sections |->
                           ScanOf(text_sections[k], compile_pattern(text))]
    <2>1. scans' = scans
        <3> HIDE DEF first
        <3>1. \A k \in DOMAIN text_sections :
                ScanOf(text_sections[k], compile_pattern(text))' =
                  ScanOf(text_sections[k], compile_pattern(text))
            BY <1>2 
        <3> QED  BY <3>1
    <2>2. pattern_scan_code(text) = first(scans)  BY DEF pattern_scan_code
    <2>3. pattern_scan_code(text)' = first(scans')  BY DEF pattern_scan_code
    <2> HIDE DEF first, scans
    <2> QED  BY <2>1, <2>2, <2>3
<1> QED  BY <1>3

LEMMA ImageInit_Inv ==
    ASSUME ImageInit, file \in DolFile \cup ElfFile
    PROVE  ImageInv
<1>1. ImageTypeOK  BY DEF ImageInit, ImageTypeOK
<1>2. Accepted /\ Progress /\ NothingLost /\ Scanned
    BY DEF ImageInit, Accepted, Progress, NothingLost, Scanned, Begun
<1>3. RegionsApart /\ RegionsFromFile
    BY DEF ImageInit, RegionsApart, RegionsFromFile
<1> QED  BY <1>1, <1>2, <1>3 DEF ImageInv

LEMMA ImageStutter ==
    ASSUME ImageInv, UNCHANGED image
    PROVE  ImageInv'
<1> USE DEF image
<1>1. ImageTypeOK' /\ Accepted'  BY DEF ImageInv, ImageTypeOK, Accepted, Begun
<1>2. RegionsApart'  BY DEF ImageInv, RegionsApart, Covering, Right
<1>3. RegionsFromFile'  BY FileFixed DEF ImageInv, RegionsFromFile
<1>4. Progress'  BY FileFixed DEF ImageInv, Progress, Begun, Done
<1>5. NothingLost'  BY FileFixed DEF ImageInv, NothingLost, Begun, Done
<1>6. Scanned'  BY ScanFixed DEF ImageInv, Scanned
<1> QED  BY <1>1, <1>2, <1>3, <1>4, <1>5, <1>6 DEF ImageInv

\* A text section of a DOL is listed before any section is read.
LEMMA DolTextListed ==
    ASSUME NEW text \in Seq(Place), NEW data \in Seq(Place)
    PROVE  LET all == Tagged(text, "text") \o Tagged(data, "data")
           IN  \A k \in 1 .. Len(all) : all[k].kind = "text" =>
                 \E j \in DOMAIN text : text[j].va = all[k].va
<1> DEFINE t == Tagged(text, "text")
           d == Tagged(data, "data")
           all == t \o d
<1> SUFFICES ASSUME NEW k \in 1 .. Len(all), all[k].kind = "text"
             PROVE  \E j \in DOMAIN text : text[j].va = all[k].va
    OBVIOUS
<1>1. /\ t \in Seq(SectionHeader) /\ Len(t) = Len(text)
      /\ \A i \in 1 .. Len(text) : t[i].va = text[i].va /\ t[i].kind = "text"
    BY TaggedType
<1>2. /\ d \in Seq(SectionHeader) /\ Len(d) = Len(data)
      /\ \A i \in 1 .. Len(data) : d[i].va = data[i].va /\ d[i].kind = "data"
    BY TaggedType
<1>3. Len(text) \in Nat /\ Len(data) \in Nat /\ DOMAIN text = 1 .. Len(text)  BY LenProperties
<1> HIDE DEF t, d
<1>4. /\ Len(t \o d) = Len(text) + Len(data)
      /\ \A i \in 1 .. Len(text) + Len(data) :
           (t \o d)[i] = IF i <= Len(text) THEN t[i] ELSE d[i - Len(text)]
    <2>1. /\ Len(t \o d) = Len(t) + Len(d)
          /\ \A i \in 1 .. Len(t) + Len(d) :
               (t \o d)[i] = IF i <= Len(t) THEN t[i] ELSE d[i - Len(t)]
        <3>1. t \in Seq(SectionHeader) /\ d \in Seq(SectionHeader)  BY <1>1, <1>2
        <3> QED  BY ONLY <3>1, ConcatProperties
    <2> QED  BY <1>1, <1>2, <2>1
<1>5. all = t \o d  OBVIOUS
<1> HIDE DEF all
<1>6. k \in 1 .. Len(text) + Len(data)  BY <1>4, <1>5
<1>7. CASE k <= Len(text)
    <2>1. k \in 1 .. Len(text)  BY <1>3, <1>6, <1>7
    <2>2. all[k] = t[k]  BY <1>4, <1>5, <1>6, <1>7
    <2> QED  BY <1>1, <1>3, <2>1, <2>2
<1>8. CASE ~(k <= Len(text))
    <2>1. k - Len(text) \in 1 .. Len(data)  BY <1>3, <1>6, <1>8
    <2>2. all[k] = d[k - Len(text)]  BY <1>4, <1>5, <1>6, <1>8
    <2>3. all[k].kind = "data"  BY <1>2, <2>1, <2>2
    <2> QED  BY <2>3
<1> QED  BY <1>7, <1>8

LEMMA LoadDol_Inv ==
    ASSUME ImageInv, LoadDol
    PROVE  ImageInv'
<1>1. /\ loading = "closed" /\ file.format = "dol" /\ stream' = file.whole
      /\ UNCHANGED <<file, regions, entrypoint, abi_conf>>
    BY DEF LoadDol
<1>2. PICK hdr \in IF file.whole THEN {file.header} ELSE Garbage :
        LET text == Used(hdr.text)
            data == Used(hdr.data)
        IN  /\ text_sections' = text
            /\ data_sections' = data
            /\ IF sanity_check_header(text, data, hdr.bss)
               THEN /\ loading' = "sections"
                    /\ pending' = Tagged(text, "text") \o Tagged(data, "data")
               ELSE Refuse
    BY DEF LoadDol
<1> DEFINE text == Used(hdr.text)
           data == Used(hdr.data)
           all == Tagged(text, "text") \o Tagged(data, "data")
<1>3. file \in DolFile \cup ElfFile  BY DEF ImageInv, ImageTypeOK
<1>4. file.whole \in BOOLEAN /\ file.header.text \in Seq(Place) /\ file.header.data \in Seq(Place)
    BY <1>1, <1>3, FileParts
<1>5. hdr.text \in Seq(Place) /\ hdr.data \in Seq(Place)
    BY <1>2, <1>4, ImageAssumption
<1>6. text \in Seq(Place) /\ data \in Seq(Place)  BY <1>5, UsedType
<1>7. /\ text_sections' = text /\ data_sections' = data
      /\ \/ loading' = "sections" /\ pending' = all
         \/ loading' = "refused" /\ pending' = pending
    BY <1>2 DEF Refuse
<1>8. file.whole => all = Sections /\ all = All
    <2>1. ASSUME file.whole
          PROVE  text = Used(file.header.text) /\ data = Used(file.header.data)
        BY <1>2, <2>1
    <2> QED  BY <1>1, <2>1 DEF Sections, All
<1> HIDE DEF text, data
<1>9. all \in Seq(SectionHeader)  BY <1>6, TaggedType, ConcatProperties
<1>10. \A k \in 1 .. Len(all) : all[k].kind = "text" =>
         \E j \in DOMAIN text : text[j].va = all[k].va
    BY <1>6, DolTextListed
<1> HIDE DEF all
<1>11. regions = {} /\ regions' = {}  BY <1>1 DEF ImageInv, Accepted, Begun
<1>12. ImageTypeOK'
    BY <1>1, <1>4, <1>6, <1>7, <1>9, <1>11 DEF ImageInv, ImageTypeOK
<1>13. Accepted'  BY <1>1, <1>7, <1>11 DEF Accepted, Begun
<1>14. RegionsApart' /\ RegionsFromFile'  BY <1>11 DEF RegionsApart, RegionsFromFile
<1>15. Begun' => pending' = all  BY <1>7 DEF Begun
<1>16. Begun' /\ file.whole => Done' = 0 /\ pending' = All /\ All' = All /\ All \in Seq(SectionHeader)
    <2> SUFFICES ASSUME Begun', file.whole
                 PROVE  Done' = 0 /\ pending' = All /\ All' = All /\ All \in Seq(SectionHeader)
        OBVIOUS
    <2>1. pending' = All /\ All' = All /\ All \in Seq(SectionHeader)
        BY <1>1, <1>8, <1>9, <1>15, FileFixed
    <2>2. Len(All) \in Nat  BY <2>1, LenProperties
    <2>3. Done' = Len(All') - Len(pending')  BY DEF Done
    <2> QED  BY <2>1, <2>2, <2>3
<1>17. Progress'
    <2> SUFFICES ASSUME Begun', file.whole
                 PROVE  Len(pending') <= Len(All') /\ pending' = SubSeq(All', Done' + 1, Len(All'))
        BY <1>1 DEF Progress
    <2>1. Len(All) \in Nat  BY <1>16, LenProperties
    <2>2. SubSeq(All, 1, Len(All)) = All  BY <1>16, SubSeqFull
    <2> QED  BY <1>16, <2>1, <2>2
<1>18. NothingLost'
    <2> SUFFICES ASSUME Begun', Sound'
                 PROVE  /\ stream'
                        /\ regions' = {RegionOf(All[k])' : k \in {k \in 1 .. Done' : Kept(All[k])'}}
                        /\ \A k \in 1 .. (IF file'.format = "elf" THEN Done' ELSE Len(All')) :
                             Kept(All[k])' /\ All'[k].kind = "text" =>
                               \E j \in DOMAIN text_sections' : text_sections'[j].va = All'[k].va
        BY DEF NothingLost
    <2>1. file.whole  BY <1>1, FileFixed DEF Sound
    <2>2. Done' = 0 /\ All' = All /\ All = all  BY <1>8, <1>16, <2>1
    <2>3. {k \in 1 .. Done' : Kept(All[k])'} = {}  BY <2>2
    <2>4. file'.format # "elf"  BY <1>1
    <2> QED  BY <1>1, <1>7, <1>10, <1>11, <2>1, <2>2, <2>3, <2>4
<1>19. Scanned'  BY <1>7 DEF Scanned
<1> QED  BY <1>12, <1>13, <1>14, <1>17, <1>18, <1>19 DEF ImageInv

LEMMA LoadElf_Inv ==
    ASSUME ImageInv, LoadElf
    PROVE  ImageInv'
<1>1. /\ loading = "closed" /\ file.format # "dol" /\ stream' = file.whole
      /\ UNCHANGED <<file, regions, text_sections, data_sections, entrypoint, abi_conf>>
      /\ IF file.format = "elf"
         THEN loading' = "sections" /\ pending' = file.header.shdrs
         ELSE loading' = "refused" /\ pending' = pending
    BY DEF LoadElf, Refuse
<1>2. file \in DolFile \cup ElfFile  BY DEF ImageInv, ImageTypeOK
<1>3. file.whole \in BOOLEAN /\ file.header.shdrs \in Seq(SectionHeader)
    BY <1>1, <1>2, FileParts
<1>4. regions = {} /\ regions' = {}  BY <1>1 DEF ImageInv, Accepted, Begun
<1>5. ImageTypeOK'  BY <1>1, <1>3, <1>4 DEF ImageInv, ImageTypeOK
<1>6. Accepted'  BY <1>1, <1>4 DEF Accepted, Begun
<1>7. RegionsApart' /\ RegionsFromFile'  BY <1>4 DEF RegionsApart, RegionsFromFile
<1>8. Begun' => /\ file.format = "elf" /\ pending' = All
                /\ All' = All /\ All \in Seq(SectionHeader) /\ Done' = 0
    <2> SUFFICES ASSUME Begun'
                 PROVE  /\ file.format = "elf" /\ pending' = All
                        /\ All' = All /\ All \in Seq(SectionHeader) /\ Done' = 0
        OBVIOUS
    <2>1. file.format = "elf" /\ pending' = file.header.shdrs
        BY <1>1 DEF Begun
    <2>2. All = file.header.shdrs /\ All' = All  BY <1>1, <2>1, FileFixed DEF All
    <2>3. Len(All) \in Nat  BY <1>3, <2>2, LenProperties
    <2>4. Done' = Len(All') - Len(pending')  BY DEF Done
    <2> QED  BY <1>3, <2>1, <2>2, <2>3, <2>4
<1>9. Progress'
    <2> SUFFICES ASSUME Begun'
                 PROVE  Len(pending') <= Len(All') /\ pending' = SubSeq(All', Done' + 1, Len(All'))
        BY DEF Progress
    <2>1. Len(All) \in Nat  BY <1>8, LenProperties
    <2>2. SubSeq(All, 1, Len(All)) = All  BY <1>8, SubSeqFull
    <2> QED  BY <1>8, <2>1, <2>2
<1>10. NothingLost'
    <2> SUFFICES ASSUME Begun', Sound'
                 PROVE  /\ stream'
                        /\ regions' = {RegionOf(All[k])' : k \in {k \in 1 .. Done' : Kept(All[k])'}}
                        /\ \A k \in 1 .. (IF file'.format = "elf" THEN Done' ELSE Len(All')) :
                             Kept(All[k])' /\ All'[k].kind = "text" =>
                               \E j \in DOMAIN text_sections' : text_sections'[j].va = All'[k].va
        BY DEF NothingLost
    <2>1. {k \in 1 .. Done' : Kept(All[k])'} = {}  BY <1>8
    <2>2. file'.format = "elf"  BY <1>1, <1>8
    <2>3. file.whole  BY <1>1, FileFixed DEF Sound
    <2> QED  BY <1>1, <1>4, <1>8, <2>1, <2>2, <2>3
<1>11. Scanned'  BY <1>1 DEF Scanned
<1> QED  BY <1>5, <1>6, <1>7, <1>9, <1>10, <1>11 DEF ImageInv

\* The bytes of a section read: those of the file, and zeros when the stream
\* has failed or ends.
LEMMA ReadAtType ==
    ASSUME ImageTypeOK, NEW h \in SectionHeader
    PROVE  /\ ReadAt(h) \in [1 .. h.size -> Byte] /\ ReadAt(h) \in Seq(Byte)
           /\ Len(ReadAt(h)) = h.size /\ h.size \in Nat /\ h.va \in Nat /\ h.off \in Nat
           /\ \A i \in 1 .. h.size :
                ReadAt(h)[i] # 0 => /\ stream /\ h.off + i <= Len(file.cells)
                                    /\ ReadAt(h)[i] = file.cells[h.off + i]
           /\ stream /\ EnoughFor(h) => RegionOf(h) = [base |-> h.va, data |-> ReadAt(h)]
<1>1. h.size \in Nat /\ h.va \in Nat /\ h.off \in Nat  BY DEF SectionHeader
<1>2. file.cells \in Seq(Byte)  BY FileParts DEF ImageTypeOK
<1>3. Len(file.cells) \in Nat /\ \A i \in 1 .. Len(file.cells) : file.cells[i] \in Byte
    BY <1>2, LenProperties, ElementOfSeq
<1> DEFINE e(i) == IF stream /\ h.off + i <= Len(file.cells) THEN file.cells[h.off + i] ELSE 0
<1>4. ReadAt(h) = [i \in 1 .. h.size |-> e(i)]  BY DEF ReadAt
<1>5. \A i \in 1 .. h.size : h.off + i \in Int /\ h.off + i >= 1  BY <1>1
<1>6. \A i \in 1 .. h.size : e(i) \in Byte
    <2> SUFFICES ASSUME NEW i \in 1 .. h.size
                 PROVE  e(i) \in Byte
        OBVIOUS
    <2>1. CASE stream /\ h.off + i <= Len(file.cells)
        <3>1. h.off + i \in 1 .. Len(file.cells)  BY <1>3, <1>5, <2>1
        <3> QED  BY <1>3, <2>1, <3>1
    <2>2. CASE ~(stream /\ h.off + i <= Len(file.cells))  BY <2>2 DEF Byte
    <2> QED  BY <2>1, <2>2
<1>7. ReadAt(h) \in [1 .. h.size -> Byte]
    <2> HIDE DEF e
    <2> QED  BY <1>4, <1>6
<1>8. ReadAt(h) \in Seq(Byte) /\ Len(ReadAt(h)) = h.size  BY <1>1, <1>7, FunctionIsList
<1>9. \A i \in 1 .. h.size :
        ReadAt(h)[i] # 0 => /\ stream /\ h.off + i <= Len(file.cells)
                            /\ ReadAt(h)[i] = file.cells[h.off + i]
    BY <1>4
<1>10. ASSUME stream, EnoughFor(h)
       PROVE  RegionOf(h) = [base |-> h.va, data |-> ReadAt(h)]
    <2>1. \A i \in 1 .. h.size : h.off + i <= Len(file.cells)
        BY <1>1, <1>3, <1>10 DEF EnoughFor
    <2>2. ReadAt(h) = [i \in 1 .. h.size |-> file.cells[h.off + i]]
        BY <1>4, <1>10, <2>1
    <2> QED  BY <2>2 DEF RegionOf
<1> QED  BY <1>1, <1>7, <1>8, <1>9, <1>10

\* The header the loader is at.
LEMMA NextHeader ==
    ASSUME ImageInv, loading = "sections", pending # <<>>
    PROVE  /\ Head(pending) \in SectionHeader /\ Tail(pending) \in Seq(SectionHeader)
           /\ Len(Tail(pending)) = Len(pending) - 1
           /\ file.whole => /\ Done \in Nat /\ Done + 1 \in 1 .. Len(All)
                            /\ Head(pending) = All[Done + 1]
                            /\ Tail(pending) = SubSeq(All, Done + 2, Len(All))
<1>1. pending \in Seq(SectionHeader)  BY DEF ImageInv, ImageTypeOK
<1>2. /\ Head(pending) \in SectionHeader /\ Tail(pending) \in Seq(SectionHeader)
      /\ Len(Tail(pending)) = Len(pending) - 1
    BY <1>1, HeadTailProperties
<1>3. ASSUME file.whole
      PROVE  /\ Done \in Nat /\ Done + 1 \in 1 .. Len(All)
             /\ Head(pending) = All[Done + 1]
             /\ Tail(pending) = SubSeq(All, Done + 2, Len(All))
    <2>1. file \in DolFile \cup ElfFile /\ file.format # "other"
        BY DEF ImageInv, ImageTypeOK, Accepted, Begun
    <2>2. All \in Seq(SectionHeader)  BY <2>1, SectionsAreKept
    <2>3. Len(All) \in Nat /\ Len(pending) \in Nat \ {0}
        BY <1>1, <2>2, LenProperties, EmptySeq
    <2>4. Len(pending) <= Len(All) /\ pending = SubSeq(All, Done + 1, Len(All))
        BY <1>3 DEF ImageInv, Progress, Begun
    <2>5. Done \in Nat /\ Done + 1 \in 1 .. Len(All) /\ Len(All) \in Done + 1 .. Len(All)
          /\ Done + 1 + 1 = Done + 2
        BY <2>3, <2>4 DEF Done
    <2>6. /\ Head(SubSeq(All, Done + 1, Len(All))) = All[Done + 1]
          /\ Tail(SubSeq(All, Done + 1, Len(All))) = SubSeq(All, Done + 1 + 1, Len(All))
        BY <2>2, <2>5, HeadTailOfSubSeq
    <2> QED  BY <2>4, <2>5, <2>6
<1> QED  BY <1>2, <1>3

\* What is not skipped is kept, and the other way round as long as the stream
\* has not failed.
LEMMA SkippedIsNotKept ==
    ASSUME NEW h \in SectionHeader
    PROVE  /\ ~Skipped(h) => Kept(h)
           /\ stream => (Skipped(h) <=> ~Kept(h))
BY DEF Skipped, Kept, Held

\* A section is added where no address of it is taken.
LEMMA AddedApart ==
    ASSUME ImageTypeOK, RegionsApart, NEW h \in SectionHeader,
           regions' = AddSection(h.va, ReadAt(h))
    PROVE  RegionsApart'
<1> DEFINE n == [base |-> h.va, data |-> ReadAt(h)]
<1>1. /\ Len(ReadAt(h)) = h.size /\ h.size \in Nat /\ h.va \in Nat  BY ReadAtType
<1>2. regions' \subseteq regions \cup {n}  BY DEF AddSection
<1>3. n \in regions' => n \in regions \/ Query(h.va, h.va + h.size) = {}
    BY <1>1 DEF AddSection
<1>4. ASSUME Query(h.va, h.va + h.size) = {}, NEW s \in regions, NEW a \in Int,
             Covering(s, a), Covering(n, a)
      PROVE  FALSE
    <2>1. s.base \in Nat /\ Len(s.data) \in Nat /\ Right(s) = s.base + Len(s.data)
        BY RegionParts
    <2>2. a >= s.base /\ a < Right(s)  BY <1>4 DEF Covering
    <2>3. a >= h.va /\ a < h.va + h.size  BY <1>1, <1>4 DEF Covering, Right
    <2>4. s.base < h.va + h.size /\ h.va < Right(s)  BY <1>1, <2>1, <2>2, <2>3
    <2> QED  BY <1>4, <2>4 DEF Query
<1> SUFFICES ASSUME NEW s \in regions', NEW t \in regions', NEW a \in Int,
                    Covering(s, a), Covering(t, a)
             PROVE  s = t
    BY DEF RegionsApart, Covering, Right
<1> HIDE DEF n
<1>5. CASE s \in regions /\ t \in regions  BY <1>5 DEF RegionsApart
<1>6. CASE s \notin regions  BY <1>2, <1>3, <1>4, <1>6
<1>7. CASE t \notin regions  BY <1>2, <1>3, <1>4, <1>7
<1> QED  BY <1>5, <1>6, <1>7

\* The next section is free when nothing is lost.
LEMMA NextIsFree ==
    ASSUME ImageInv, loading = "sections", pending # <<>>, Sound, Kept(Head(pending))
    PROVE  /\ stream /\ EnoughFor(Head(pending))
           /\ Query(Head(pending).va, Head(pending).va + Head(pending).size) = {}
<1> DEFINE h == Head(pending)
           e == Done + 1
<1>1. file \in DolFile \cup ElfFile /\ file.format # "other"
    BY DEF ImageInv, ImageTypeOK, Accepted, Begun
<1>2. file.whole  BY DEF Sound
<1>3. /\ stream
      /\ regions = {RegionOf(All[k]) : k \in {k \in 1 .. Done : Kept(All[k])}}
    BY DEF ImageInv, NothingLost, Begun
<1>4. All \in Seq(SectionHeader)  BY <1>1, SectionsAreKept
<1>5. DOMAIN All = 1 .. Len(All) /\ Len(All) \in Nat  BY <1>4, LenProperties
<1>6. Done \in Nat /\ e \in 1 .. Len(All) /\ h = All[e]  BY <1>2, NextHeader
<1>7. e \in DOMAIN All /\ h \in SectionHeader  BY <1>5, <1>6, NextHeader
<1>8. EnoughFor(h)  BY <1>1, <1>6, <1>7, SoundHeaders
<1>9. ASSUME NEW t \in Query(h.va, h.va + h.size)
      PROVE  FALSE
    <2>1. t \in regions /\ t.base < h.va + h.size /\ h.va < Right(t)  BY <1>9 DEF Query
    <2>2. PICK k \in {k \in 1 .. Done : Kept(All[k])} : t = RegionOf(All[k])
        BY <1>3, <2>1
    <2> DEFINE g == All[k]
    <2>3. k \in DOMAIN All /\ k # e  BY <1>5, <1>6
    <2>4. g \in SectionHeader  BY <1>4, <1>5, <2>3, ElementOfSeq
    <2>5. Clear(g, h)  BY <1>1, <1>6, <1>7, <2>2, <2>3, SoundHeaders
    <2>6. g.size \in Nat /\ g.va \in Nat /\ h.size \in Nat /\ h.va \in Nat
        BY <1>7, <2>4 DEF SectionHeader
    <2> HIDE DEF g, h
    <2>7. t.base = g.va /\ DOMAIN t.data = 1 .. g.size  BY <2>2 DEF RegionOf, g
    <2>8. t.data \in Seq(Byte) /\ Len(t.data) \in Nat /\ DOMAIN t.data = 1 .. Len(t.data)
          /\ Right(t) = t.base + Len(t.data)
        BY <2>1, RegionParts DEF ImageInv
    <2>9. Len(t.data) = g.size  BY <2>6, <2>7, <2>8
    <2> QED  BY <2>1, <2>5, <2>6, <2>7, <2>8, <2>9 DEF Clear
<1> QED  BY <1>3, <1>8, <1>9

LEMMA LoadSection_Inv ==
    ASSUME ImageInv, LoadSection
    PROVE  ImageInv'
<1> DEFINE h == Head(pending)
           n == [base |-> h.va, data |-> ReadAt(h)]
           elf == file.format = "elf"
<1>1. /\ loading = "sections" /\ pending # <<>> /\ pending' = Tail(pending)
      /\ UNCHANGED <<file, loading, entrypoint, abi_conf>>
    BY DEF LoadSection
<1>2. IF Skipped(h)
      THEN UNCHANGED <<regions, stream, text_sections, data_sections>>
      ELSE /\ regions' = AddSection(h.va, ReadAt(h))
           /\ stream' = (stream /\ EnoughFor(h))
           /\ text_sections' = IF elf /\ h.kind = "text"
                THEN Append(text_sections, Listed(h)) ELSE text_sections
           /\ data_sections' = IF elf /\ h.kind = "data" /\ h.alloc
                THEN Append(data_sections, Listed(h)) ELSE data_sections
    BY DEF LoadSection
<1>3. /\ h \in SectionHeader /\ Tail(pending) \in Seq(SectionHeader)
      /\ Len(Tail(pending)) = Len(pending) - 1
      /\ file.whole => /\ Done \in Nat /\ Done + 1 \in 1 .. Len(All)
                       /\ h = All[Done + 1]
                       /\ Tail(pending) = SubSeq(All, Done + 2, Len(All))
    BY <1>1, NextHeader
<1>4. ImageTypeOK  BY DEF ImageInv
<1>5. file \in DolFile \cup ElfFile /\ file.format # "other"
    BY <1>1 DEF ImageInv, ImageTypeOK, Accepted, Begun
<1>6. Begun /\ Begun' /\ stream \in BOOLEAN /\ (stream => file.whole)
    BY <1>1, <1>4 DEF ImageInv, Accepted, Begun, ImageTypeOK
<1>7. Sections' = Sections /\ All' = All /\ Sound' = Sound  BY <1>1, FileFixed
<1>8. /\ text_sections' \in {text_sections, Append(text_sections, Listed(h))}
      /\ data_sections' \in {data_sections, Append(data_sections, Listed(h))}
      /\ stream' \in BOOLEAN /\ (stream' => stream)
    BY <1>2, <1>6
<1>9. regions' = regions \/ (~Skipped(h) /\ regions' = regions \cup {n} /\ n \in regions')
    BY <1>2 DEF AddSection
<1>10. /\ ReadAt(h) \in [1 .. h.size -> Byte] /\ ReadAt(h) \in Seq(Byte)
       /\ Len(ReadAt(h)) = h.size /\ h.size \in Nat /\ h.va \in Nat /\ h.off \in Nat
       /\ \A i \in 1 .. h.size :
            ReadAt(h)[i] # 0 => /\ stream /\ h.off + i <= Len(file.cells)
                                /\ ReadAt(h)[i] = file.cells[h.off + i]
       /\ stream /\ EnoughFor(h) => RegionOf(h) = n
    BY <1>3, <1>4, ReadAtType
<1>11. /\ n.base \in Nat /\ n.data \in Seq(Byte) /\ n = [base |-> n.base, data |-> n.data]
    BY <1>10
<1>12. Listed(h) \in Place /\ Listed(h).va = h.va
    BY <1>10 DEF Listed, Place
<1> HIDE DEF h
<1>13. ImageTypeOK'
    <2>1. text_sections' \in Seq(Place) /\ data_sections' \in Seq(Place)
        <3>1. text_sections \in Seq(Place) /\ data_sections \in Seq(Place)
            BY <1>4 DEF ImageTypeOK
        <3>2. \A q \in Seq(Place) : Append(q, Listed(h)) \in Seq(Place)
            BY <1>12, AppendProperties
        <3>3. /\ text_sections' \in {text_sections, Append(text_sections, Listed(h))}
              /\ data_sections' \in {data_sections, Append(data_sections, Listed(h))}
            BY <1>8
        <3> QED  BY ONLY <3>1, <3>2, <3>3
    <2> HIDE DEF n
    <2>2. \A s \in regions' : /\ s.base \in Nat /\ s.data \in Seq(Byte)
                              /\ s = [base |-> s.base, data |-> s.data]
        BY <1>4, <1>9, <1>11 DEF ImageTypeOK
    <2> QED  BY <1>1, <1>3, <1>4, <1>8, <2>1, <2>2 DEF ImageTypeOK
<1>14. Accepted'  BY <1>1, <1>6, <1>8 DEF ImageInv, Accepted, Begun
<1>15. RegionsApart'
    <2>1. CASE Skipped(h)
        BY <1>2, <2>1 DEF ImageInv, RegionsApart, Covering, Right
    <2>2. CASE ~Skipped(h)  BY <1>2, <1>3, <1>4, <2>2, AddedApart DEF ImageInv
    <2> QED  BY <2>1, <2>2
<1>16. RegionsFromFile'
    <2> SUFFICES ASSUME NEW s \in regions'
                 PROVE  \/ \A i \in 1 .. Len(s.data) : s.data[i] = 0
                        \/ \E k \in DOMAIN Sections : RegionFrom(s, Sections[k])
        BY <1>1, <1>7, FileFixed DEF RegionsFromFile
    <2>1. CASE s \in regions  BY <2>1 DEF ImageInv, RegionsFromFile
    <2>2. CASE s \notin regions
        <3>1. s = n /\ ~Skipped(h)  BY <1>9, <2>2
        <3>2. CASE ~stream  BY <1>10, <3>1, <3>2
        <3>3. CASE stream
            <4>1. All \in Seq(SectionHeader)  BY <1>5, SectionsAreKept
            <4>2. Done + 1 \in DOMAIN All /\ h = All[Done + 1]
                BY <1>3, <1>6, <3>3, <4>1, LenProperties
            <4>3. Kept(h)  BY <1>3, <3>1, SkippedIsNotKept
            <4>4. PICK k \in DOMAIN Sections : Sections[k] = h
                BY <1>5, <4>2, <4>3, SectionsAreKept
            <4>5. RegionFrom(s, h)  BY <1>10, <3>1 DEF RegionFrom
            <4> QED  BY <4>4, <4>5
        <3> QED  BY <3>2, <3>3
    <2> QED  BY <2>1, <2>2
<1>17. file.whole => Done' = Done + 1
    <2>1. Done' = Len(All) - Len(Tail(pending))  BY <1>1, <1>7 DEF Done
    <2>2. pending \in Seq(SectionHeader)  BY <1>4 DEF ImageTypeOK
    <2>3. All \in Seq(SectionHeader)  BY <1>5, SectionsAreKept
    <2>4. Len(pending) \in Nat /\ Len(All) \in Nat  BY <2>2, <2>3, LenProperties
    <2> QED  BY <1>3, <2>1, <2>4 DEF Done
<1>18. Progress'
    <2> SUFFICES ASSUME file.whole
                 PROVE  /\ Len(Tail(pending)) <= Len(All)
                        /\ Tail(pending) = SubSeq(All, Done' + 1, Len(All))
        BY <1>1, <1>7 DEF Progress
    <2>1. Len(pending) <= Len(All)  BY <1>6 DEF ImageInv, Progress
    <2>2. Done' + 1 = Done + 2  BY <1>3, <1>17
    <2>3. pending \in Seq(SectionHeader)  BY <1>4 DEF ImageTypeOK
    <2>4. All \in Seq(SectionHeader)  BY <1>5, SectionsAreKept
    <2>5. Len(pending) \in Nat /\ Len(All) \in Nat  BY <2>3, <2>4, LenProperties
    <2> QED  BY SMTT(30), <1>3, <2>1, <2>2, <2>5
<1>19. NothingLost'
    <2> SUFFICES ASSUME Sound
                 PROVE  /\ stream'
                        /\ regions' = {RegionOf(All[k]) : k \in {k \in 1 .. Done' : Kept(All[k])}}
                        /\ \A k \in 1 .. (IF elf THEN Done' ELSE Len(All)) :
                             Kept(All[k]) /\ All[k].kind = "text" =>
                               \E j \in DOMAIN text_sections' : text_sections'[j].va = All[k].va
        BY <1>1, <1>7, FileFixed DEF NothingLost
    <2>1. file.whole  BY DEF Sound
    <2>2. Done \in Nat /\ Done' = Done + 1 /\ h = All[Done + 1] /\ Done + 1 \in 1 .. Len(All)
        BY <1>3, <1>17, <2>1
    <2>3. /\ stream
          /\ regions = {RegionOf(All[k]) : k \in {k \in 1 .. Done : Kept(All[k])}}
          /\ \A k \in 1 .. (IF elf THEN Done ELSE Len(All)) :
               Kept(All[k]) /\ All[k].kind = "text" =>
                 \E j \in DOMAIN text_sections : text_sections[j].va = All[k].va
        BY <1>6 DEF ImageInv, NothingLost
    <2>4. Skipped(h) <=> ~Kept(h)  BY <1>3, <2>3, SkippedIsNotKept
    <2>5. stream'
        BY <1>1, <1>2, <2>3, <2>4, NextIsFree DEF h
    <2>6. regions' = {RegionOf(All[k]) : k \in {k \in 1 .. Done' : Kept(All[k])}}
        <3>1. CASE Skipped(h)
            <4>1. {k \in 1 .. Done' : Kept(All[k])} = {k \in 1 .. Done : Kept(All[k])}
                BY <2>2, <2>4, <3>1
            <4> QED  BY <1>2, <2>3, <3>1, <4>1
        <3>2. CASE ~Skipped(h)
            <4>1. EnoughFor(h) /\ Query(h.va, h.va + h.size) = {}
                BY <1>1, <2>4, <3>2, NextIsFree DEF h
            <4>2. n = RegionOf(h)  BY <1>10, <2>3, <4>1
            <4>3. regions' = regions \cup {n}
                BY <1>2, <1>10, <3>2, <4>1 DEF AddSection
            <4>4. {k \in 1 .. Done' : Kept(All[k])} =
                    {k \in 1 .. Done : Kept(All[k])} \cup {Done + 1}
                BY <2>2, <2>4, <3>2
            <4> HIDE DEF n
            <4> QED  BY <2>2, <2>3, <4>2, <4>3, <4>4
        <3> QED  BY <3>1, <3>2
    <2>7. ASSUME NEW k \in 1 .. (IF elf THEN Done' ELSE Len(All)),
                 Kept(All[k]), All[k].kind = "text"
          PROVE  \E j \in DOMAIN text_sections' : text_sections'[j].va = All[k].va
        <3>1. /\ text_sections \in Seq(Place) /\ Len(text_sections) \in Nat
              /\ DOMAIN text_sections = 1 .. Len(text_sections)
            BY <1>4, LenProperties DEF ImageTypeOK
        <3> DEFINE a == Append(text_sections, Listed(h))
        <3>2. /\ a \in Seq(Place) /\ Len(a) = Len(text_sections) + 1
              /\ \A j \in 1 .. Len(text_sections) : a[j] = text_sections[j]
              /\ a[Len(text_sections) + 1] = Listed(h)
            BY <1>12, <3>1, AppendProperties
        <3>3. DOMAIN a = 1 .. Len(text_sections) + 1  BY <3>2, LenProperties
        <3> HIDE DEF a
        <3>4. CASE k \in 1 .. (IF elf THEN Done ELSE Len(All))
            <4>1. PICK j \in DOMAIN text_sections : text_sections[j].va = All[k].va
                BY <1>5, <2>3, <2>7, <3>4
            <4>2. j \in DOMAIN a /\ a[j] = text_sections[j]  BY <3>1, <3>2, <3>3
            <4>3. text_sections' \in {text_sections, a}  BY <1>8 DEF a
            <4> QED  BY <4>1, <4>2, <4>3
        <3>5. CASE ~(k \in 1 .. (IF elf THEN Done ELSE Len(All)))
            <4>1. elf /\ k = Done + 1  BY <2>2, <2>7, <3>5
            <4>2. All[k] = h  BY <2>2, <4>1
            <4>3. text_sections' = a  BY <1>2, <2>4, <2>7, <4>1, <4>2 DEF a
            <4>4. Len(text_sections) + 1 \in DOMAIN a  BY <3>1, <3>3
            <4> QED  BY <1>12, <3>2, <4>2, <4>3, <4>4
        <3> QED  BY <3>4, <3>5
    <2> QED  BY <2>5, <2>6, <2>7
<1>20. Scanned'  BY <1>1 DEF Scanned
<1> QED  BY <1>13, <1>14, <1>15, <1>16, <1>18, <1>19, <1>20 DEF ImageInv

\* What holds of memory goes on to hold when nothing of it changes.
LEMMA MemoryUnchanged ==
    ASSUME ImageInv, Begun, Begun',
           UNCHANGED <<file, stream, pending, regions, text_sections>>
    PROVE  RegionsApart' /\ RegionsFromFile' /\ Progress' /\ NothingLost'
<1>1. RegionsApart'  BY DEF ImageInv, RegionsApart, Covering, Right
<1>2. RegionsFromFile'  BY FileFixed DEF ImageInv, RegionsFromFile
<1>3. Done' = Done /\ All' = All /\ Sound' = Sound /\ \A h : Kept(h)' = Kept(h) /\ RegionOf(h)' = RegionOf(h)
    BY FileFixed DEF Done
<1>4. Progress'  BY <1>3 DEF ImageInv, Progress
<1>5. NothingLost'
    <2> SUFFICES ASSUME Sound
                 PROVE  /\ stream
                        /\ regions = {RegionOf(All[k]) : k \in {k \in 1 .. Done : Kept(All[k])}}
                        /\ \A k \in 1 .. (IF file.format = "elf" THEN Done ELSE Len(All)) :
                             Kept(All[k]) /\ All[k].kind = "text" =>
                               \E j \in DOMAIN text_sections : text_sections[j].va = All[k].va
        BY <1>3 DEF NothingLost
    <2> QED  BY DEF ImageInv, NothingLost
<1> QED  BY <1>1, <1>2, <1>4, <1>5

LEMMA EndSections_Inv ==
    ASSUME ImageInv, EndSections
    PROVE  ImageInv'
<1>1. /\ loading = "sections" /\ pending = <<>> /\ loading' = "scan"
      /\ UNCHANGED <<file, stream, pending, regions, text_sections, data_sections, abi_conf>>
    BY DEF EndSections
<1>2. Begun /\ Begun'  BY <1>1 DEF Begun
<1>3. ImageTypeOK' /\ Accepted'  BY <1>1, <1>2 DEF ImageInv, ImageTypeOK, Accepted, Begun
<1>4. RegionsApart' /\ RegionsFromFile' /\ Progress' /\ NothingLost'
    BY <1>1, <1>2, MemoryUnchanged
<1>5. Scanned'  BY <1>1 DEF Scanned
<1> QED  BY <1>3, <1>4, <1>5 DEF ImageInv

LEMMA DiscoverAbi_Inv ==
    ASSUME ImageInv, DiscoverAbi
    PROVE  ImageInv'
<1>1. /\ loading = "scan" /\ loading' = "loaded"
      /\ abi_conf' = [save |-> pattern_scan_code(kSaveGprPattern),
                      rest |-> pattern_scan_code(kRestGprPattern)]
      /\ UNCHANGED <<file, stream, pending, regions, text_sections, data_sections, entrypoint>>
    BY DEF DiscoverAbi
<1>2. Begun /\ Begun'  BY <1>1 DEF Begun
<1>3. ImageTypeOK' /\ Accepted'  BY <1>1, <1>2 DEF ImageInv, ImageTypeOK, Accepted, Begun
<1>4. RegionsApart' /\ RegionsFromFile' /\ Progress' /\ NothingLost'
    BY <1>1, <1>2, MemoryUnchanged
<1>5. Scanned'  BY <1>1, ScanFixed DEF Scanned
<1> QED  BY <1>3, <1>4, <1>5 DEF ImageInv

-----------------------------------------------------------------------------
(* Memory shows the file *)

\* A value that is not zero comes from one place in the file.
LEMMA ValueFromFile ==
    ASSUME ImageInv, NEW a \in Int, NEW n \in Nat \ {0}, Read(a, n) # Zeros(n)
    PROVE  \E h \in Range(Sections) :
             /\ Covers(h, a, n)
             /\ \A i \in 1 .. n : Read(a, n)[i] # 0 => Read(a, n)[i] = InFile(h, a, n)[i]
<1>1. ImageTypeOK /\ RegionsApart /\ RegionsFromFile  BY DEF ImageInv
<1>2. PICK s \in regions : Within(s, a, n)  BY ReadElsewhere
<1>3. s.base \in Nat /\ Len(s.data) \in Nat  BY <1>1, RegionParts
<1>4. s.base <= a /\ a + n <= s.base + Len(s.data)  BY <1>1, <1>2, WithinBounds
<1>5. /\ Read(a, n) \in Seq(Byte) /\ Len(Read(a, n)) = n
      /\ \A i \in 1 .. n : Read(a, n)[i] = s.data[a - s.base + i]
    BY <1>1, <1>2, ReadWithin
<1>6. \A i \in 1 .. n : a - s.base + i \in 1 .. Len(s.data)  BY <1>3, <1>4
<1>7. \E i \in 1 .. n : Read(a, n)[i] # 0
    <2> SUFFICES ASSUME \A i \in 1 .. n : Read(a, n)[i] = 0
                 PROVE  Read(a, n) = Zeros(n)
        OBVIOUS
    <2>1. Zeros(n) \in [1 .. n -> Byte] /\ \A i \in 1 .. n : Zeros(n)[i] = 0  BY ZerosList
    <2>2. \A i \in 1 .. n : Read(a, n)[i] = Zeros(n)[i]  BY <2>1
    <2> QED  BY <1>5, <2>1, <2>2, SameList
<1>8. PICK k \in DOMAIN Sections : RegionFrom(s, Sections[k])
    <2>1. ~ \A i \in 1 .. Len(s.data) : s.data[i] = 0  BY <1>5, <1>6, <1>7
    <2> QED  BY <1>1, <2>1 DEF RegionsFromFile
<1> DEFINE h == Sections[k]
<1>9. /\ s.base = h.va /\ Len(s.data) = h.size
      /\ \A i \in 1 .. h.size :
           s.data[i] # 0 => h.off + i <= Len(file.cells) /\ s.data[i] = file.cells[h.off + i]
    BY <1>8 DEF RegionFrom
<1>10. h.off \in Nat
    <2>1. Begun  BY <1>2 DEF ImageInv, Accepted
    <2>2. file \in DolFile \cup ElfFile /\ file.format # "other"
        BY <2>1 DEF ImageInv, ImageTypeOK, Accepted
    <2>3. Sections \in Seq(SectionHeader)  BY <2>2, SectionsAreKept
    <2>4. h \in SectionHeader  BY <2>3, LenProperties, ElementOfSeq
    <2> QED  BY <2>4 DEF SectionHeader
<1>11. h \in Range(Sections)  BY DEF Range
<1> HIDE DEF h
<1>12. Covers(h, a, n)  BY <1>4, <1>9 DEF Covers
<1>13. ASSUME NEW i \in 1 .. n, Read(a, n)[i] # 0
       PROVE  Read(a, n)[i] = InFile(h, a, n)[i]
    <2>1. a - h.va + i \in 1 .. h.size  BY <1>6, <1>9
    <2>2. s.data[a - h.va + i] # 0 /\ Read(a, n)[i] = s.data[a - h.va + i]
        BY <1>5, <1>9, <1>13
    <2>3. /\ h.off + (a - h.va + i) <= Len(file.cells)
          /\ s.data[a - h.va + i] = file.cells[h.off + (a - h.va + i)]
        BY <1>9, <2>1, <2>2
    <2>4. h.off + (a - h.va + i) = h.off + a - h.va + i  BY <1>3, <1>9, <1>10
    <2>5. InFile(h, a, n)[i] = file.cells[h.off + a - h.va + i]
        BY <2>3, <2>4 DEF InFile
    <2> QED  BY <2>2, <2>3, <2>4, <2>5
<1> QED  BY <1>11, <1>12, <1>13

Finished == loading \in {"scan", "loaded"}

\* When nothing is lost, what is in memory is what the headers name.
LEMMA SoundRegions ==
    ASSUME ImageInv, Finished, Sound
    PROVE  /\ file \in DolFile \cup ElfFile /\ file.format # "other"
           /\ \A h \in Range(Sections) :
                /\ h \in SectionHeader /\ RegionOf(h) \in regions /\ EnoughFor(h)
                /\ h.kind = "text" =>
                     \E j \in DOMAIN text_sections : text_sections[j].va = h.va
           /\ \A s \in regions : \E h \in Range(Sections) : s = RegionOf(h)
<1>1. Begun  BY DEF Finished, Begun
<1>2. file \in DolFile \cup ElfFile /\ file.format # "other" /\ pending = <<>>
    BY <1>1 DEF ImageInv, ImageTypeOK, Accepted, Finished
<1>3. All \in Seq(SectionHeader) /\ Sections \in Seq(SectionHeader)  BY <1>2, SectionsAreKept
<1>4. /\ Len(All) \in Nat /\ DOMAIN All = 1 .. Len(All)
      /\ DOMAIN Sections = 1 .. Len(Sections)
    BY <1>3, LenProperties
<1>5. Done = Len(All)  BY <1>2, <1>4 DEF Done
<1>6. /\ regions = {RegionOf(All[k]) : k \in {k \in 1 .. Len(All) : Kept(All[k])}}
      /\ \A k \in 1 .. Len(All) :
           Kept(All[k]) /\ All[k].kind = "text" =>
             \E j \in DOMAIN text_sections : text_sections[j].va = All[k].va
    <2>1. (IF file.format = "elf" THEN Done ELSE Len(All)) = Len(All)  BY <1>5
    <2> QED  BY <1>1, <1>5, <2>1 DEF ImageInv, NothingLost
<1>7. ASSUME NEW h \in Range(Sections)
      PROVE  /\ h \in SectionHeader /\ RegionOf(h) \in regions /\ EnoughFor(h)
             /\ h.kind = "text" =>
                  \E j \in DOMAIN text_sections : text_sections[j].va = h.va
    <2>1. PICK k \in DOMAIN Sections : h = Sections[k]  BY DEF Range
    <2>2. PICK i \in DOMAIN All : Kept(All[i]) /\ h = All[i]
        BY <1>2, <2>1, SectionsAreKept
    <2>3. h \in SectionHeader  BY <1>3, <1>4, <2>1, ElementOfSeq
    <2>4. EnoughFor(h)  BY <2>1 DEF Sound
    <2> QED  BY <1>4, <1>6, <2>2, <2>3, <2>4
<1>8. ASSUME NEW s \in regions
      PROVE  \E h \in Range(Sections) : s = RegionOf(h)
    <2>1. PICK i \in 1 .. Len(All) : Kept(All[i]) /\ s = RegionOf(All[i])  BY <1>6
    <2>2. PICK k \in DOMAIN Sections : Sections[k] = All[i]
        BY <1>2, <1>4, <2>1, SectionsAreKept
    <2>3. Sections[k] \in Range(Sections)  BY DEF Range
    <2> QED  BY <2>1, <2>2, <2>3
<1> QED  BY <1>2, <1>7, <1>8

LEMMA RegionOfIs ==
    ASSUME ImageTypeOK, NEW h \in SectionHeader, RegionOf(h) \in regions, EnoughFor(h)
    PROVE  /\ h.va \in Nat /\ h.size \in Nat /\ h.off \in Nat
           /\ RegionOf(h).base = h.va /\ Len(RegionOf(h).data) = h.size
           /\ \A i \in 1 .. h.size : RegionOf(h).data[i] = file.cells[h.off + i]
           /\ \A a \in Int, n \in Nat \ {0} :
                Covers(h, a, n) => Within(RegionOf(h), a, n)
           /\ Len(file.cells) \in Nat /\ file.cells \in Seq(Byte)
           /\ h.off + h.size <= Len(file.cells)
<1> DEFINE s == RegionOf(h)
<1>1. h.va \in Nat /\ h.size \in Nat /\ h.off \in Nat  BY DEF SectionHeader
<1>2. /\ s.base = h.va /\ DOMAIN s.data = 1 .. h.size
      /\ \A i \in 1 .. h.size : s.data[i] = file.cells[h.off + i]
    BY DEF RegionOf
<1> HIDE DEF s
<1>3. s.data \in Seq(Byte) /\ Len(s.data) \in Nat /\ DOMAIN s.data = 1 .. Len(s.data)
      /\ Right(s) = s.base + Len(s.data)
    BY RegionParts DEF s
<1>4. Len(s.data) = h.size  BY <1>1, <1>2, <1>3
<1>5. \A a \in Int, n \in Nat \ {0} : Covers(h, a, n) => Within(s, a, n)
    BY <1>1, <1>2, <1>3, <1>4 DEF Covers, Within, Covering
<1>6. Len(file.cells) \in Nat /\ file.cells \in Seq(Byte)
    BY FileParts, LenProperties DEF ImageTypeOK
<1>7. h.off + h.size <= Len(file.cells)  BY DEF EnoughFor
<1> QED  BY <1>1, <1>2, <1>4, <1>5, <1>6, <1>7 DEF s

LEMMA PlaceInFile ==
    ASSUME NEW off \in Nat, NEW va \in Nat, NEW size \in Nat, NEW len \in Nat,
           off + size <= len, NEW a \in Int, NEW n \in Nat \ {0},
           va <= a, a + n <= va + size, NEW i \in 1 .. n
    PROVE  /\ a - va + i \in 1 .. size
           /\ off + (a - va + i) = off + a - va + i
           /\ off + a - va + i \in 1 .. len
           /\ off + a - va + i <= len
OBVIOUS

\* When nothing is lost a section reads as it stands in the file, and what no
\* section covers reads as zeros.
LEMMA SoundRead ==
    ASSUME ImageInv, Finished, Sound, NEW a \in Int, NEW n \in Nat \ {0}
    PROVE  /\ \A h \in Range(Sections) : Covers(h, a, n) => Read(a, n) = InFile(h, a, n)
           /\ (\A h \in Range(Sections) : ~Covers(h, a, n)) => Read(a, n) = Zeros(n)
<1>1. ImageTypeOK /\ RegionsApart  BY DEF ImageInv
<1>2. ASSUME NEW h \in Range(Sections), Covers(h, a, n)
      PROVE  Read(a, n) = InFile(h, a, n)
    <2> DEFINE s == RegionOf(h)
               f == [i \in 1 .. n |-> file.cells[h.off + a - h.va + i]]
    <2>1. h \in SectionHeader /\ s \in regions /\ EnoughFor(h)  BY SoundRegions
    <2>2. /\ h.va \in Nat /\ h.size \in Nat /\ h.off \in Nat
          /\ s.base = h.va /\ Len(s.data) = h.size
          /\ \A i \in 1 .. h.size : s.data[i] = file.cells[h.off + i]
          /\ Within(s, a, n)
          /\ Len(file.cells) \in Nat /\ file.cells \in Seq(Byte)
          /\ h.off + h.size <= Len(file.cells)
        BY <1>1, <1>2, <2>1, RegionOfIs
    <2> HIDE DEF s
    <2>3. /\ Read(a, n) \in Seq(Byte) /\ Len(Read(a, n)) = n
          /\ \A i \in 1 .. n : Read(a, n)[i] = s.data[a - s.base + i]
        BY <1>1, <2>1, <2>2, ReadWithin
    <2>4. h.va <= a /\ a + n <= h.va + h.size  BY <1>2 DEF Covers
    <2>5. \A i \in 1 .. n : /\ a - h.va + i \in 1 .. h.size
                            /\ h.off + (a - h.va + i) = h.off + a - h.va + i
                            /\ h.off + a - h.va + i \in 1 .. Len(file.cells)
                            /\ h.off + a - h.va + i <= Len(file.cells)
        <3>1. /\ h.va \in Nat /\ h.size \in Nat /\ h.off \in Nat /\ Len(file.cells) \in Nat
              /\ h.off + h.size <= Len(file.cells)
            BY <2>2
        <3>2. ASSUME NEW i \in 1 .. n
              PROVE  /\ a - h.va + i \in 1 .. h.size
                     /\ h.off + (a - h.va + i) = h.off + a - h.va + i
                     /\ h.off + a - h.va + i \in 1 .. Len(file.cells)
                     /\ h.off + a - h.va + i <= Len(file.cells)
            <4>1. a \in Int /\ n \in Nat \ {0}  OBVIOUS
            <4> QED  BY ONLY <2>4, <3>1, <3>2, <4>1, PlaceInFile
        <3> QED  BY <3>2
    <2>6. InFile(h, a, n) = f  BY <2>5 DEF InFile
    <2>7. \A i \in 1 .. n : file.cells[h.off + a - h.va + i] \in Byte
        BY <2>2, <2>5, ElementOfSeq
    <2>8. f \in [1 .. n -> Byte]  BY <2>7
    <2>9. \A i \in 1 .. n : Read(a, n)[i] = f[i]
        <3> SUFFICES ASSUME NEW i \in 1 .. n
                     PROVE  Read(a, n)[i] = f[i]
            OBVIOUS
        <3>1. s.data[a - h.va + i] = file.cells[h.off + (a - h.va + i)]
            BY <2>2, <2>5
        <3>2. Read(a, n)[i] = s.data[a - h.va + i]  BY <2>2, <2>3
        <3> QED  BY <2>5, <3>1, <3>2
    <2> HIDE DEF f
    <2> QED  BY <2>3, <2>6, <2>8, <2>9, SameList
<1>3. ASSUME \A h \in Range(Sections) : ~Covers(h, a, n)
      PROVE  Read(a, n) = Zeros(n)
    <2> SUFFICES ASSUME NEW s \in regions, Within(s, a, n)
                 PROVE  FALSE
        BY ReadElsewhere
    <2>1. PICK h \in Range(Sections) : s = RegionOf(h)  BY SoundRegions
    <2>2. h \in SectionHeader /\ EnoughFor(h)  BY SoundRegions
    <2>3. s.base = h.va /\ Len(s.data) = h.size  BY <1>1, <2>1, <2>2, RegionOfIs
    <2>4. s.base <= a /\ a + n <= s.base + Len(s.data)  BY <1>1, WithinBounds
    <2> QED  BY <1>3, <2>3, <2>4 DEF Covers
<1> QED  BY <1>2, <1>3

LEMMA ImageInv_Memory ==
    ASSUME ImageInv
    PROVE  MemoryShowsTheFile
<1> SUFFICES ASSUME loading = "loaded"
             PROVE  /\ \A a \in 0 .. kGcMaxVa + 1, n \in {1, 2} :
                         Read(a, n) # Zeros(n) =>
                           \E h \in Range(Sections) :
                             /\ Covers(h, a, n)
                             /\ \A i \in 1 .. n :
                                  Read(a, n)[i] # 0 => Read(a, n)[i] = InFile(h, a, n)[i]
                    /\ Sound => \A h \in Range(Sections), n \in {1, 2} :
                                  \A a \in h.va .. h.va + h.size - n :
                                    Read(a, n) = InFile(h, a, n)
    BY DEF MemoryShowsTheFile
<1>1. \A n \in {1, 2} : n \in Nat \ {0}  OBVIOUS
<1>2. \A a \in 0 .. kGcMaxVa + 1 : a \in Int  OBVIOUS
<1>3. ASSUME Sound, NEW h \in Range(Sections), NEW n \in {1, 2},
             NEW a \in h.va .. h.va + h.size - n
      PROVE  Read(a, n) = InFile(h, a, n)
    <2>1. h \in SectionHeader  BY <1>3, SoundRegions DEF Finished
    <2>2. h.va \in Nat /\ h.size \in Nat  BY <2>1 DEF SectionHeader
    <2>3. Covers(h, a, n) /\ a \in Int  BY <2>2 DEF Covers
    <2> QED  BY <1>1, <1>3, <2>3, SoundRead DEF Finished
<1> QED  BY <1>1, <1>2, <1>3, ValueFromFile

-----------------------------------------------------------------------------
(* The save routines are found *)

LEMMA Least ==
    ASSUME NEW S, S \subseteq Nat, S # {}
    PROVE  \E n \in S : \A m \in S : n <= m
<1> DEFINE R == {p \in Nat \X Nat : p[1] < p[2]}
<1>1. R = OpToRel(<, Nat)  BY Zenon DEF OpToRel
<1>2. IsWellFoundedOn(R, Nat)  BY <1>1, NatLessThanWellFounded, Zenon
<1>3. PICK n \in S : \A m \in S : ~(<<m, n>> \in R)
    <2> HIDE DEF R
    <2> QED  BY <1>2, WFMin
<1>4. ASSUME NEW m \in S
      PROVE  n <= m
    <2>1. m \in Nat /\ n \in Nat  OBVIOUS
    <2>2. m < n => <<m, n>> \in R  BY <2>1, Zenon
    <2> QED  BY <1>3, <2>1, <2>2
<1> QED  BY <1>4

\* A compiled pattern is a list.
LEMMA PatternIsList ==
    ASSUME NEW text \in {kSaveGprPattern, kRestGprPattern}
    PROVE  /\ Len(compile_pattern(text)) \in 1 .. AbiSize /\ AbiSize \in Nat
           /\ DOMAIN compile_pattern(text) = 1 .. Len(compile_pattern(text))
<1> DEFINE n == (Len(text) + 1) \div 3
           pairs == [k \in 1 .. n |-> 3 * k - 2]
           Known(i) == \/ text[i] = "?" /\ text[i + 1] = "?"
                       \/ IsHex(text[i]) /\ IsHex(text[i + 1])
           Entry(i) == IF text[i] = "?" THEN None
                       ELSE 16 * HexDigit[text[i]] + HexDigit[text[i + 1]]
           K == {k \in DOMAIN pairs : Known(pairs[k])}
           known == Pick(pairs, K)
           cpat == [k \in DOMAIN known |-> Entry(known[k])]
<1>1. compile_pattern(text) = cpat  BY DEF compile_pattern
<1>2. text \in Seq(STRING)  BY PatternAssumption
<1>3. Len(text) \in Nat  BY <1>2, LenProperties
<1>4. n \in Nat  BY <1>3
<1> HIDE DEF n, Known, Entry
<1>5. pairs \in [1 .. n -> Int]  BY <1>4
<1>6. pairs \in Seq(Int) /\ Len(pairs) = n  BY <1>4, <1>5, FunctionIsList
<1>7. K \in SUBSET (1 .. Len(pairs))  BY <1>6
<1> HIDE DEF pairs, K
<1>8. known \in Seq(Int)  BY <1>6, <1>7, PickIs
<1>9. DOMAIN known = 1 .. Len(known) /\ Len(known) \in Nat  BY <1>8, LenProperties
<1> HIDE DEF known
<1> DEFINE m == Len(known)
           E == {Entry(known[k]) : k \in 1 .. m}
<1>10. m \in Nat /\ cpat \in [1 .. m -> E]  BY <1>9
<1> HIDE DEF E, cpat
<1>11. cpat \in Seq(E)  BY <1>10
<1>12. DOMAIN cpat = 1 .. Len(cpat)  BY <1>11, LenProperties
<1> QED  BY <1>1, <1>12, PatternAssumption

\* A linear scan stops at the first match, or finds that there is none.
LEMMA LinearScan ==
    ASSUME NEW data, NEW cpat, Len(data) \in Nat, Len(cpat) \in Nat
    PROVE  LET i == pattern_scan_linear(data, cpat)
           IN  \/ /\ i = None
                  /\ \A j \in 0 .. Len(data) - Len(cpat) : ~MatchesAt(cpat, data, j)
               \/ /\ i # None /\ i \in 0 .. Len(data) - Len(cpat)
                  /\ MatchesAt(cpat, data, i)
<1> DEFINE found == {j \in 0 .. Len(data) - Len(cpat) : MatchesAt(cpat, data, j)}
<1>1. pattern_scan_linear(data, cpat) =
        IF found = {} THEN None ELSE CHOOSE i \in found : \A k \in found : i <= k
    BY DEF pattern_scan_linear
<1>2. found \subseteq Nat /\ found \subseteq 0 .. Len(data) - Len(cpat)  OBVIOUS
<1>3. \A j \in found : MatchesAt(cpat, data, j)  OBVIOUS
<1>4. \A j \in 0 .. Len(data) - Len(cpat) : MatchesAt(cpat, data, j) => j \in found  OBVIOUS
<1> HIDE DEF found
<1>5. CASE found = {}  BY <1>1, <1>4, <1>5
<1>6. CASE found # {}
    <2>1. \E i \in found : \A k \in found : i <= k  BY <1>2, <1>6, Least
    <2> DEFINE i == pattern_scan_linear(data, cpat)
    <2>2. i \in found  BY <1>1, <1>6, <2>1
    <2>3. i # None
        <3> HIDE DEF i
        <3>1. i \in Nat  BY ONLY <1>2, <2>2
        <3>2. None \notin Nat  BY ImageAssumption
        <3> QED  BY ONLY <3>1, <3>2
    <2> HIDE DEF i
    <2>4. i \in 0 .. Len(data) - Len(cpat) /\ MatchesAt(cpat, data, i)
        BY <1>2, <1>3, <2>2
    <2> QED  BY <2>3, <2>4 DEF i
<1> QED  BY <1>5, <1>6

\* What the scan of one text section gives.
LEMMA ScanOfHeader ==
    ASSUME ImageInv, NEW h, h.va \in Nat, NEW cpat, Len(cpat) \in Nat \ {0},
           DOMAIN cpat = 1 .. Len(cpat)
    PROVE  LET a == ScanOf(h, cpat)
           IN  /\ a # None => a \in Nat /\ MatchesAt(cpat, Read(a, Len(cpat)), 0)
               /\ a = None =>
                    \A s \in regions : Covering(s, h.va) =>
                      \A j \in 0 .. Len(s.data) - Len(cpat) : ~MatchesAt(cpat, s.data, j)
<1> DEFINE there == Query(h.va, h.va + 1)
           a == ScanOf(h, cpat)
           s == CHOOSE s \in there : TRUE
           i == pattern_scan_linear(s.data, cpat)
           m == Len(cpat)
<1>1. ImageTypeOK /\ RegionsApart  BY DEF ImageInv
<1>2. \A t \in regions : t.base \in Nat /\ Len(t.data) \in Nat /\ Right(t) = t.base + Len(t.data)
    BY <1>1, RegionParts
<1>3. \A t \in regions : t \in there <=> Covering(t, h.va)
    BY <1>2 DEF Query, Covering
<1>4. there \subseteq regions  BY DEF Query
<1>5. a = IF there = {} THEN None ELSE IF i = None THEN None ELSE i + s.base
    BY DEF ScanOf
<1> HIDE DEF there, a
<1>6. CASE there = {}
    <2>1. a = None  BY <1>5, <1>6
    <2>2. \A t \in regions : ~Covering(t, h.va)  BY <1>3, <1>6
    <2> QED  BY <2>1, <2>2 DEF a
<1>7. CASE there # {}
    <2>1. s \in there  BY <1>7
    <2>2. s \in regions /\ Covering(s, h.va)  BY <1>3, <1>4, <2>1
    <2> HIDE DEF s
    <2>3. s.base \in Nat /\ Len(s.data) \in Nat /\ Right(s) = s.base + Len(s.data)
        BY <1>2, <2>2
    <2>4. \/ /\ i = None
             /\ \A j \in 0 .. Len(s.data) - m : ~MatchesAt(cpat, s.data, j)
          \/ /\ i # None /\ i \in 0 .. Len(s.data) - m
             /\ MatchesAt(cpat, s.data, i)
        BY <2>3, LinearScan
    <2> HIDE DEF i
    <2>5. CASE i = None
        <3>1. a = None  BY <1>5, <2>5
        <3>2. \A t \in regions : Covering(t, h.va) => t = s
            BY <1>1, <2>2 DEF RegionsApart
        <3> QED  BY <2>4, <2>5, <3>1, <3>2 DEF a
    <2>6. CASE i # None
        <3>1. a = i + s.base  BY <1>5, <1>7, <2>6
        <3>2. i \in 0 .. Len(s.data) - m /\ MatchesAt(cpat, s.data, i)  BY <2>4, <2>6
        <3>3. a \in Nat /\ a - s.base = i  BY <2>3, <3>1, <3>2
        <3>4. Within(s, a, m)
            BY <2>3, <3>1, <3>2 DEF Within, Covering
        <3>5. \A j \in 1 .. m : Read(a, m)[j] = s.data[i + j]
            BY <1>1, <2>2, <3>3, <3>4, ReadWithin
        <3>6. MatchesAt(cpat, Read(a, m), 0)
            BY <3>2, <3>5 DEF MatchesAt
        <3> QED  BY <3>3, <3>6, ImageAssumption DEF a
    <2> QED  BY <2>5, <2>6
<1> QED  BY <1>6, <1>7

\* The scan of the code gives what one of its sections gives.
LEMMA ScanOfCode ==
    ASSUME ImageTypeOK, NEW text
    PROVE  LET a == pattern_scan_code(text)
               cpat == compile_pattern(text)
           IN  /\ a # None =>
                    \E k \in DOMAIN text_sections : a = ScanOf(text_sections[k], cpat)
               /\ a = None =>
                    \A k \in DOMAIN text_sections : ScanOf(text_sections[k], cpat) = None
<1> DEFINE a == pattern_scan_code(text)
           cpat == compile_pattern(text)
           scans == [k \in DOMAIN text_sections |-> ScanOf(text_sections[k], cpat)]
           Hit == {k \in DOMAIN scans : scans[k] # None}
           First(k) == scans[k] # None /\ \A l \in 1 .. k - 1 : scans[l] = None
           k0 == CHOOSE k \in DOMAIN scans : First(k)
<1>1. a = IF \A k \in DOMAIN scans : scans[k] = None THEN None ELSE scans[k0]
    BY DEF pattern_scan_code
<1>2. /\ Len(text_sections) \in Nat /\ DOMAIN text_sections = 1 .. Len(text_sections)
    BY LenProperties DEF ImageTypeOK
<1>3. DOMAIN scans = 1 .. Len(text_sections)  BY <1>2
<1>4. \A k \in 1 .. Len(text_sections) : scans[k] = ScanOf(text_sections[k], cpat)  BY <1>2
<1> HIDE DEF scans, cpat, a
<1>5. CASE Hit = {}
    <2>1. \A k \in DOMAIN scans : scans[k] = None  BY <1>5
    <2>2. a = None  BY <1>1, <2>1
    <2> QED  BY <1>2, <1>3, <1>4, <2>1, <2>2 DEF a, cpat
<1>6. CASE Hit # {}
    <2>1. Hit \subseteq Nat  BY <1>3
    <2>2. PICK k \in Hit : \A m \in Hit : k <= m  BY <1>6, <2>1, Least
    <2>3. k \in DOMAIN scans /\ First(k)
        <3>1. k \in 1 .. Len(text_sections) /\ scans[k] # None  BY <1>3, <2>2
        <3>2. ASSUME NEW l \in 1 .. k - 1
              PROVE  scans[l] = None
            <4>1. l \in 1 .. Len(text_sections) /\ ~(k <= l)  BY <1>2, <3>1
            <4> QED  BY <1>3, <2>2, <4>1
        <3> QED  BY <1>3, <3>1, <3>2
    <2>4. k0 \in DOMAIN scans /\ First(k0)
        <3> HIDE DEF First
        <3> QED  BY <2>3
    <2>5. ~ \A l \in DOMAIN scans : scans[l] = None  BY <2>3
    <2> HIDE DEF k0
    <2>6. a = scans[k0]  BY <1>1, <2>5
    <2>7. a # None  BY <2>4, <2>6
    <2> QED  BY <1>2, <1>3, <1>4, <2>4, <2>6, <2>7 DEF a, cpat
<1> QED  BY <1>5, <1>6

LEMMA ImageInv_Abi ==
    ASSUME ImageInv
    PROVE  AbiRoutinesAreFound
<1> SUFFICES ASSUME loading = "loaded",
                    NEW side \in {<<abi_conf.save, kSaveGprPattern>>,
                                  <<abi_conf.rest, kRestGprPattern>>}
             PROVE  LET cpat == compile_pattern(side[2])
                        Shows(a) == MatchesAt(cpat, Read(a, Len(cpat)), 0)
                    IN  /\ side[1] # None =>
                             Shows(side[1]) /\ is_abi_routine(side[1] + Len(cpat) - 1)
                        /\ side[1] = None /\ Sound =>
                             \A h \in Range(Sections) :
                               h.kind = "text" =>
                                 \A a \in h.va .. h.va + h.size - Len(cpat) : ~Shows(a)
    BY DEF AbiRoutinesAreFound
<1> DEFINE cpat == compile_pattern(side[2])
           m == Len(cpat)
           start == side[1]
<1>1. ImageTypeOK /\ RegionsApart  BY DEF ImageInv
<1>2. side[2] \in {kSaveGprPattern, kRestGprPattern}  OBVIOUS
<1>3. start = pattern_scan_code(side[2])  BY DEF ImageInv, Scanned
<1>4. start \in {abi_conf.save, abi_conf.rest}  OBVIOUS
<1>5. m \in 1 .. AbiSize /\ AbiSize \in Nat /\ DOMAIN cpat = 1 .. m  BY <1>2, PatternIsList
<1>6. m \in Nat \ {0}  BY <1>5
<1>7. /\ start # None =>
           \E k \in DOMAIN text_sections : start = ScanOf(text_sections[k], cpat)
      /\ start = None =>
           \A k \in DOMAIN text_sections : ScanOf(text_sections[k], cpat) = None
    BY <1>1, <1>3, ScanOfCode
<1>8. \A k \in DOMAIN text_sections : text_sections[k].va \in Nat
    <2>1. text_sections \in Seq(Place)  BY <1>1 DEF ImageTypeOK
    <2>2. \A k \in DOMAIN text_sections : text_sections[k] \in Place
        BY <2>1, LenProperties, ElementOfSeq
    <2> QED  BY <2>2 DEF Place
<1> HIDE DEF cpat, start
<1>9. ASSUME start # None
      PROVE  MatchesAt(cpat, Read(start, m), 0) /\ is_abi_routine(start + m - 1)
    <2>1. PICK k \in DOMAIN text_sections : start = ScanOf(text_sections[k], cpat)
        BY <1>7, <1>9
    <2>2. start \in Nat /\ MatchesAt(cpat, Read(start, m), 0)
        BY <1>5, <1>6, <1>8, <1>9, <2>1, ScanOfHeader
    <2>3. start + m - 1 >= start /\ start + m - 1 < start + AbiSize  BY <1>5, <2>2
    <2> QED  BY <1>4, <1>9, <2>2, <2>3 DEF is_abi_routine
<1>10. ASSUME start = None, Sound, NEW h \in Range(Sections), h.kind = "text",
              NEW a \in h.va .. h.va + h.size - m, MatchesAt(cpat, Read(a, m), 0)
       PROVE  FALSE
    <2> DEFINE s == RegionOf(h)
    <2>1. h \in SectionHeader /\ s \in regions /\ EnoughFor(h)
          /\ \E j \in DOMAIN text_sections : text_sections[j].va = h.va
        BY <1>10, SoundRegions DEF Finished
    <2>2. PICK k \in DOMAIN text_sections : text_sections[k].va = h.va  BY <2>1
    <2>3. ScanOf(text_sections[k], cpat) = None  BY <1>7, <1>10
    <2>4. h.va \in Nat /\ h.size \in Nat /\ s.base = h.va /\ Len(s.data) = h.size
          /\ \A b \in Int, n \in Nat \ {0} : Covers(h, b, n) => Within(s, b, n)
        BY <1>1, <2>1, RegionOfIs
    <2>5. a \in Int /\ Covers(h, a, m) /\ Covers(h, h.va, 1)
        BY SMTT(30), <1>6, <1>10, <2>4 DEF Covers
    <2>6. Within(s, a, m) /\ Covering(s, h.va)
        BY SMTT(30), <1>6, <2>4, <2>5 DEF Within
    <2> HIDE DEF s
    <2>7. \A j \in 0 .. Len(s.data) - m : ~MatchesAt(cpat, s.data, j)
        BY <1>5, <1>6, <1>8, <2>1, <2>2, <2>3, <2>6, ScanOfHeader
    <2>8. \A j \in 1 .. m : Read(a, m)[j] = s.data[a - s.base + j]
        BY <1>1, <1>6, <2>1, <2>5, <2>6, ReadWithin
    <2>9. a - s.base \in 0 .. Len(s.data) - m  BY <1>6, <1>10, <2>4
    <2>10. MatchesAt(cpat, s.data, a - s.base)
        BY <1>5, <1>10, <2>8 DEF MatchesAt
    <2> QED  BY <2>7, <2>9, <2>10
<1> QED  BY <1>9, <1>10 DEF start, cpat

-----------------------------------------------------------------------------
(* The numbers on a command line *)

LEMMA DigitType == \A c \in DOMAIN HexDigit : HexDigit[c] \in Nat
<1> DEFINE digits == <<{"0"}, {"1"}, {"2"}, {"3"}, {"4"}, {"5"}, {"6"}, {"7"}, {"8"}, {"9"},
                       {"a", "A"}, {"b", "B"}, {"c", "C"}, {"d", "D"}, {"e", "E"}, {"f", "F"}>>
           value(c) == (CHOOSE k \in 1 .. 16 : c \in digits[k]) - 1
<1>1. HexDigit = [c \in UNION {digits[k] : k \in 1 .. 16} |-> value(c)]  BY DEF HexDigit
<1> HIDE DEF digits
<1>2. ASSUME NEW c \in UNION {digits[k] : k \in 1 .. 16}
      PROVE  value(c) \in Nat
    <2>1. (CHOOSE k \in 1 .. 16 : c \in digits[k]) \in 1 .. 16  OBVIOUS
    <2> QED  BY <2>1
<1> HIDE DEF value
<1> QED  BY <1>1, <1>2

\* A number read from digits is a natural number: the recursion that gives it
\* is that of a function, for which there is no least place where it stops.
LEMMA PositionalType ==
    ASSUME NEW digits \in Seq(DOMAIN HexDigit), NEW radix \in Nat
    PROVE  Positional(digits, radix) \in Nat
<1> DEFINE len == Len(digits)
           d(n) == HexDigit[digits[n]]
           Solves(f, m) == f = [n \in 0 .. m |-> IF n = 0 THEN 0 ELSE radix * f[n - 1] + d(n)]
           value == CHOOSE f : Solves(f, len)
<1>1. len \in Nat /\ \A n \in 1 .. len : d(n) \in Nat
    BY LenProperties, ElementOfSeq, DigitType
<1>2. Positional(digits, radix) = value[len]  BY DEF Positional
<1> HIDE DEF len, d
<1>3. \A m \in 0 .. len : \E f : Solves(f, m)
    <2> DEFINE Bad == {m \in 0 .. len : ~ \E f : Solves(f, m)}
    <2> SUFFICES ASSUME Bad # {}
                 PROVE  FALSE
        OBVIOUS
    <2>1. Bad \subseteq Nat  BY <1>1
    <2>2. PICK m \in Bad : \A k \in Bad : m <= k
        <3> HIDE DEF Bad
        <3> QED  BY <2>1, Least
    <2>3. m \in 0 .. len /\ ~ \E f : Solves(f, m)  BY <2>2
    <2>4. m # 0
        <3> DEFINE f0 == [n \in 0 .. 0 |-> 0]
        <3>1. Solves(f0, 0)  OBVIOUS
        <3> QED  BY <2>3, <3>1
    <2>5. m \in Nat \ {0} /\ m - 1 \in 0 .. len  BY <1>1, <2>3, <2>4
    <2>6. PICK f : Solves(f, m - 1)  BY <2>2, <2>5
    <2> DEFINE g == [n \in 0 .. m |-> IF n = m THEN radix * f[m - 1] + d(m) ELSE f[n]]
    <2>7. Solves(g, m)
        <3>1. \A n \in 0 .. m : n # 0 => n - 1 \in 0 .. m - 1 /\ n - 1 \in 0 .. m /\ n - 1 # m
            BY <2>5
        <3>2. \A n \in 0 .. m - 1 : f[n] = IF n = 0 THEN 0 ELSE radix * f[n - 1] + d(n)
            BY <2>6
        <3>3. \A n \in 0 .. m : n # 0 => g[n - 1] = f[n - 1]  BY <3>1
        <3>4. ASSUME NEW n \in 0 .. m
              PROVE  g[n] = IF n = 0 THEN 0 ELSE radix * g[n - 1] + d(n)
            <4>1. CASE n = m  BY <2>5, <3>3, <4>1
            <4>2. CASE n # m
                <5>1. n \in 0 .. m - 1  BY <2>5, <4>2
                <5>2. g[n] = f[n]  BY <4>2
                <5> QED  BY <3>2, <3>3, <5>1, <5>2
            <4> QED  BY <4>1, <4>2
        <3>5. g = [n \in 0 .. m |-> g[n]]  OBVIOUS
        <3> HIDE DEF g
        <3> QED  BY <3>4, <3>5
    <2> QED  BY <2>3, <2>7
<1>4. Solves(value, len)
    <2> HIDE DEF Solves
    <2> QED  BY <1>1, <1>3
<1> HIDE DEF value
<1>5. \A n \in 0 .. len : value[n] = IF n = 0 THEN 0 ELSE radix * value[n - 1] + d(n)
    BY <1>4
<1> HIDE DEF Solves
<1>6. \A n \in 0 .. len : value[n] \in Nat
    <2> DEFINE Bad == {m \in 0 .. len : value[m] \notin Nat}
    <2> SUFFICES ASSUME Bad # {}
                 PROVE  FALSE
        OBVIOUS
    <2>1. Bad \subseteq Nat  BY <1>1
    <2>2. PICK m \in Bad : \A k \in Bad : m <= k
        <3> HIDE DEF Bad
        <3> QED  BY <2>1, Least
    <2>3. m \in 0 .. len /\ value[m] \notin Nat  BY <2>2
    <2>4. m # 0  BY <1>5, <2>3
    <2>5. m \in Nat \ {0} /\ m - 1 \in 0 .. len /\ ~(m <= m - 1) /\ m \in 1 .. len
        BY <1>1, <2>3, <2>4
    <2>6. value[m - 1] \in Nat  BY <2>2, <2>5
    <2>7. value[m] = radix * value[m - 1] + d(m)  BY <1>5, <2>3, <2>4
    <2>8. radix * value[m - 1] \in Nat  BY <2>6
    <2> QED  BY <1>1, <2>3, <2>5, <2>7, <2>8
<1> QED  BY <1>1, <1>2, <1>6

\* The characters of a word from one position on.
LEMMA EndOfWord ==
    ASSUME NEW str \in Seq(Char), NEW k \in Nat \ {0}
    PROVE  SubSeq(str, k, Len(str)) \in Seq(Char)
<1> DEFINE m == Len(str)
<1>1. m \in Nat /\ \A i \in 1 .. m : str[i] \in Char  BY LenProperties, ElementOfSeq
<1>2. k \in Int /\ \A i \in k .. m : str[i] \in Char  BY <1>1
<1> HIDE DEF m
<1>3. SubSeq(str, k, m) \in Seq(Char)  BY <1>1, <1>2, SubSeqProperties
<1> QED  BY <1>3 DEF m

\* What strtoul returns is a natural number, or there is no number.
LEMMA StrtoulType ==
    ASSUME NEW str \in Seq(Char), NEW base
    PROVE  strtoul(str, base) \in Nat \cup {NoNumber}
<1> DEFINE first == SelectInSeq(str, LAMBDA c : c \notin Blanks)
           text == IF first = 0 THEN <<>> ELSE SubSeq(str, first, Len(str))
           signed == text # <<>> /\ Head(text) \in {"+", "-"}
           number == IF signed THEN Tail(text) ELSE text
           hex == Len(number) >= 3 /\ number[1] = "0" /\ number[2] \in {"x", "X"}
           octal == base = 0 /\ ~hex /\ number # <<>> /\ number[1] = "0"
           digits == IF hex THEN SubSeq(number, 3, Len(number)) ELSE number
           radix == IF hex \/ base = 16 THEN 16 ELSE IF octal THEN 8 ELSE 10
           proper == \A c \in Range(digits) : c \in DOMAIN HexDigit /\ HexDigit[c] < radix
           value == Positional(digits, radix)
           minus == signed /\ Head(text) = "-"
<1>1. strtoul(str, base) =
        IF str = <<>> THEN 0
        ELSE IF digits = <<>> \/ ~proper THEN NoNumber
        ELSE IF value >= ULong THEN ULong - 1
        ELSE IF minus THEN (ULong - value) % ULong
        ELSE value
    BY DEF strtoul
<1>2. radix \in Nat  OBVIOUS
<1>3. first \in Nat
    <2> DEFINE I == {i \in 1 .. Len(str) : str[i] \notin Blanks}
    <2>1. first = IF I # {} THEN Min(I) ELSE 0  BY DEF SelectInSeq
    <2>2. I \subseteq Nat
        <3>1. Len(str) \in Nat  BY LenProperties
        <3> QED  BY <3>1
    <2> HIDE DEF I, first
    <2>3. I # {} => Min(I) \in I
        <3> SUFFICES ASSUME I # {}
                     PROVE  Min(I) \in I
            OBVIOUS
        <3>1. PICK i \in I : \A k \in I : i <= k  BY <2>2, Least
        <3> QED  BY <3>1 DEF Min
    <2> QED  BY <2>1, <2>2, <2>3
<1>4. text \in Seq(Char)
    <2> HIDE DEF first
    <2>1. first # 0 => first \in Nat \ {0}  BY <1>3
    <2>2. first # 0 => SubSeq(str, first, Len(str)) \in Seq(Char)  BY <2>1, EndOfWord
    <2> QED  BY <2>2
<1> HIDE DEF text
<1>5. number \in Seq(Char)
    <2>1. text # <<>> => Tail(text) \in Seq(Char)  BY <1>4, HeadTailProperties
    <2> QED  BY <1>4, <2>1
<1> HIDE DEF number
<1>6. digits \in Seq(Char)
    <2>1. SubSeq(number, 3, Len(number)) \in Seq(Char)  BY <1>5, EndOfWord
    <2> HIDE DEF hex
    <2> QED  BY <1>5, <2>1
<1> HIDE DEF digits, radix
<1>7. proper => value \in Nat
    <2> SUFFICES ASSUME proper
                 PROVE  value \in Nat
        OBVIOUS
    <2>1. digits \in Seq(Range(digits))  BY <1>6, SeqOfRange
    <2>2. Range(digits) \subseteq DOMAIN HexDigit  OBVIOUS
    <2>3. digits \in Seq(DOMAIN HexDigit)  BY <2>1, <2>2, SeqMonotonic
    <2> QED  BY <1>2, <2>3, PositionalType
<1> HIDE DEF proper, value, minus
<1>8. ULong \in Nat \ {0}  BY CommandsAssumption
<1>9. proper => ULong - 1 \in Nat /\ (ULong - value) % ULong \in Nat
    <2>1. proper => ULong - value \in Int  BY <1>7, <1>8
    <2> QED  BY <1>8, <2>1
<1> QED  BY <1>1, <1>7, <1>9

\* What is read as a number is an address, or is not a number.
LEMMA NumberType ==
    ASSUME NEW str \in Seq(Char), NEW base
    PROVE  parse_u32_base(str, base) \in 0 .. U32 - 1 \cup {NoNumber}
<1>1. strtoul(str, 0) \in Nat \cup {NoNumber}  BY StrtoulType
<1>2. U32 \in Nat \ {0}  BY CommandsAssumption
<1>3. AsU32(strtoul(str, 0)) \in 0 .. U32 - 1 \cup {NoNumber}  BY <1>1, <1>2 DEF AsU32
<1> QED  BY <1>3 DEF parse_u32_base

-----------------------------------------------------------------------------
(* The commands and the words of a command line *)

\* What the known commands have in common, and the two that read the image.
LEMMA CmdParts ==
    ASSUME KnownCommand
    PROVE  /\ Params \in Seq({"kPath", "kU32Hex", "kU32"}) /\ Len(Params) \in Nat
           /\ DOMAIN Params = 1 .. Len(Params)
           /\ Range(Cmd.opts) \subseteq {OutOption}
           /\ command = "graphviz" => Range(Cmd.opts) = {OutOption}
           /\ command = "dis" => Params = <<"kPath", "kU32Hex", "kU32">>
<1> DEFINE Found(c) == c \in Range(cmd_list) /\ c.name = command
<1>1. \E c \in Range(cmd_list) : c.name = command  BY DEF KnownCommand
<1>2. Cmd \in Range(cmd_list) /\ Cmd.name = command  BY <1>1 DEF Cmd
<1>3. Range(cmd_list) = {sCommands[i] : i \in 1 .. 5}
    BY CommandsAssumption DEF Range, sCommands
<1>4. PICK i \in 1 .. 5 : Cmd = sCommands[i]  BY <1>2, <1>3
<1>5. \/ Cmd = [name |-> "testcmd", params |-> <<>>, opts |-> <<>>]
      \/ Cmd = [name |-> "summarize", params |-> <<"kPath", "kU32Hex">>, opts |-> <<>>]
      \/ Cmd = [name |-> "graphviz", params |-> <<"kPath", "kU32Hex">>, opts |-> <<OutOption>>]
      \/ Cmd = [name |-> "sections", params |-> <<"kPath">>, opts |-> <<>>]
      \/ Cmd = [name |-> "dis", params |-> <<"kPath", "kU32Hex", "kU32">>, opts |-> <<>>]
    <2>1. i = 1 \/ i = 2 \/ i = 3 \/ i = 4 \/ i = 5  BY <1>4
    <2> QED  BY <1>4, <2>1 DEF sCommands
<1>6. Params \in Seq({"kPath", "kU32Hex", "kU32"})
    <2>1. \/ Params = <<>> \/ Params = <<"kPath", "kU32Hex">> \/ Params = <<"kPath">>
          \/ Params = <<"kPath", "kU32Hex", "kU32">>
        BY <1>5 DEF Params
    <2> DEFINE T == {"kPath", "kU32Hex", "kU32"}
    <2>2. <<>> \in Seq(T) /\ <<"kPath">> \in Seq(T)  OBVIOUS
    <2>3. <<"kPath", "kU32Hex">> \in Seq(T)  OBVIOUS
    <2>4. <<"kPath", "kU32Hex", "kU32">> \in Seq(T)  OBVIOUS
    <2> HIDE DEF T
    <2>5. Params \in Seq(T)  BY ONLY <2>1, <2>2, <2>3, <2>4
    <2> QED  BY <2>5 DEF T
<1>7. Range(Cmd.opts) \subseteq {OutOption}  BY <1>5 DEF Range
<1>8. command = "graphviz" => Range(Cmd.opts) = {OutOption}
    <2> SUFFICES ASSUME command = "graphviz"
                 PROVE  Range(Cmd.opts) = {OutOption}
        OBVIOUS
    <2>1. Cmd.opts = <<OutOption>>  BY <1>2, <1>5
    <2> QED  BY <2>1 DEF Range
<1>9. command = "dis" => Params = <<"kPath", "kU32Hex", "kU32">>  BY <1>2, <1>5 DEF Params
<1>10. Len(Params) \in Nat /\ DOMAIN Params = 1 .. Len(Params)  BY <1>6, LenProperties
<1> QED  BY <1>6, <1>7, <1>8, <1>9, <1>10

\* Two lists one after the other, and cut apart again.
Joined(u, w) ==
    /\ Len(u \o w) = Len(u) + Len(w) /\ Len(u) \in Nat /\ Len(w) \in Nat
    /\ \A i \in 1 .. Len(u) : (u \o w)[i] = u[i]
    /\ \A i \in 1 .. Len(w) : (u \o w)[Len(u) + i] = w[i]
    /\ SubSeq(u \o w, 1, Len(u)) = u
    /\ SubSeq(u \o w, Len(u) + 1, Len(u \o w)) = w

LEMMA Glued ==
    ASSUME NEW S, NEW u \in Seq(S), NEW w \in Seq(S)
    PROVE  u \o w \in Seq(S) /\ Joined(u, w)
<1> DEFINE x == u \o w
           m == Len(u)
           n == Len(w)
<1>1. m \in Nat /\ n \in Nat  BY LenProperties
<1>2. /\ x \in Seq(S) /\ Len(x) = m + n
      /\ \A i \in 1 .. m + n : x[i] = IF i <= m THEN u[i] ELSE w[i - m]
    BY ConcatProperties
<1> HIDE DEF x, m, n
<1>3. \A i \in 1 .. m : i \in 1 .. m + n /\ i <= m  BY <1>1
<1>4. \A i \in 1 .. n : m + i \in 1 .. m + n /\ ~(m + i <= m) /\ m + i - m = i  BY <1>1
<1>5. \A i \in 1 .. m : x[i] = u[i]  BY <1>2, <1>3
<1>6. ASSUME NEW i \in 1 .. n
      PROVE  x[m + i] = w[i]
    <2> DEFINE j == m + i
    <2>1. j \in 1 .. m + n /\ ~(j <= m) /\ j - m = i  BY <1>1
    <2> HIDE DEF j
    <2>2. x[j] = w[j - m]  BY <1>2, <2>1
    <2> QED  BY <2>1, <2>2 DEF j
<1>7. \A i \in 1 .. m + n : x[i] \in S  BY <1>2, ElementOfSeq
<1>8. SubSeq(x, 1, m) = u
    <2>1. \A i \in 1 .. m : x[i] \in S  BY <1>3, <1>7
    <2>2. 1 \in Int /\ m \in Int /\ (IF 1 <= m THEN m - 1 + 1 ELSE 0) = m /\ m - 1 + 1 = m
          /\ \A i \in 1 .. m : 1 + i - 1 = i
        BY <1>1
    <2>3. /\ SubSeq(x, 1, m) \in Seq(S) /\ Len(SubSeq(x, 1, m)) = m
          /\ \A i \in 1 .. m : SubSeq(x, 1, m)[i] = x[1 + i - 1]
        BY <2>1, <2>2, SubSeqProperties
    <2>4. \A i \in 1 .. m : SubSeq(x, 1, m)[i] = u[i]  BY <1>5, <2>2, <2>3
    <2> QED  BY <2>3, <2>4, SeqEqual DEF m
<1>9. SubSeq(x, m + 1, m + n) = w
    <2>1. \A i \in m + 1 .. m + n : i \in 1 .. m + n  BY <1>1
    <2>2. \A i \in m + 1 .. m + n : x[i] \in S  BY <1>7, <2>1
    <2>3. m + 1 \in Int /\ m + n \in Int
          /\ (IF m + 1 <= m + n THEN m + n - (m + 1) + 1 ELSE 0) = n
          /\ m + n - (m + 1) + 1 = n
          /\ \A i \in 1 .. n : m + 1 + i - 1 = m + i
        BY <1>1
    <2> DEFINE lo == m + 1
               hi == m + n
    <2>4. /\ SubSeq(x, lo, hi) \in Seq(S) /\ Len(SubSeq(x, lo, hi)) = n
          /\ \A i \in 1 .. n : SubSeq(x, lo, hi)[i] = x[lo + i - 1]
        <3>1. lo \in Int /\ hi \in Int /\ (\A i \in lo .. hi : x[i] \in S)
              /\ (IF lo <= hi THEN hi - lo + 1 ELSE 0) = n /\ hi - lo + 1 = n
            <4>1. lo \in Int /\ hi \in Int /\ hi - lo + 1 = n  BY <1>1
            <4>2. (IF lo <= hi THEN hi - lo + 1 ELSE 0) = n  BY <1>1
            <4> QED  BY <2>2, <4>1, <4>2
        <3> HIDE DEF lo, hi
        <3>2. /\ SubSeq(x, lo, hi) \in Seq(S)
              /\ Len(SubSeq(x, lo, hi)) = IF lo <= hi THEN hi - lo + 1 ELSE 0
              /\ \A i \in 1 .. hi - lo + 1 : SubSeq(x, lo, hi)[i] = x[lo + i - 1]
            BY <3>1, SubSeqProperties
        <3> QED  BY <3>1, <3>2
    <2>5. \A i \in 1 .. n : SubSeq(x, m + 1, m + n)[i] = w[i]  BY <1>6, <2>3, <2>4
    <2> QED  BY <2>4, <2>5, SeqEqual DEF n
<1> QED  BY <1>1, <1>2, <1>5, <1>6, <1>8, <1>9 DEF x, m, n, Joined

LEMMA Cut ==
    ASSUME NEW S, NEW x \in Seq(S), NEW n \in 0 .. Len(x)
    PROVE  x = SubSeq(x, 1, n) \o SubSeq(x, n + 1, Len(x))
<1>1. Len(x) \in Nat  BY LenProperties
<1>2. 1 \in 1 .. Len(x) + 1 /\ n \in 1 - 1 .. Len(x) /\ Len(x) \in n .. Len(x)  BY <1>1
<1>3. SubSeq(x, 1, n) \o SubSeq(x, n + 1, Len(x)) = SubSeq(x, 1, Len(x))
    BY <1>2, ConcatAdjacentSubSeq
<1> QED  BY <1>3, SubSeqFull

\* The fixed words.
Out == OutOption.opt

LEMMA WordOf ==
    ASSUME NEW S
    PROVE  /\ \A a \in S : <<a>> \in Seq(S) /\ Len(<<a>>) = 1 /\ <<a>>[1] = a
           /\ \A a, b, c \in S : /\ <<a, b, c>> \in Seq(S) /\ Len(<<a, b, c>>) = 3
                                 /\ <<a, b, c>>[1] = a
                                /\ <<a, b, c>>[2] = b
                                /\ <<a, b, c>>[3] = c
OBVIOUS

LEMMA Words ==
    /\ Dash \in Seq(Char) /\ Len(Dash) = 1 /\ Dash[1] = "-"
    /\ Dash \o Dash \in Seq(Char) /\ Len(Dash \o Dash) = 2
    /\ (Dash \o Dash)[1] = "-" /\ (Dash \o Dash)[2] = "-"
    /\ Out \in Seq(Char) /\ Len(Out) = 3 /\ Out[1] = "o" /\ Out[2] = "u" /\ Out[3] = "t"
    /\ <<"o">> \in Seq(Char) /\ Len(<<"o">>) = 1 /\ <<"o">>[1] = "o"
    /\ <<"=">> \in Seq(Char) /\ Len(<<"=">>) = 1 /\ <<"=">>[1] = "="
<1>1. "-" \in Char /\ "=" \in Char /\ "o" \in Char /\ "u" \in Char /\ "t" \in Char
    BY DEF Char
<1>2. Dash \in Seq(Char) /\ Len(Dash) = 1 /\ Dash[1] = "-"  BY <1>1, WordOf DEF Dash
<1>3. Out = <<"o", "u", "t">>  BY DEF Out, OutOption
<1>4. Out \in Seq(Char) /\ Len(Out) = 3 /\ Out[1] = "o" /\ Out[2] = "u" /\ Out[3] = "t"
    BY <1>1, <1>3, WordOf
<1>5. /\ <<"o">> \in Seq(Char) /\ Len(<<"o">>) = 1 /\ <<"o">>[1] = "o"
      /\ <<"=">> \in Seq(Char) /\ Len(<<"=">>) = 1 /\ <<"=">>[1] = "="
    BY <1>1, WordOf
<1>6. /\ Dash \o Dash \in Seq(Char) /\ Len(Dash \o Dash) = Len(Dash) + Len(Dash)
      /\ \A i \in 1 .. Len(Dash) : (Dash \o Dash)[i] = Dash[i]
      /\ \A i \in 1 .. Len(Dash) : (Dash \o Dash)[Len(Dash) + i] = Dash[i]
    <2>1. Dash \in Seq(Char) /\ Dash \in Seq(Char)  BY <1>2
    <2>2. Dash \o Dash \in Seq(Char) /\ Joined(Dash, Dash)  BY ONLY <2>1, Glued
    <2> QED  BY ONLY <2>2 DEF Joined
<1>7. Len(Dash \o Dash) = 2 /\ (Dash \o Dash)[1] = "-" /\ (Dash \o Dash)[2] = "-"
    <2>1. 1 \in 1 .. 1 /\ 1 + 1 = 2  OBVIOUS
    <2> QED  BY ONLY <1>2, <1>6, <2>1
<1> QED  BY ONLY <1>2, <1>4, <1>5, <1>6, <1>7

\* Where the first = of a word is.
LEMMA FirstEqual ==
    ASSUME NEW s \in Seq(Char)
    PROVE  LET k == SelectInSeq(s, LAMBDA c : c = "=")
           IN  /\ k \in 0 .. Len(s)
               /\ k = 0 => \A i \in 1 .. Len(s) : s[i] # "="
               /\ k # 0 => s[k] = "=" /\ \A i \in 1 .. Len(s) : s[i] = "=" => k <= i
<1> DEFINE I == {i \in 1 .. Len(s) : s[i] = "="}
           k == SelectInSeq(s, LAMBDA c : c = "=")
<1>1. k = IF I # {} THEN Min(I) ELSE 0  BY DEF SelectInSeq
<1>2. Len(s) \in Nat  BY LenProperties
<1>3. I \subseteq Nat  BY <1>2
<1>4. /\ \A i \in I : i \in 1 .. Len(s) /\ s[i] = "="
      /\ \A i \in 1 .. Len(s) : s[i] = "=" => i \in I
    OBVIOUS
<1> HIDE DEF I, k
<1>5. CASE I = {}  BY <1>1, <1>2, <1>4, <1>5 DEF k
<1>6. CASE I # {}
    <2>1. \E i \in I : \A j \in I : i <= j  BY <1>3, <1>6, Least
    <2>2. k \in I /\ \A j \in I : k <= j  BY <1>1, <1>6, <2>1 DEF Min
    <2>3. k \in 0 .. Len(s) /\ k # 0  BY <1>2, <1>4, <2>2
    <2> QED  BY <1>4, <2>2, <2>3 DEF k
<1> QED  BY <1>5, <1>6

-----------------------------------------------------------------------------
(* The steps of the parser *)

\* What depends on the command line alone.
LEMMA ParserFixed ==
    ASSUME command' = command, args' = args
    PROVE  /\ Cmd' = Cmd /\ Params' = Params /\ Rest' = Rest
           /\ KnownCommand' = KnownCommand
           /\ \A i : ValueAt(i)' = ValueAt(i)
           /\ Good' = Good
           /\ \A c : AtEnd(c)' = AtEnd(c) /\ At(c)' = At(c)
<1> DEFINE at(name) == CHOOSE c \in Range(cmd_list) : c.name = name
<1>1. Cmd = at(command) /\ Cmd' = at(command')  BY DEF Cmd
<1>2. KnownCommand' = KnownCommand  BY DEF KnownCommand
<1> HIDE DEF at
<1>3. Cmd' = Cmd  BY <1>1
<1>4. Params' = Params  BY <1>3 DEF Params
<1>5. Rest' = Rest  BY <1>4 DEF Rest
<1>6. \A i : ValueAt(i)' = ValueAt(i)  BY <1>4 DEF ValueAt
<1>7. Good' = Good  BY <1>4, <1>6 DEF Good
<1>8. \A c : AtEnd(c)' = AtEnd(c) /\ At(c)' = At(c)  BY DEF AtEnd, At
<1> QED  BY <1>2, <1>3, <1>4, <1>5, <1>6, <1>7, <1>8

\* The argument the cursor is in.
LEMMA CursorParts ==
    ASSUME ParserTypeOK
    PROVE  /\ Len(args) \in Nat /\ DOMAIN args = 1 .. Len(args)
           /\ \A i \in 1 .. Len(args) : args[i] \in Seq(Char) /\ Len(args[i]) \in Nat
           /\ curs.arg \in 1 .. Len(args) + 1 /\ curs.at \in Nat
           /\ curs = [arg |-> curs.arg, at |-> curs.at]
           /\ AtEnd(curs) <=> curs.arg = Len(args) + 1
           /\ ~AtEnd(curs) => curs.arg \in 1 .. Len(args) /\ curs.at \in 0 .. Len(args[curs.arg])
<1>1. args \in Seq(Seq(Char)) /\ curs \in [arg : 1 .. Len(args) + 1, at : Nat]
    BY DEF ParserTypeOK
<1>2. Len(args) \in Nat /\ DOMAIN args = 1 .. Len(args)  BY <1>1, LenProperties
<1>3. \A i \in 1 .. Len(args) : args[i] \in Seq(Char)  BY <1>1, ElementOfSeq
<1>4. \A i \in 1 .. Len(args) : Len(args[i]) \in Nat  BY <1>3, LenProperties
<1>5. curs.arg \in 1 .. Len(args) + 1 /\ curs.at \in Nat /\ curs = [arg |-> curs.arg, at |-> curs.at]
    BY <1>1
<1>6. AtEnd(curs) <=> curs.arg = Len(args) + 1  BY <1>2, <1>5 DEF AtEnd
<1>7. ASSUME ~AtEnd(curs)
      PROVE  curs.arg \in 1 .. Len(args) /\ curs.at \in 0 .. Len(args[curs.arg])
    <2>1. curs.arg \in 1 .. Len(args)  BY <1>2, <1>5, <1>6, <1>7
    <2>2. curs.at <= Len(args[curs.arg])  BY <1>7 DEF ParserTypeOK
    <2> QED  BY <1>4, <1>5, <2>1, <2>2
<1> QED  BY <1>2, <1>3, <1>4, <1>5, <1>6, <1>7

OptionMode == parse_mode \in {"Longopt", "Shortopt"}
OptionGiven(v) == OptionMode /\ OutOption \in Range(Cmd.opts) /\ Rest \in Short(v) \cup Long(v)

LEMMA ParserStutter ==
    ASSUME ParserInv, UNCHANGED parser
    PROVE  ParserInv'
<1> USE DEF parser
<1>1. command' = command /\ args' = args  OBVIOUS
<1>2. ParserTypeOK' /\ AtStart'
    BY <1>1, ParserFixed DEF ParserInv, ParserTypeOK, AtStart
<1>3. Taken' /\ BehindParams'
    BY <1>1, ParserFixed DEF ParserInv, Taken, BehindParams
<1>4. InParams' /\ AtHeader'
    BY <1>1, ParserFixed DEF ParserInv, InParams, AtHeader, Dashed
<1>5. AtOption'
    BY <1>1, ParserFixed DEF ParserInv, AtOption, Dashes, Last
<1>6. \A v \in Seq(Char) : OneOption(v)'
    BY <1>1, ParserFixed DEF ParserInv, OneOption, Before, After, Short, Long, Dashes
<1> QED  BY <1>2, <1>3, <1>4, <1>5, <1>6 DEF ParserInv

\* An end of the parsing that keeps the invariant.
LEMMA QuitKeeps ==
    ASSUME ParserInv, outcome = "parsing",
           NEW CONSTANT why \in {"run", "usage", "help", "error", "crash"}, Quit(why),
           parse_mode = "Start" => why \in {"usage", "help"},
           parse_mode = "Params" => why = "error" /\ ~Good,
           parse_mode = "Header" =>
             /\ why \in {"run", "error"}
             /\ why = "run" => Len(args) = Len(Params)
             /\ why = "error" => Len(args) > Len(Params) /\ ~Dashed(args[Len(Params) + 1]),
           OptionMode =>
             /\ why \in {"run", "error", "crash"}
             /\ why = "crash" =>
                  /\ OutOption \in Range(Cmd.opts)
                  /\ Last(args) \in {Dash \o <<"o">>, Dash \o Dash \o OutOption.opt,
                                     <<"o">>, OutOption.opt},
           \A v \in Seq(Char) : OptionGiven(v) => After(v) /\ why = "run"
    PROVE  ParserInv'
<1>1. /\ outcome' = why
      /\ UNCHANGED <<command, args, curs, parse_mode, parsed_args, parsed_opts>>
    BY DEF Quit
<1>2. command' = command /\ args' = args  BY <1>1
<1>3. parse_mode \in {"Start", "Params", "Header", "Longopt", "Shortopt"}
    BY DEF ParserInv, ParserTypeOK
<1>4. ParserTypeOK'  BY <1>1, <1>2, ParserFixed DEF ParserInv, ParserTypeOK
<1>5. AtStart'  BY <1>1 DEF ParserInv, AtStart
<1>6. Taken'
    <2>1. parse_mode # "Start" => why \in {"run", "error", "crash"}
        BY <1>3 DEF OptionMode
    <2> QED  BY <1>1, <1>2, <2>1, ParserFixed DEF ParserInv, Taken
<1>7. BehindParams'  BY <1>1, <1>2, ParserFixed DEF ParserInv, BehindParams
<1>8. InParams'  BY <1>1, <1>2, ParserFixed DEF ParserInv, InParams
<1>9. AtHeader'  BY <1>1, <1>2, ParserFixed DEF ParserInv, AtHeader, Dashed
<1>10. AtOption'
    BY <1>1, <1>2, ParserFixed DEF ParserInv, AtOption, Dashes, Last, OptionMode
<1>11. ASSUME NEW CONSTANT v \in Seq(Char)
       PROVE  OneOption(v)'
    <2>1. /\ OptionMode' = OptionMode /\ Cmd' = Cmd /\ Rest' = Rest
          /\ Short(v)' = Short(v) /\ Long(v)' = Long(v)
        BY <1>1, <1>2, ParserFixed DEF OptionMode, Short, Long
    <2>2. OptionGiven(v) => After(v)'
        BY <1>1, <1>2, ParserFixed DEF After
    <2> QED  BY <2>1, <2>2 DEF OneOption, OptionGiven, OptionMode
<1> QED  BY <1>4, <1>5, <1>6, <1>7, <1>8, <1>9, <1>10, <1>11 DEF ParserInv

LEMMA Dispatch_Inv ==
    ASSUME ParserInv, Dispatch
    PROVE  ParserInv'
<1>1. outcome = "parsing" /\ parse_mode = "Start"  BY DEF Dispatch
<1>2. \/ Quit("usage") \/ Quit("help")
      \/ /\ parse_mode' = "Params" /\ \E c \in Range(cmd_list) : c.name = command
         /\ UNCHANGED <<command, args, curs, parsed_args, parsed_opts, outcome>>
    BY DEF Dispatch
<1>3. ~OptionMode  BY <1>1 DEF OptionMode
<1>4. CASE Quit("usage")  BY <1>1, <1>3, <1>4, QuitKeeps DEF OptionGiven
<1>5. CASE Quit("help")  BY <1>1, <1>3, <1>5, QuitKeeps DEF OptionGiven
<1>6. CASE /\ parse_mode' = "Params" /\ \E c \in Range(cmd_list) : c.name = command
           /\ UNCHANGED <<command, args, curs, parsed_args, parsed_opts, outcome>>
    <2>1. command' = command /\ args' = args  BY <1>6
    <2>2. curs = [arg |-> 1, at |-> 0] /\ parsed_args = <<>> /\ parsed_opts = <<>>
        BY <1>1 DEF ParserInv, AtStart
    <2>3. KnownCommand  BY <1>6 DEF KnownCommand
    <2>4. Len(Params) \in Nat /\ Len(args) \in Nat
        BY <2>3, CmdParts, CursorParts DEF ParserInv
    <2>5. Len(parsed_args) = 0 /\ parsed_args = [i \in 1 .. 0 |-> ValueAt(i)]  BY <2>2
    <2>6. ParserTypeOK'  BY <1>6, <2>1, ParserFixed DEF ParserInv, ParserTypeOK
    <2>7. Taken'
        <3>1. parsed_args' = [i \in 1 .. Len(parsed_args') |-> ValueAt(i)']
            BY <1>6, <2>1, <2>5, ParserFixed
        <3> QED  BY <1>1, <1>6, <2>1, <2>3, <2>4, <2>5, <3>1, ParserFixed DEF Taken
    <2>8. InParams'  BY <1>1, <1>6, <2>2, <2>5 DEF InParams
    <2>9. AtStart' /\ BehindParams' /\ AtHeader' /\ AtOption'
        BY <1>6 DEF AtStart, BehindParams, AtHeader, AtOption
    <2>10. \A v \in Seq(Char) : OneOption(v)'  BY <1>6 DEF OneOption
    <2> QED  BY <2>6, <2>7, <2>8, <2>9, <2>10 DEF ParserInv
<1> QED  BY <1>2, <1>4, <1>5, <1>6

\* The cursor before a parameter.
LEMMA AtParameter ==
    ASSUME ParserInv, parse_mode = "Params"
    PROVE  LET m == Len(parsed_args)
           IN  /\ KnownCommand /\ m \in Nat /\ m <= Len(Params) /\ m <= Len(args)
               /\ Len(args) \in Nat /\ Len(Params) \in Nat
               /\ curs = [arg |-> m + 1, at |-> 0]
               /\ AtEnd(curs) <=> m = Len(args)
               /\ ~AtEnd(curs) => At(curs) = args[m + 1] /\ m + 1 \in 1 .. Len(args)
<1> DEFINE m == Len(parsed_args)
<1>1. ParserTypeOK  BY DEF ParserInv
<1>2. KnownCommand /\ m \in 0 .. Len(Params) /\ m <= Len(args)  BY DEF ParserInv, Taken
<1>3. Len(Params) \in Nat  BY <1>2, CmdParts
<1>4. curs = [arg |-> m + 1, at |-> 0]  BY DEF ParserInv, InParams
<1>5. /\ Len(args) \in Nat
      /\ \A i \in 1 .. Len(args) : args[i] \in Seq(Char) /\ Len(args[i]) \in Nat
      /\ AtEnd(curs) <=> curs.arg = Len(args) + 1
    BY <1>1, CursorParts
<1> HIDE DEF m
<1>6. m \in Nat /\ m <= Len(Params)  BY <1>2, <1>3
<1>7. AtEnd(curs) <=> m = Len(args)  BY <1>4, <1>5, <1>6
<1>8. ASSUME ~AtEnd(curs)
      PROVE  At(curs) = args[m + 1] /\ m + 1 \in 1 .. Len(args)
    <2>1. m + 1 \in 1 .. Len(args)  BY <1>2, <1>5, <1>6, <1>7, <1>8
    <2>2. At(curs) = SubSeq(args[m + 1], 1, Len(args[m + 1]))  BY <1>4 DEF At
    <2>3. args[m + 1] \in Seq(Char)  BY <1>5, <2>1
    <2> QED  BY <2>1, <2>2, <2>3, SubSeqFull
<1> QED  BY <1>2, <1>3, <1>4, <1>5, <1>6, <1>7, <1>8 DEF m

LEMMA ParseParam_Inv ==
    ASSUME ParserInv, ParseParam
    PROVE  ParserInv'
<1> DEFINE m == Len(parsed_args)
           type == Params[m + 1]
<1>1. outcome = "parsing" /\ parse_mode = "Params" /\ m < Len(Params)
    BY DEF ParseParam, Params
<1>2. \/ (AtEnd(curs) \/ (type # "kPath" /\ Number = NoNumber)) /\ Quit("error")
      \/ /\ ~(AtEnd(curs) \/ (type # "kPath" /\ Number = NoNumber))
         /\ parsed_args' = Append(parsed_args, IF type = "kPath" THEN At(curs) ELSE Number)
         /\ curs' = Nxt(curs)
         /\ UNCHANGED <<command, args, parse_mode, parsed_opts, outcome>>
    BY DEF ParseParam, Params
<1>3. /\ KnownCommand /\ m \in Nat /\ m <= Len(Params) /\ m <= Len(args)
      /\ Len(args) \in Nat /\ Len(Params) \in Nat
      /\ curs = [arg |-> m + 1, at |-> 0]
      /\ AtEnd(curs) <=> m = Len(args)
      /\ ~AtEnd(curs) => At(curs) = args[m + 1] /\ m + 1 \in 1 .. Len(args)
    BY <1>1, AtParameter
<1>4. m + 1 \in DOMAIN Params /\ m + 1 \in 1 .. Len(Params)  BY <1>1, <1>3, CmdParts
<1>5. ~AtEnd(curs) => ValueAt(m + 1) = IF type = "kPath" THEN At(curs) ELSE Number
    BY <1>3 DEF ValueAt, Number
<1> HIDE DEF m
<1>6. CASE (AtEnd(curs) \/ (type # "kPath" /\ Number = NoNumber)) /\ Quit("error")
    <2>1. ~Good
        <3>1. CASE AtEnd(curs)  BY <1>1, <1>3, <3>1 DEF Good
        <3>2. CASE ~AtEnd(curs)
            <4>1. type # "kPath" /\ ValueAt(m + 1) = NoNumber  BY <1>5, <1>6, <3>2
            <4> QED  BY <1>4, <4>1 DEF Good
        <3> QED  BY <3>1, <3>2
    <2>2. ~OptionMode  BY <1>1 DEF OptionMode
    <2> QED  BY <1>1, <1>6, <2>1, <2>2, QuitKeeps DEF OptionGiven
<1>7. CASE /\ ~(AtEnd(curs) \/ (type # "kPath" /\ Number = NoNumber))
           /\ parsed_args' = Append(parsed_args, IF type = "kPath" THEN At(curs) ELSE Number)
           /\ curs' = Nxt(curs)
           /\ UNCHANGED <<command, args, parse_mode, parsed_opts, outcome>>
    <2>1. command' = command /\ args' = args  BY <1>7
    <2>2. parsed_args' = Append(parsed_args, ValueAt(m + 1))  BY <1>5, <1>7
    <2>3. type # "kPath" => ValueAt(m + 1) # NoNumber  BY <1>5, <1>7
    <2>4. m + 1 \in 1 .. Len(args)  BY <1>3, <1>7
    <2>5. curs' = [arg |-> m + 2, at |-> 0]
        <3>1. curs.arg + 1 = m + 2  BY <1>3
        <3> QED  BY <1>7, <3>1 DEF Nxt
    <2> DEFINE V == {ValueAt(i) : i \in 1 .. m + 1}
    <2>6. parsed_args = [i \in 1 .. m |-> ValueAt(i)]  BY <1>1 DEF ParserInv, Taken, m
    <2>7. parsed_args \in [1 .. m -> V]
        <3>1. \A i \in 1 .. m : i \in 1 .. m + 1  BY <1>3
        <3> QED  BY <2>6, <3>1
    <2>8. parsed_args \in Seq(V) /\ Len(parsed_args) = m  BY SMTT(30), <1>3, <2>7, FunctionIsList
    <2>9. ValueAt(m + 1) \in V  BY <1>3
    <2> HIDE DEF V
    <2>10. /\ parsed_args' \in Seq(V) /\ Len(parsed_args') = m + 1
           /\ \A i \in 1 .. m : parsed_args'[i] = parsed_args[i]
           /\ parsed_args'[m + 1] = ValueAt(m + 1)
        BY <2>2, <2>8, <2>9, AppendProperties
    <2>11. DOMAIN parsed_args' = 1 .. m + 1 /\ parsed_args' = [i \in 1 .. m + 1 |-> parsed_args'[i]]
        BY <2>10, LenProperties
    <2>12. \A i \in 1 .. m + 1 : parsed_args'[i] = ValueAt(i)
        <3> SUFFICES ASSUME NEW i \in 1 .. m + 1
                     PROVE  parsed_args'[i] = ValueAt(i)
            OBVIOUS
        <3>1. i \in 1 .. m \/ i = m + 1  BY <1>3
        <3> QED  BY <2>6, <2>10, <3>1
    <2>13. parsed_args' = [i \in 1 .. m + 1 |-> ValueAt(i)]  BY <2>11, <2>12
    <2>14. ParserTypeOK'
        <3>1. m + 2 \in 1 .. Len(args) + 1 /\ (m + 2 > Len(args) <=> AtEnd(curs)')
            BY <1>3, <2>1, <2>4, <2>5 DEF AtEnd
        <3>2. curs' \in [arg : 1 .. Len(args) + 1, at : Nat]  BY <2>5, <3>1
        <3>3. ~AtEnd(curs)' => curs'.at <= Len(args[curs'.arg])
            <4>1. ~AtEnd(curs)' => m + 2 \in 1 .. Len(args)  BY <1>3, <3>1
            <4>2. \A i \in 1 .. Len(args) : Len(args[i]) \in Nat
                BY CursorParts DEF ParserInv
            <4> QED  BY <2>5, <4>1, <4>2
        <3> QED  BY <1>7, <2>1, <2>5, <3>2, <3>3 DEF ParserInv, ParserTypeOK
    <2>15. Taken'
        <3>1. \A i \in 1 .. m + 1 : Params[i] # "kPath" => ValueAt(i) # NoNumber
            <4> SUFFICES ASSUME NEW i \in 1 .. m + 1
                         PROVE  Params[i] # "kPath" => ValueAt(i) # NoNumber
                OBVIOUS
            <4>1. i \in 1 .. m \/ i = m + 1  BY <1>3
            <4>2. \A j \in 1 .. m : Params[j] # "kPath" => ValueAt(j) # NoNumber
                BY <1>1 DEF ParserInv, Taken, m
            <4> QED  BY <2>3, <4>1, <4>2
        <3>2. m + 1 \in 0 .. Len(Params) /\ m + 1 <= Len(args)  BY <1>3, <1>4, <2>4
        <3>3. parsed_args' = [i \in 1 .. Len(parsed_args') |-> ValueAt(i)']
            BY <2>1, <2>10, <2>13, ParserFixed
        <3>4. outcome' = "parsing" /\ parse_mode' = "Params"  BY <1>1, <1>7
        <3>5. KnownCommand' /\ Params' = Params /\ \A i : ValueAt(i)' = ValueAt(i)
            BY <1>3, <2>1, ParserFixed
        <3> QED  BY <2>1, <2>10, <3>1, <3>2, <3>3, <3>4, <3>5 DEF Taken
    <2>16. InParams'
        <3>1. curs' = [arg |-> Len(parsed_args') + 1, at |-> 0]
            <4>1. Len(parsed_args') + 1 = m + 2  BY <1>3, <2>10
            <4> QED  BY <2>5, <4>1
        <3> QED  BY <1>1, <1>7, <3>1 DEF ParserInv, InParams
    <2>17. AtStart' /\ BehindParams' /\ AtHeader' /\ AtOption'
        BY <1>1, <1>7 DEF AtStart, BehindParams, AtHeader, AtOption
    <2>18. \A v \in Seq(Char) : OneOption(v)'  BY <1>1, <1>7 DEF OneOption
    <2> QED  BY <2>14, <2>15, <2>16, <2>17, <2>18 DEF ParserInv
<1> QED  BY <1>2, <1>6, <1>7

LEMMA StartOptions_Inv ==
    ASSUME ParserInv, StartOptions
    PROVE  ParserInv'
<1>1. /\ outcome = "parsing" /\ parse_mode = "Params" /\ Len(parsed_args) = Len(Params)
      /\ parse_mode' = "Header"
      /\ UNCHANGED <<command, args, curs, parsed_args, parsed_opts, outcome>>
    BY DEF StartOptions, Params
<1>2. command' = command /\ args' = args  BY <1>1
<1>3. ParserTypeOK'  BY <1>1, <1>2, ParserFixed DEF ParserInv, ParserTypeOK
<1>4. Taken'  BY <1>1, <1>2, ParserFixed DEF ParserInv, Taken
<1>5. BehindParams'  BY <1>1, <1>2, ParserFixed DEF BehindParams
<1>6. AtHeader'
    <2>1. curs = [arg |-> Len(Params) + 1, at |-> 0] /\ parsed_opts = <<>>
        BY <1>1 DEF ParserInv, InParams
    <2> QED  BY <1>1, <1>2, <2>1, ParserFixed DEF AtHeader
<1>7. AtStart' /\ InParams' /\ AtOption'  BY <1>1 DEF AtStart, InParams, AtOption
<1>8. \A v \in Seq(Char) : OneOption(v)'  BY <1>1 DEF OneOption
<1> QED  BY <1>3, <1>4, <1>5, <1>6, <1>7, <1>8 DEF ParserInv

\* Where the options begin.
LEMMA BehindParameters ==
    ASSUME ParserInv, InOptions
    PROVE  /\ outcome = "parsing" /\ parse_mode \in {"Header", "Longopt", "Shortopt"}
           /\ ParserTypeOK /\ KnownCommand
           /\ Len(args) \in Nat /\ Len(Params) \in Nat
           /\ Len(parsed_args) = Len(Params) /\ Len(Params) <= Len(args)
<1>1. outcome = "parsing" /\ parse_mode \in {"Header", "Longopt", "Shortopt"}  BY DEF InOptions
<1>2. KnownCommand /\ Len(parsed_args) <= Len(args)  BY <1>1 DEF ParserInv, Taken
<1>3. Len(parsed_args) = Len(Params)  BY <1>1 DEF ParserInv, BehindParams
<1> QED  BY <1>1, <1>2, <1>3, CmdParts, CursorParts DEF ParserInv

LEMMA EndOptions_Inv ==
    ASSUME ParserInv, EndOptions
    PROVE  ParserInv'
<1>1. InOptions /\ AtEnd(curs) /\ Quit("run")  BY DEF EndOptions
<1>2. /\ outcome = "parsing" /\ parse_mode \in {"Header", "Longopt", "Shortopt"}
      /\ ParserTypeOK /\ KnownCommand
      /\ Len(args) \in Nat /\ Len(Params) \in Nat
      /\ Len(parsed_args) = Len(Params) /\ Len(Params) <= Len(args)
    BY <1>1, BehindParameters
<1>3. curs.arg = Len(args) + 1  BY <1>1, <1>2, CursorParts
<1>4. parse_mode = "Header" => Len(args) = Len(Params)
    <2> SUFFICES ASSUME parse_mode = "Header"
                 PROVE  Len(args) = Len(Params)
        OBVIOUS
    <2>1. curs.arg = Len(Params) + 1  BY DEF ParserInv, AtHeader
    <2> QED  BY <1>2, <1>3, <2>1
<1>5. ASSUME NEW v \in Seq(Char), OptionGiven(v)
      PROVE  After(v)
    <2>1. Before("Shortopt") \/ Before("Longopt") \/ After(v)
        BY <1>5 DEF ParserInv, OneOption, OptionGiven, OptionMode
    <2>2. Len(args) > Len(Params)  BY <1>5 DEF ParserInv, AtOption, OptionGiven, OptionMode
    <2>3. curs.arg # Len(Params) + 1  BY <1>2, <1>3, <2>2
    <2> QED  BY <2>1, <2>3 DEF Before
<1> QED  BY <1>1, <1>2, <1>4, <1>5, QuitKeeps

\* What stands behind the parameters.
LEMMA RestIs ==
    ASSUME ParserTypeOK, KnownCommand
    PROVE  LET n == Len(Params)
           IN  /\ Len(args) \in Nat /\ n \in Nat
               /\ Len(Rest) = IF n + 1 <= Len(args) THEN Len(args) - n ELSE 0
               /\ \A i \in 1 .. Len(args) - n : Rest[i] = args[n + i]
               /\ Rest \in Seq(Seq(Char))
<1> DEFINE n == Len(Params)
           m == Len(args)
           lo == n + 1
<1>1. n \in Nat /\ m \in Nat /\ \A i \in 1 .. m : args[i] \in Seq(Char)
    BY CmdParts, CursorParts
<1>2. Rest = SubSeq(args, lo, m)  BY DEF Rest
<1> HIDE DEF n, m
<1>3. lo \in Int /\ m \in Int /\ (\A i \in lo .. m : i \in 1 .. m)
      /\ (IF lo <= m THEN m - lo + 1 ELSE 0) = (IF n + 1 <= m THEN m - n ELSE 0)
      /\ \A i \in 1 .. m - n : i \in 1 .. m - lo + 1 /\ lo + i - 1 = n + i
    BY <1>1
<1>4. \A i \in lo .. m : args[i] \in Seq(Char)  BY <1>1, <1>3
<1> HIDE DEF lo
<1>5. /\ SubSeq(args, lo, m) \in Seq(Seq(Char))
      /\ Len(SubSeq(args, lo, m)) = IF lo <= m THEN m - lo + 1 ELSE 0
      /\ \A i \in 1 .. m - lo + 1 : SubSeq(args, lo, m)[i] = args[lo + i - 1]
    BY <1>3, <1>4, SubSeqProperties
<1>6. \A i \in 1 .. m - n : Rest[i] = args[n + i]  BY <1>2, <1>3, <1>5
<1>7. Len(Rest) = IF n + 1 <= m THEN m - n ELSE 0  BY <1>2, <1>3, <1>5
<1> QED  BY <1>1, <1>2, <1>5, <1>6, <1>7 DEF n, m

LEMMA RestOfOne ==
    ASSUME ParserTypeOK, KnownCommand, NEW a, Rest = <<a>>
    PROVE  Len(args) = Len(Params) + 1 /\ args[Len(Params) + 1] = a
<1> DEFINE n == Len(Params)
           m == Len(args)
<1>1. /\ m \in Nat /\ n \in Nat
      /\ Len(Rest) = IF n + 1 <= m THEN m - n ELSE 0
      /\ \A i \in 1 .. m - n : Rest[i] = args[n + i]
    BY RestIs
<1>2. Len(Rest) = 1 /\ Rest[1] = a  BY WordOf
<1> HIDE DEF n, m
<1>3. m = n + 1  BY <1>1, <1>2
<1>4. 1 \in 1 .. m - n  BY <1>1, <1>3
<1> QED  BY <1>1, <1>2, <1>3, <1>4 DEF n, m

LEMMA RestOfTwo ==
    ASSUME ParserTypeOK, KnownCommand, NEW a, NEW b, Rest = <<a, b>>
    PROVE  /\ Len(args) = Len(Params) + 2
           /\ args[Len(Params) + 1] = a /\ args[Len(Params) + 2] = b
<1> DEFINE n == Len(Params)
           m == Len(args)
<1>1. /\ m \in Nat /\ n \in Nat
      /\ Len(Rest) = IF n + 1 <= m THEN m - n ELSE 0
      /\ \A i \in 1 .. m - n : Rest[i] = args[n + i]
    BY RestIs
<1>2. Len(Rest) = 2 /\ Rest[1] = a /\ Rest[2] = b  OBVIOUS
<1> HIDE DEF n, m
<1>3. m = n + 2  BY <1>1, <1>2
<1>4. 1 \in 1 .. m - n /\ 2 \in 1 .. m - n  BY <1>1, <1>3
<1> QED  BY <1>1, <1>2, <1>3, <1>4 DEF n, m

\* The spellings of an option, taken apart.
LEMMA ShortWords ==
    ASSUME NEW v \in Seq(Char)
    PROVE  /\ LET x == Dash \o <<"o">>
              IN  /\ x \in Seq(Char) /\ Len(x) = 2 /\ x[1] = "-" /\ x[2] = "o"
                  /\ SubSeq(x, 2, Len(x)) = <<"o">>
           /\ LET x == Dash \o <<"o">> \o v
              IN  /\ x \in Seq(Char) /\ Len(x) = 2 + Len(v) /\ x[1] = "-" /\ x[2] = "o"
                  /\ SubSeq(x, 2, Len(x)) = <<"o">> \o v
                  /\ SubSeq(x, 3, Len(x)) = v
           /\ LET w == <<"o">> \o v
              IN  w \in Seq(Char) /\ Len(w) = 1 + Len(v) /\ w[1] = "o"
           /\ Len(v) \in Nat
<1> DEFINE O == <<"o">>
           a == Dash \o O
           w == O \o v
<1>1. /\ Dash \in Seq(Char) /\ Len(Dash) = 1 /\ Dash[1] = "-"
      /\ O \in Seq(Char) /\ Len(O) = 1 /\ O[1] = "o"
    BY Words
<1>2. 1 + 1 = 2 /\ 2 + 1 = 3 /\ 1 \in 1 .. 1 /\ 1 \in 1 .. 2 /\ 2 \in 1 .. 2  OBVIOUS
<1> HIDE DEF O
<1>3. a \in Seq(Char) /\ Len(a) = 2 /\ a[1] = "-" /\ a[2] = "o" /\ SubSeq(a, 2, Len(a)) = O
    <2>1. /\ Dash \o O \in Seq(Char) /\ Len(Dash \o O) = Len(Dash) + Len(O)
          /\ \A i \in 1 .. Len(Dash) : (Dash \o O)[i] = Dash[i]
          /\ \A i \in 1 .. Len(O) : (Dash \o O)[Len(Dash) + i] = O[i]
          /\ SubSeq(Dash \o O, Len(Dash) + 1, Len(Dash \o O)) = O
        <3>1. Dash \in Seq(Char) /\ O \in Seq(Char)  BY <1>1
        <3>2. Dash \o O \in Seq(Char) /\ Joined(Dash, O)  BY ONLY <3>1, Glued
        <3> QED  BY ONLY <3>2 DEF Joined
    <2> QED  BY ONLY <1>1, <1>2, <2>1
<1>4. w \in Seq(Char) /\ Len(w) = 1 + Len(v) /\ w[1] = "o" /\ Len(v) \in Nat
    <2>1. /\ O \o v \in Seq(Char) /\ Len(O \o v) = Len(O) + Len(v) /\ Len(v) \in Nat
          /\ \A i \in 1 .. Len(O) : (O \o v)[i] = O[i]
        <3>1. O \in Seq(Char) /\ v \in Seq(Char)  BY <1>1
        <3>2. O \o v \in Seq(Char) /\ Joined(O, v)  BY ONLY <3>1, Glued
        <3> QED  BY ONLY <3>2 DEF Joined
    <2> QED  BY ONLY <1>1, <1>2, <2>1
<1>5. a \o v = Dash \o w  BY <1>1, ConcatAssociative
<1> HIDE DEF a, w
<1>6. /\ a \o v \in Seq(Char) /\ Len(a \o v) = 2 + Len(v)
      /\ (a \o v)[1] = "-" /\ (a \o v)[2] = "o"
      /\ SubSeq(a \o v, 3, Len(a \o v)) = v
    <2>1. /\ a \o v \in Seq(Char) /\ Len(a \o v) = Len(a) + Len(v)
          /\ \A i \in 1 .. Len(a) : (a \o v)[i] = a[i]
          /\ SubSeq(a \o v, Len(a) + 1, Len(a \o v)) = v
        <3>1. a \in Seq(Char) /\ v \in Seq(Char)  BY <1>3
        <3>2. a \o v \in Seq(Char) /\ Joined(a, v)  BY ONLY <3>1, Glued
        <3> QED  BY ONLY <3>2 DEF Joined
    <2> QED  BY ONLY <1>2, <1>3, <2>1
<1>7. SubSeq(a \o v, 2, Len(a \o v)) = w
    <2>1. SubSeq(Dash \o w, Len(Dash) + 1, Len(Dash \o w)) = w
        <3>1. Dash \in Seq(Char) /\ w \in Seq(Char)  BY <1>1, <1>4
        <3>2. Dash \o w \in Seq(Char) /\ Joined(Dash, w)  BY ONLY <3>1, Glued
        <3> QED  BY ONLY <3>2 DEF Joined
    <2> QED  BY ONLY <1>1, <1>2, <1>5, <2>1
<1> QED  BY <1>3, <1>4, <1>6, <1>7 DEF O, a, w

LEMMA LongWords ==
    ASSUME NEW v \in Seq(Char)
    PROVE  /\ LET x == Dash \o Dash \o Out
              IN  /\ x \in Seq(Char) /\ Len(x) = 5 /\ x[1] = "-" /\ x[2] = "-"
                  /\ SubSeq(x, 3, Len(x)) = Out
           /\ LET x == Dash \o Dash \o Out \o <<"=">> \o v
                  w == Out \o (<<"=">> \o v)
              IN  /\ x \in Seq(Char) /\ Len(x) = 6 + Len(v) /\ x[1] = "-" /\ x[2] = "-"
                  /\ SubSeq(x, 3, Len(x)) = w
                  /\ SubSeq(x, 7, Len(x)) = v
                  /\ w \in Seq(Char) /\ Len(w) = 4 + Len(v) /\ w[4] = "="
                  /\ \A i \in 1 .. 3 : w[i] = Out[i]
                  /\ SubSeq(w, 1, 3) = Out
           /\ Len(v) \in Nat
<1> DEFINE E == <<"=">>
           D == Dash \o Dash
           l == D \o Out
           t == E \o v
           w == Out \o t
           p == l \o E
<1>1. /\ D \in Seq(Char) /\ Len(D) = 2 /\ D[1] = "-" /\ D[2] = "-"
      /\ Out \in Seq(Char) /\ Len(Out) = 3
      /\ E \in Seq(Char) /\ Len(E) = 1 /\ E[1] = "="
    BY Words
<1>2. /\ 2 + 3 = 5 /\ 5 + 1 = 6 /\ 6 + 1 = 7 /\ 2 + 1 = 3 /\ 3 + 1 = 4
      /\ 1 \in 1 .. 1 /\ 1 \in 1 .. 2 /\ 2 \in 1 .. 2 /\ 1 \in 1 .. 5 /\ 2 \in 1 .. 5
      /\ 1 \in 1 .. 6 /\ 2 \in 1 .. 6
    OBVIOUS
<1> HIDE DEF E, D
<1>3. l \in Seq(Char) /\ Len(l) = 5 /\ l[1] = "-" /\ l[2] = "-" /\ SubSeq(l, 3, Len(l)) = Out
    <2>1. /\ D \o Out \in Seq(Char) /\ Len(D \o Out) = Len(D) + Len(Out)
          /\ \A i \in 1 .. Len(D) : (D \o Out)[i] = D[i]
          /\ SubSeq(D \o Out, Len(D) + 1, Len(D \o Out)) = Out
        <3>1. D \in Seq(Char) /\ Out \in Seq(Char)  BY <1>1
        <3>2. D \o Out \in Seq(Char) /\ Joined(D, Out)  BY ONLY <3>1, Glued
        <3> QED  BY ONLY <3>2 DEF Joined
    <2> QED  BY ONLY <1>1, <1>2, <2>1
<1>4. t \in Seq(Char) /\ Len(t) = 1 + Len(v) /\ t[1] = "=" /\ Len(v) \in Nat
    <2>1. /\ E \o v \in Seq(Char) /\ Len(E \o v) = Len(E) + Len(v) /\ Len(v) \in Nat
          /\ \A i \in 1 .. Len(E) : (E \o v)[i] = E[i]
        <3>1. E \in Seq(Char) /\ v \in Seq(Char)  BY <1>1
        <3>2. E \o v \in Seq(Char) /\ Joined(E, v)  BY ONLY <3>1, Glued
        <3> QED  BY ONLY <3>2 DEF Joined
    <2> QED  BY ONLY <1>1, <1>2, <2>1
<1> HIDE DEF l, t
<1>5. /\ w \in Seq(Char) /\ Len(w) = 4 + Len(v) /\ w[4] = "="
      /\ \A i \in 1 .. 3 : w[i] = Out[i]
      /\ SubSeq(w, 1, 3) = Out
    <2>1. /\ Out \o t \in Seq(Char) /\ Len(Out \o t) = Len(Out) + Len(t)
          /\ \A i \in 1 .. Len(Out) : (Out \o t)[i] = Out[i]
          /\ \A i \in 1 .. Len(t) : (Out \o t)[Len(Out) + i] = t[i]
          /\ SubSeq(Out \o t, 1, Len(Out)) = Out
        <3>1. Out \in Seq(Char) /\ t \in Seq(Char)  BY <1>1, <1>4
        <3>2. Out \o t \in Seq(Char) /\ Joined(Out, t)  BY ONLY <3>1, Glued
        <3> QED  BY ONLY <3>2 DEF Joined
    <2>2. 1 \in 1 .. Len(t) /\ 3 + Len(t) = 4 + Len(v)  BY <1>4
    <2> QED  BY ONLY <1>1, <1>2, <1>4, <2>1, <2>2
<1>6. p \in Seq(Char) /\ Len(p) = 6 /\ p[1] = "-" /\ p[2] = "-"
    <2>1. /\ l \o E \in Seq(Char) /\ Len(l \o E) = Len(l) + Len(E)
          /\ \A i \in 1 .. Len(l) : (l \o E)[i] = l[i]
        <3>1. l \in Seq(Char) /\ E \in Seq(Char)  BY <1>1, <1>3
        <3>2. l \o E \in Seq(Char) /\ Joined(l, E)  BY ONLY <3>1, Glued
        <3> QED  BY ONLY <3>2 DEF Joined
    <2> QED  BY ONLY <1>1, <1>2, <1>3, <2>1
<1>7. p \o v = D \o w
    <2>1. l \in Seq(Char) /\ E \in Seq(Char) /\ D \in Seq(Char) /\ Out \in Seq(Char)
          /\ t \in Seq(Char) /\ v \in Seq(Char)
        BY <1>1, <1>3, <1>4
    <2>2. (l \o E) \o v = l \o (E \o v)  BY ONLY SMTT(30), <2>1, ConcatAssociative
    <2>3. (D \o Out) \o t = D \o (Out \o t)  BY ONLY SMTT(30), <2>1, ConcatAssociative
    <2> QED  BY ONLY <2>2, <2>3 DEF p, l, t, w
<1> HIDE DEF p, w
<1>8. /\ p \o v \in Seq(Char) /\ Len(p \o v) = 6 + Len(v)
      /\ (p \o v)[1] = "-" /\ (p \o v)[2] = "-"
      /\ SubSeq(p \o v, 7, Len(p \o v)) = v
    <2>1. /\ p \o v \in Seq(Char) /\ Len(p \o v) = Len(p) + Len(v)
          /\ \A i \in 1 .. Len(p) : (p \o v)[i] = p[i]
          /\ SubSeq(p \o v, Len(p) + 1, Len(p \o v)) = v
        <3>1. p \in Seq(Char) /\ v \in Seq(Char)  BY <1>6
        <3>2. p \o v \in Seq(Char) /\ Joined(p, v)  BY ONLY <3>1, Glued
        <3> QED  BY ONLY <3>2 DEF Joined
    <2> QED  BY ONLY <1>2, <1>6, <2>1
<1>9. SubSeq(p \o v, 3, Len(p \o v)) = w
    <2>1. SubSeq(D \o w, Len(D) + 1, Len(D \o w)) = w
        <3>1. D \in Seq(Char) /\ w \in Seq(Char)  BY <1>1, <1>5
        <3>2. D \o w \in Seq(Char) /\ Joined(D, w)  BY ONLY <3>1, Glued
        <3> QED  BY ONLY <3>2 DEF Joined
    <2> QED  BY ONLY <1>1, <1>2, <1>7, <2>1
<1>10. D \o Out = l /\ D \o Out \o E \o v = p \o v /\ Out \o (E \o v) = w
    BY DEF l, p, w, t
<1> QED  BY ONLY <1>3, <1>4, <1>5, <1>8, <1>9, <1>10 DEF E, D

\* The argument an option is in, when its short form or its long form is used.
LEMMA ShortForm ==
    ASSUME ParserTypeOK, KnownCommand, NEW v \in Seq(Char), Rest \in Short(v)
    PROVE  LET n == Len(Params)
               x == args[Len(Params) + 1]
           IN  /\ n \in Nat /\ Len(args) \in Nat /\ Len(args) > n
               /\ x \in Seq(Char) /\ Len(x) \in Nat /\ Len(x) >= 2 /\ x[1] = "-" /\ x[2] = "o"
               /\ \/ /\ Len(args) = n + 2 /\ args[n + 2] = v
                     /\ SubSeq(x, 2, Len(x)) = <<"o">>
                  \/ /\ Len(args) = n + 1 /\ v # <<>>
                     /\ SubSeq(x, 2, Len(x)) = <<"o">> \o v
                     /\ SubSeq(x, 3, Len(x)) = v
<1> DEFINE n == Len(Params)
           x == args[n + 1]
           a == Dash \o <<"o">>
           b == Dash \o <<"o">> \o v
<1>1. n \in Nat /\ Len(args) \in Nat  BY RestIs
<1>2. /\ a \in Seq(Char) /\ Len(a) = 2 /\ a[1] = "-" /\ a[2] = "o"
      /\ SubSeq(a, 2, Len(a)) = <<"o">>
    BY ShortWords
<1>3. /\ b \in Seq(Char) /\ Len(b) = 2 + Len(v) /\ b[1] = "-" /\ b[2] = "o"
      /\ SubSeq(b, 2, Len(b)) = <<"o">> \o v
      /\ SubSeq(b, 3, Len(b)) = v
      /\ Len(v) \in Nat
    BY ShortWords
<1>4. Rest = <<a, v>> \/ (v # <<>> /\ Rest = <<b>>)  BY DEF Short
<1> HIDE DEF a, b
<1>5. ASSUME Rest = <<a, v>>
      PROVE  Len(args) = n + 2 /\ x = a /\ args[n + 2] = v
    BY <1>5, RestOfTwo
<1>6. ASSUME Rest = <<b>>
      PROVE  Len(args) = n + 1 /\ x = b
    BY <1>6, RestOfOne
<1> HIDE DEF n, x
<1>7. Len(a) \in Nat /\ Len(a) >= 2 /\ Len(b) \in Nat /\ Len(b) >= 2 /\ Len(b) >= 2
    BY <1>2, <1>3
<1>8. /\ n \in Nat /\ Len(args) \in Nat /\ Len(args) > n
             /\ x \in Seq(Char) /\ Len(x) \in Nat /\ Len(x) >= 2 /\ x[1] = "-" /\ x[2] = "o"
             /\ \/ /\ Len(args) = n + 2 /\ args[n + 2] = v
                   /\ SubSeq(x, 2, Len(x)) = <<"o">>
                \/ /\ Len(args) = n + 1 /\ v # <<>>
                   /\ SubSeq(x, 2, Len(x)) = <<"o">> \o v
                   /\ SubSeq(x, 3, Len(x)) = v
    <2>1. CASE Rest = <<a, v>>
        <3>1. Len(args) = n + 2 /\ x = a /\ args[n + 2] = v  BY <1>5, <2>1
        <3>2. Len(args) > n  BY <1>1, <3>1
        <3> QED  BY ONLY <1>1, <1>2, <1>7, <3>1, <3>2
    <2>2. CASE v # <<>> /\ Rest = <<b>>
        <3>1. Len(args) = n + 1 /\ x = b  BY <1>6, <2>2
        <3>2. Len(args) > n  BY <1>1, <3>1
        <3> QED  BY ONLY <1>1, <1>3, <1>7, <2>2, <3>1, <3>2
    <2> QED  BY <1>4, <2>1, <2>2
<1> QED  BY ONLY <1>8 DEF n, x

LEMMA LongForm ==
    ASSUME ParserTypeOK, KnownCommand, NEW v \in Seq(Char), Rest \in Long(v)
    PROVE  LET n == Len(Params)
               x == args[Len(Params) + 1]
           IN  /\ n \in Nat /\ Len(args) \in Nat /\ Len(args) > n
               /\ x \in Seq(Char) /\ Len(x) \in Nat /\ Len(x) >= 2 /\ x[1] = "-" /\ x[2] = "-"
               /\ \/ /\ Len(args) = n + 2 /\ args[n + 2] = v
                     /\ SubSeq(x, 3, Len(x)) = Out
                  \/ /\ Len(args) = n + 1 /\ Len(x) >= 6
                     /\ SubSeq(x, 3, Len(x)) = Out \o (<<"=">> \o v)
                     /\ SubSeq(x, 7, Len(x)) = v
<1> DEFINE n == Len(Params)
           x == args[n + 1]
           a == Dash \o Dash \o Out
           b == Dash \o Dash \o Out \o <<"=">> \o v
<1>1. n \in Nat /\ Len(args) \in Nat  BY RestIs
<1>2. /\ a \in Seq(Char) /\ Len(a) = 5 /\ a[1] = "-" /\ a[2] = "-"
      /\ SubSeq(a, 3, Len(a)) = Out
    BY LongWords
<1>3. /\ b \in Seq(Char) /\ Len(b) = 6 + Len(v) /\ b[1] = "-" /\ b[2] = "-"
      /\ SubSeq(b, 3, Len(b)) = Out \o (<<"=">> \o v)
      /\ SubSeq(b, 7, Len(b)) = v
      /\ Len(v) \in Nat
    BY LongWords
<1>4. Rest = <<a, v>> \/ Rest = <<b>>  BY DEF Long, Out
<1> HIDE DEF a, b
<1>5. ASSUME Rest = <<a, v>>
      PROVE  Len(args) = n + 2 /\ x = a /\ args[n + 2] = v
    BY <1>5, RestOfTwo
<1>6. ASSUME Rest = <<b>>
      PROVE  Len(args) = n + 1 /\ x = b
    BY <1>6, RestOfOne
<1> HIDE DEF n, x
<1>7. Len(a) \in Nat /\ Len(a) >= 2 /\ Len(b) \in Nat /\ Len(b) >= 6 /\ Len(b) >= 2
    BY <1>2, <1>3
<1>8. /\ n \in Nat /\ Len(args) \in Nat /\ Len(args) > n
             /\ x \in Seq(Char) /\ Len(x) \in Nat /\ Len(x) >= 2 /\ x[1] = "-" /\ x[2] = "-"
             /\ \/ /\ Len(args) = n + 2 /\ args[n + 2] = v
                   /\ SubSeq(x, 3, Len(x)) = Out
                \/ /\ Len(args) = n + 1 /\ Len(x) >= 6
                   /\ SubSeq(x, 3, Len(x)) = Out \o (<<"=">> \o v)
                   /\ SubSeq(x, 7, Len(x)) = v
    <2>1. CASE Rest = <<a, v>>
        <3>1. Len(args) = n + 2 /\ x = a /\ args[n + 2] = v  BY <1>5, <2>1
        <3>2. Len(args) > n  BY <1>1, <3>1
        <3> QED  BY ONLY <1>1, <1>2, <1>7, <3>1, <3>2
    <2>2. CASE Rest = <<b>>
        <3>1. Len(args) = n + 1 /\ x = b  BY <1>6, <2>2
        <3>2. Len(args) > n  BY <1>1, <3>1
        <3> QED  BY ONLY <1>1, <1>3, <1>7, <2>2, <3>1, <3>2
    <2> QED  BY <1>4, <2>1, <2>2
<1> QED  BY ONLY <1>8 DEF n, x

LEMMA PrefixOf ==
    ASSUME NEW S, NEW p \in Seq(S), NEW x \in Seq(S)
    PROVE  /\ IsPrefix(p, x) <=> Len(p) <= Len(x) /\ \A i \in 1 .. Len(p) : x[i] = p[i]
           /\ IsPrefix(p, x) => SubSeq(x, 1, Len(p)) = p
<1> DEFINE m == Len(p)
<1>1. m \in Nat /\ Len(x) \in Nat  BY LenProperties
<1>2. SubSeq(p, 1, m) = p  BY SubSeqFull
<1>3. IsPrefix(p, x) <=> m <= Len(x) /\ p = SubSeq(x, 1, m)  BY <1>2 DEF IsPrefix
<1> HIDE DEF m
<1>4. ASSUME m <= Len(x)
      PROVE  /\ SubSeq(x, 1, m) \in Seq(S) /\ Len(SubSeq(x, 1, m)) = m
             /\ \A i \in 1 .. m : SubSeq(x, 1, m)[i] = x[i]
    <2>1. \A i \in 1 .. m : i \in 1 .. Len(x)  BY <1>1, <1>4
    <2>2. \A i \in 1 .. m : x[i] \in S  BY <2>1, ElementOfSeq
    <2>3. 1 \in Int /\ m \in Int /\ (IF 1 <= m THEN m - 1 + 1 ELSE 0) = m /\ m - 1 + 1 = m
          /\ \A i \in 1 .. m : 1 + i - 1 = i
        BY <1>1
    <2>4. /\ SubSeq(x, 1, m) \in Seq(S)
          /\ Len(SubSeq(x, 1, m)) = IF 1 <= m THEN m - 1 + 1 ELSE 0
          /\ \A i \in 1 .. m - 1 + 1 : SubSeq(x, 1, m)[i] = x[1 + i - 1]
        BY <2>2, <2>3, SubSeqProperties
    <2> QED  BY <2>3, <2>4
<1>5. ASSUME m <= Len(x), \A i \in 1 .. m : x[i] = p[i]
      PROVE  p = SubSeq(x, 1, m)
    <2>1. \A i \in 1 .. m : SubSeq(x, 1, m)[i] = p[i]  BY <1>4, <1>5
    <2> QED  BY <1>4, <1>5, <2>1, SeqEqual DEF m
<1>6. ASSUME m <= Len(x), p = SubSeq(x, 1, m)
      PROVE  \A i \in 1 .. m : x[i] = p[i]
    BY <1>4, <1>6
<1> QED  BY <1>3, <1>5, <1>6 DEF m

\* The dashes an argument begins with.
LEMMA DashesOf ==
    ASSUME NEW x \in Seq(Char)
    PROVE  /\ Len(x) \in Nat
           /\ IsPrefix(<<"-">>, x) <=> Len(x) >= 1 /\ x[1] = "-"
           /\ IsPrefix(<<"-", "-">>, x) <=> Len(x) >= 2 /\ x[1] = "-" /\ x[2] = "-"
           /\ Dashed(x) <=> Len(x) >= 1 /\ x[1] = "-"
           /\ IsPrefix(<<"-">>, x) => x = Dash \o SubSeq(x, 2, Len(x))
           /\ IsPrefix(<<"-", "-">>, x) => x = (Dash \o Dash) \o SubSeq(x, 3, Len(x))
<1>1. /\ Dash \in Seq(Char) /\ Len(Dash) = 1 /\ Dash[1] = "-"
      /\ Dash \o Dash \in Seq(Char) /\ Len(Dash \o Dash) = 2
      /\ (Dash \o Dash)[1] = "-" /\ (Dash \o Dash)[2] = "-"
    BY Words
<1>2. <<"-">> = Dash  BY DEF Dash
<1> DEFINE D == Dash \o Dash
<1>3. <<"-", "-">> = D
    <2>1. <<"-", "-">> \in Seq(Char) /\ Len(<<"-", "-">>) = 2
        <3>1. \A c \in Char : <<c, c>> \in Seq(Char) /\ Len(<<c, c>>) = 2  OBVIOUS
        <3>2. "-" \in Char  BY DEF Char
        <3> QED  BY <3>1, <3>2
    <2>2. <<"-", "-">>[1] = "-" /\ <<"-", "-">>[2] = "-"  OBVIOUS
    <2>3. \A i \in 1 .. 2 : <<"-", "-">>[i] = D[i]
        <3>1. \A i \in 1 .. 2 : i = 1 \/ i = 2  OBVIOUS
        <3> QED  BY <1>1, <2>2, <3>1
    <2>4. D \in Seq(Char) /\ Len(D) = 2  BY <1>1
    <2> HIDE DEF D
    <2> QED  BY <2>1, <2>3, <2>4, SeqEqual
<1>4. Len(x) \in Nat /\ DOMAIN x = 1 .. Len(x)  BY LenProperties
<1> HIDE DEF D
<1>5. /\ IsPrefix(Dash, x) <=> Len(x) >= 1 /\ x[1] = "-"
      /\ IsPrefix(Dash, x) => SubSeq(x, 1, 1) = Dash
    <2>1. /\ IsPrefix(Dash, x) <=> Len(Dash) <= Len(x) /\ \A i \in 1 .. Len(Dash) : x[i] = Dash[i]
          /\ IsPrefix(Dash, x) => SubSeq(x, 1, Len(Dash)) = Dash
        BY <1>1, PrefixOf
    <2>2. \A i \in 1 .. 1 : i = 1  OBVIOUS
    <2>3. 1 <= Len(x) <=> Len(x) >= 1  BY <1>4
    <2> QED  BY <1>1, <2>1, <2>2, <2>3
<1>6. /\ IsPrefix(D, x) <=> Len(x) >= 2 /\ x[1] = "-" /\ x[2] = "-"
      /\ IsPrefix(D, x) => SubSeq(x, 1, 2) = D
    <2>1. /\ D \in Seq(Char) /\ Len(D) = 2 /\ D[1] = "-" /\ D[2] = "-"  BY <1>1 DEF D
    <2>2. /\ IsPrefix(D, x) <=> Len(D) <= Len(x) /\ \A i \in 1 .. Len(D) : x[i] = D[i]
          /\ IsPrefix(D, x) => SubSeq(x, 1, Len(D)) = D
        BY <2>1, PrefixOf
    <2>3. \A i \in 1 .. 2 : i = 1 \/ i = 2  OBVIOUS
    <2>4. 2 <= Len(x) <=> Len(x) >= 2  BY <1>4
    <2> QED  BY <2>1, <2>2, <2>3, <2>4
<1>7. Dashed(x) <=> Len(x) >= 1 /\ x[1] = "-"
    <2>1. x # <<>> <=> Len(x) >= 1  BY <1>4, EmptySeq
    <2> QED  BY <2>1 DEF Dashed
<1>8. ASSUME IsPrefix(Dash, x)
      PROVE  x = Dash \o SubSeq(x, 2, Len(x))
    <2>1. 1 \in 0 .. Len(x) /\ 1 + 1 = 2  BY <1>4, <1>5, <1>8
    <2>2. x = SubSeq(x, 1, 1) \o SubSeq(x, 1 + 1, Len(x))  BY <2>1, Cut
    <2> QED  BY <1>5, <1>8, <2>1, <2>2
<1>9. ASSUME IsPrefix(D, x)
      PROVE  x = D \o SubSeq(x, 3, Len(x))
    <2>1. 2 \in 0 .. Len(x) /\ 2 + 1 = 3  BY <1>4, <1>6, <1>9
    <2>2. x = SubSeq(x, 1, 2) \o SubSeq(x, 2 + 1, Len(x))  BY <2>1, Cut
    <2> QED  BY <1>6, <1>9, <2>1, <2>2
<1> QED  BY <1>2, <1>3, <1>4, <1>5, <1>6, <1>7, <1>8, <1>9 DEF D

LEMMA DashesAre ==
    /\ Dashes("Longopt") = Dash \o Dash /\ Len(Dashes("Longopt")) = 2
    /\ Dashes("Shortopt") = Dash /\ Len(Dashes("Shortopt")) = 1
BY Words DEF Dashes

LEMMA Header_Inv ==
    ASSUME ParserInv, Header
    PROVE  ParserInv'
<1> DEFINE n == Len(Params)
           x == args[n + 1]
           d == IF IsPrefix(<<"-", "-">>, x) THEN 2 ELSE IF IsPrefix(<<"-">>, x) THEN 1 ELSE 0
<1>1. InOptions /\ parse_mode = "Header" /\ ~AtEnd(curs)  BY DEF Header
<1>2. /\ outcome = "parsing" /\ ParserTypeOK /\ KnownCommand
      /\ Len(args) \in Nat /\ n \in Nat
    BY <1>1, BehindParameters
<1>3. curs = [arg |-> n + 1, at |-> 0] /\ parsed_opts = <<>>  BY <1>1 DEF ParserInv, AtHeader
<1>4. n + 1 \in 1 .. Len(args) /\ x \in Seq(Char)
    <2>1. curs.arg \in 1 .. Len(args)  BY <1>1, <1>2, CursorParts
    <2>2. n + 1 \in 1 .. Len(args)  BY <1>3, <2>1
    <2> QED  BY <1>2, <2>2, CursorParts
<1>5. Len(args) > n  BY <1>2, <1>4
<1>6. At(curs) = x
    <2>1. At(curs) = SubSeq(x, 1, Len(x))  BY <1>3 DEF At
    <2> HIDE DEF x
    <2> QED  BY <1>4, <2>1, SubSeqFull
<1>7. \/ d = 0 /\ Quit("error")
      \/ /\ d # 0 /\ curs' = Ahead(curs, d)
         /\ parse_mode' = IF d = 2 THEN "Longopt" ELSE "Shortopt"
         /\ UNCHANGED <<command, args, parsed_args, parsed_opts, outcome>>
    BY <1>6 DEF Header
<1>8. /\ Len(x) \in Nat
      /\ IsPrefix(<<"-">>, x) <=> Len(x) >= 1 /\ x[1] = "-"
      /\ IsPrefix(<<"-", "-">>, x) <=> Len(x) >= 2 /\ x[1] = "-" /\ x[2] = "-"
      /\ Dashed(x) <=> Len(x) >= 1 /\ x[1] = "-"
      /\ IsPrefix(<<"-">>, x) => x = Dash \o SubSeq(x, 2, Len(x))
      /\ IsPrefix(<<"-", "-">>, x) => x = (Dash \o Dash) \o SubSeq(x, 3, Len(x))
    <2> HIDE DEF x
    <2> QED  BY <1>4, DashesOf
<1> HIDE DEF n, x
<1>9. CASE d = 0 /\ Quit("error")
    <2>1. ~Dashed(x)  BY <1>8, <1>9
    <2>2. ~OptionMode  BY <1>1 DEF OptionMode
    <2> QED  BY <1>1, <1>2, <1>5, <1>9, <2>1, <2>2, QuitKeeps DEF OptionGiven, n, x
<1>10. CASE /\ d # 0 /\ curs' = Ahead(curs, d)
            /\ parse_mode' = IF d = 2 THEN "Longopt" ELSE "Shortopt"
            /\ UNCHANGED <<command, args, parsed_args, parsed_opts, outcome>>
    <2>1. command' = command /\ args' = args /\ outcome' = "parsing" /\ parsed_opts' = <<>>
        BY <1>2, <1>3, <1>10
    <2>2. /\ d \in {1, 2} /\ d <= Len(x) /\ Len(Dashes(parse_mode')) = d
          /\ x = Dashes(parse_mode') \o SubSeq(x, d + 1, Len(x))
          /\ parse_mode' \in {"Longopt", "Shortopt"}
        <3>1. CASE IsPrefix(<<"-", "-">>, x)
            <4>1. d = 2 /\ parse_mode' = "Longopt" /\ 2 <= Len(x) /\ 2 + 1 = 3  BY <1>8, <1>10, <3>1
            <4> HIDE DEF d
            <4> QED  BY <1>8, <3>1, <4>1, DashesAre
        <3>2. CASE ~IsPrefix(<<"-", "-">>, x)
            <4>1. d = 1 /\ IsPrefix(<<"-">>, x)  BY <1>10, <3>2
            <4>2. parse_mode' = "Shortopt" /\ 1 <= Len(x) /\ 1 + 1 = 2  BY <1>8, <1>10, <4>1
            <4> HIDE DEF d
            <4> QED  BY <1>8, <4>1, <4>2, DashesAre
        <3> QED  BY <3>1, <3>2
    <2>3. curs' = [arg |-> n + 1, at |-> d]
        <3>1. Ahead(curs, d) = [arg |-> n + 1, at |-> 0 + d]  BY <1>3 DEF Ahead
        <3>2. 0 + d = d  BY <2>2
        <3> QED  BY <1>10, <3>1, <3>2
    <2> HIDE DEF d
    <2>4. ParserTypeOK'
        <3>1. ~AtEnd(curs)'
            <4>1. ~(n + 1 > Len(args))  BY <1>2, <1>4
            <4> QED  BY <2>1, <2>3, <4>1 DEF AtEnd
        <3>2. curs' \in [arg : 1 .. Len(args) + 1, at : Nat]
            <4>1. n + 1 \in 1 .. Len(args) + 1 /\ d \in Nat  BY <1>2, <1>4, <2>2
            <4> QED  BY <2>3, <4>1
        <3>3. curs'.at <= Len(args[curs'.arg])  BY <2>2, <2>3 DEF x
        <3> QED  BY <1>2, <2>1, <2>2, <3>1, <3>2, <3>3 DEF ParserTypeOK
    <2>5. Taken'  BY <1>1, <1>10, <2>1, <2>2, ParserFixed DEF ParserInv, Taken
    <2>6. BehindParams'  BY <1>1, <1>10, <2>1, ParserFixed DEF ParserInv, BehindParams
    <2>7. AtStart' /\ InParams' /\ AtHeader'  BY <2>2 DEF AtStart, InParams, AtHeader
    <2>8. AtOption'
        <3>1. Params' = Params  BY <2>1, ParserFixed
        <3>2. At(curs)' = SubSeq(x, d + 1, Len(x))  BY <2>1, <2>3 DEF At, x
        <3>3. args'[curs'.arg] = x  BY <2>1, <2>3 DEF x
        <3> QED  BY <1>5, <2>1, <2>2, <2>3, <3>1, <3>2, <3>3 DEF AtOption, n
    <2>9. ASSUME NEW CONSTANT v \in Seq(Char)
          PROVE  OneOption(v)'
        <3>1. /\ Cmd' = Cmd /\ Rest' = Rest /\ Params' = Params
              /\ Short(v)' = Short(v) /\ Long(v)' = Long(v)
            BY <2>1, ParserFixed DEF Short, Long
        <3>2. \A mode : mode = parse_mode' => Before(mode)'
            BY <2>1, <2>2, <2>3, <3>1 DEF Before, n
        <3>3. ASSUME Rest \in Short(v)
              PROVE  Before("Shortopt")'
            <4>1. x[1] = "-" /\ x[2] = "o"  BY <1>2, <3>3, ShortForm DEF n, x
            <4>2. ~IsPrefix(<<"-", "-">>, x)  BY <1>8, <4>1
            <4>3. parse_mode' = "Shortopt"  BY <1>10, <4>2 DEF d
            <4> QED  BY <3>2, <4>3
        <3>4. ASSUME Rest \in Long(v)
              PROVE  Before("Longopt")'
            <4>1. Len(x) >= 2 /\ x[1] = "-" /\ x[2] = "-"  BY <1>2, <3>4, LongForm DEF n, x
            <4>2. IsPrefix(<<"-", "-">>, x)  BY <1>8, <4>1
            <4>3. parse_mode' = "Longopt"  BY <1>10, <4>2 DEF d
            <4> QED  BY <3>2, <4>3
        <3> QED  BY <3>1, <3>3, <3>4 DEF OneOption
    <2> QED  BY <2>4, <2>5, <2>6, <2>7, <2>8, <2>9 DEF ParserInv
<1> QED  BY <1>7, <1>9, <1>10

LEMMA ParseOut ==
    ASSUME NEW val, ParseOpt(OutOption, val)
    PROVE  \/ AtEnd(val) /\ Quit("crash")
           \/ /\ ~AtEnd(val)
              /\ parsed_opts' = Append(parsed_opts, [opt |-> OutOption.opt, val |-> At(val)])
              /\ curs' = Nxt(val)
              /\ UNCHANGED <<command, args, parse_mode, parsed_args, outcome>>
<1>1. OutOption.type = "kPath"  BY DEF OutOption
<1> QED  BY <1>1 DEF ParseOpt

\* The option found by its name can only be the one there is.
LEMMA OnlyOut ==
    ASSUME KnownCommand
    PROVE  /\ \A name : Named(name) # {} =>
                /\ name = Out /\ OutOption \in Range(Cmd.opts)
                /\ (CHOOSE o \in Named(name) : TRUE) = OutOption
           /\ \A c : ShortNamed(c) # {} =>
                /\ c = "o" /\ OutOption \in Range(Cmd.opts)
                /\ (CHOOSE o \in ShortNamed(c) : TRUE) = OutOption
           /\ OutOption \in Range(Cmd.opts) =>
                Named(Out) = {OutOption} /\ ShortNamed("o") = {OutOption}
<1> DEFINE R == Range(Cmd.opts)
<1>1. R \subseteq {OutOption}  BY CmdParts
<1>2. OutOption.shortopt = "o" /\ OutOption.opt = Out  BY DEF OutOption, Out
<1>3. \A name : Named(name) = {o \in R : o.opt = name}  BY DEF Named
<1>4. \A c : ShortNamed(c) = {o \in R : o.shortopt = c}  BY DEF ShortNamed
<1> HIDE DEF R
<1>5. ASSUME NEW name, Named(name) # {}
      PROVE  name = Out /\ OutOption \in R /\ (CHOOSE o \in Named(name) : TRUE) = OutOption
    <2>1. Named(name) = {OutOption} /\ name = Out  BY <1>1, <1>2, <1>3, <1>5
    <2>2. OutOption \in R  BY <1>3, <2>1
    <2> QED  BY <2>1, <2>2
<1>6. ASSUME NEW c, ShortNamed(c) # {}
      PROVE  c = "o" /\ OutOption \in R /\ (CHOOSE o \in ShortNamed(c) : TRUE) = OutOption
    <2>1. ShortNamed(c) = {OutOption} /\ c = "o"  BY <1>1, <1>2, <1>4, <1>6
    <2>2. OutOption \in R  BY <1>4, <2>1
    <2> QED  BY <2>1, <2>2
<1>7. OutOption \in R => Named(Out) = {OutOption} /\ ShortNamed("o") = {OutOption}
    BY <1>1, <1>2, <1>3, <1>4
<1> QED  BY <1>5, <1>6, <1>7 DEF R

\* An option read with its value keeps the invariant.
LEMMA OptionTaken ==
    ASSUME ParserInv, OptionMode, outcome = "parsing", NEW CONSTANT val,
           val.arg \in 1 .. Len(args),
           parsed_opts' = Append(parsed_opts, [opt |-> OutOption.opt, val |-> At(val)]),
           curs' = Nxt(val),
           UNCHANGED <<command, args, parse_mode, parsed_args, outcome>>,
           \A v \in Seq(Char) : OptionGiven(v) =>
             parsed_opts = <<>> /\ At(val) = v /\ val.arg = Len(args)
    PROVE  ParserInv'
<1>1. command' = command /\ args' = args  OBVIOUS
<1>2. ParserTypeOK /\ Len(args) \in Nat  BY CursorParts DEF ParserInv
<1>3. curs' = [arg |-> val.arg + 1, at |-> 0]  BY DEF Nxt
<1>4. ParserTypeOK'
    <2>1. val.arg + 1 \in 1 .. Len(args) + 1  BY <1>2
    <2>2. curs' \in [arg : 1 .. Len(args) + 1, at : Nat]  BY <1>3, <2>1
    <2>3. ~AtEnd(curs)' => curs'.at <= Len(args[curs'.arg])
        <3> SUFFICES ASSUME ~AtEnd(curs)'
                     PROVE  curs'.at <= Len(args[curs'.arg])
            OBVIOUS
        <3>1. val.arg + 1 \in 1 .. Len(args)  BY <1>2, <1>3 DEF AtEnd
        <3>2. Len(args[val.arg + 1]) \in Nat  BY <1>2, <3>1, CursorParts
        <3> QED  BY <1>3, <3>2
    <2> QED  BY <1>2, <1>3, <2>2, <2>3 DEF ParserTypeOK
<1>5. AtStart' /\ InParams' /\ AtHeader'  BY DEF AtStart, InParams, AtHeader, OptionMode
<1>6. Taken'  BY <1>1, ParserFixed DEF ParserInv, Taken
<1>7. BehindParams'  BY <1>1, ParserFixed DEF ParserInv, BehindParams
<1>8. AtOption'
    <2>1. Params' = Params  BY <1>1, ParserFixed
    <2> QED  BY <1>1, <1>3, <2>1 DEF ParserInv, AtOption, OptionMode
<1>9. ASSUME NEW CONSTANT v \in Seq(Char)
      PROVE  OneOption(v)'
    <2>1. /\ OptionMode' = OptionMode /\ Cmd' = Cmd /\ Rest' = Rest
          /\ Short(v)' = Short(v) /\ Long(v)' = Long(v)
        BY <1>1, ParserFixed DEF OptionMode, Short, Long
    <2>2. ASSUME OptionGiven(v)
          PROVE  After(v)'
        <3>1. parsed_opts = <<>> /\ At(val) = v /\ val.arg = Len(args)  BY <2>2
        <3> DEFINE r == [opt |-> OutOption.opt, val |-> v]
        <3>2. parsed_opts' = Append(<<>>, r)  BY <3>1
        <3>3. Append(<<>>, r) = <<r>>
            <4> HIDE DEF r
            <4> QED  OBVIOUS
        <3>4. AtEnd(curs)'  BY <1>2, <1>3, <3>1 DEF AtEnd
        <3> QED  BY <3>2, <3>3, <3>4 DEF After
    <2> QED  BY <2>1, <2>2 DEF OneOption, OptionGiven, OptionMode
<1> QED  BY <1>4, <1>5, <1>6, <1>7, <1>8, <1>9 DEF ParserInv

\* The text of an option that is still to be read.
LEMMA OptionText ==
    ASSUME ParserInv, OptionMode, ~AtEnd(curs)
    PROVE  LET a == args[curs.arg]
               x == At(curs)
           IN  /\ curs.arg \in 1 .. Len(args) /\ curs.at \in Nat /\ Len(args) \in Nat
               /\ curs = [arg |-> curs.arg, at |-> curs.at]
               /\ a \in Seq(Char) /\ x \in Seq(Char)
               /\ x = a \/ a = Dashes(parse_mode) \o x
<1> DEFINE a == args[curs.arg]
           d == Dashes(parse_mode)
<1>1. ParserTypeOK  BY DEF ParserInv
<1>2. /\ curs.arg \in 1 .. Len(args) /\ curs.at \in Nat /\ Len(args) \in Nat
      /\ a \in Seq(Char)
    BY <1>1, CursorParts DEF ParserTypeOK
<1>3. curs = [arg |-> curs.arg, at |-> curs.at]  BY <1>1 DEF ParserTypeOK
<1>4. CASE curs.at = 0
    <2>1. At(curs) = SubSeq(a, 1, Len(a))  BY <1>4 DEF At
    <2> HIDE DEF a
    <2>2. At(curs) = a  BY <1>2, <2>1, SubSeqFull
    <2> QED  BY <1>2, <1>3, <2>2 DEF a
<1>5. CASE curs.at # 0
    <2>1. curs.at = Len(d) /\ a = d \o At(curs)  BY <1>5 DEF ParserInv, AtOption, OptionMode
    <2>2. curs.at <= Len(a)  BY <1>1 DEF ParserTypeOK
    <2>3. At(curs) = SubSeq(a, curs.at + 1, Len(a))  BY DEF At
    <2> HIDE DEF a
    <2>4. SubSeq(a, curs.at + 1, Len(a)) \in Seq(Char)
        <3> DEFINE lo == curs.at + 1
                   hi == Len(a)
        <3>1. hi \in Nat /\ lo \in Int /\ \A i \in lo .. hi : i \in 1 .. hi
            BY <1>2, LenProperties
        <3>2. \A i \in 1 .. hi : a[i] \in Char  BY <1>2, ElementOfSeq
        <3>3. \A i \in lo .. hi : a[i] \in Char  BY <3>1, <3>2
        <3> HIDE DEF lo, hi
        <3>4. SubSeq(a, lo, hi) \in Seq(Char)  BY <3>1, <3>3, SubSeqProperties
        <3> QED  BY <3>4 DEF lo, hi
    <2> HIDE DEF d
    <2> QED  BY <1>2, <1>3, <2>1, <2>3, <2>4 DEF a, d
<1> QED  BY <1>4, <1>5

\* A long option is cut at its first =.
LEMMA SplitAt ==
    ASSUME NEW v \in Seq(Char)
    PROVE  LET w == Out \o (<<"=">> \o v)
           IN  /\ SelectInSeq(Out, LAMBDA c : c = "=") = 0
               /\ SelectInSeq(w, LAMBDA c : c = "=") = 4
               /\ SubSeq(w, 1, 3) = Out
<1> DEFINE w == Out \o (<<"=">> \o v)
           j == SelectInSeq(Out, LAMBDA c : c = "=")
           k == SelectInSeq(w, LAMBDA c : c = "=")
<1>1. Out \in Seq(Char) /\ Len(Out) = 3 /\ Out[1] = "o" /\ Out[2] = "u" /\ Out[3] = "t"
    BY Words
<1>2. /\ w \in Seq(Char) /\ Len(w) = 4 + Len(v) /\ w[4] = "="
      /\ \A i \in 1 .. 3 : w[i] = Out[i]
      /\ SubSeq(w, 1, 3) = Out /\ Len(v) \in Nat
    BY LongWords
<1>3. \A i \in 1 .. 3 : Out[i] # "="
    <2>1. \A i \in 1 .. 3 : i = 1 \/ i = 2 \/ i = 3  OBVIOUS
    <2> QED  BY <1>1, <2>1
<1>4. j \in 0 .. Len(Out) /\ (j # 0 => Out[j] = "=")  BY <1>1, FirstEqual
<1> HIDE DEF w
<1>5. /\ k \in 0 .. Len(w)
      /\ k = 0 => \A i \in 1 .. Len(w) : w[i] # "="
      /\ k # 0 => w[k] = "=" /\ \A i \in 1 .. Len(w) : w[i] = "=" => k <= i
    BY <1>2, FirstEqual
<1> HIDE DEF j, k
<1>6. j = 0
    <2>1. j # 0 => j \in 1 .. 3  BY <1>1, <1>4
    <2> QED  BY <1>3, <1>4, <2>1
<1>7. k = 4
    <2>1. 4 \in 1 .. Len(w)  BY <1>2
    <2>2. k # 0 /\ w[k] = "=" /\ k <= 4  BY <1>2, <1>5, <2>1
    <2>3. k \in Nat  BY <1>2, <1>5
    <2>4. k \in 1 .. 3 \/ k = 4  BY <2>2, <2>3
    <2>5. \A i \in 1 .. 3 : w[i] # "="  BY <1>2, <1>3
    <2> QED  BY <2>2, <2>4, <2>5
<1> QED  BY <1>2, <1>6, <1>7 DEF w, j, k

\* An option on its way: the cursor is behind its dashes.
LEMMA GivenIsBefore ==
    ASSUME ParserInv, OptionMode, ~AtEnd(curs), NEW v \in Seq(Char), OptionGiven(v)
    PROVE  /\ parse_mode = "Longopt" => Before("Longopt") /\ Rest \in Long(v)
           /\ parse_mode = "Shortopt" => Before("Shortopt") /\ Rest \in Short(v)
<1>1. ~After(v)  BY DEF After
<1>2. \/ Rest \in Short(v) /\ Before("Shortopt")
      \/ Rest \in Long(v) /\ Before("Longopt")
    BY <1>1 DEF ParserInv, OneOption, OptionGiven, OptionMode
<1>3. CASE Rest \in Short(v) /\ Before("Shortopt")
    <2>1. parse_mode = "Shortopt"  BY <1>3 DEF Before
    <2> QED  BY <1>3, <2>1
<1>4. CASE Rest \in Long(v) /\ Before("Longopt")
    <2>1. parse_mode = "Longopt"  BY <1>4 DEF Before
    <2> QED  BY <1>4, <2>1
<1> QED  BY <1>2, <1>3, <1>4

\* The last argument, when an option's value is missing.
LEMMA LastWord ==
    ASSUME ParserInv, OptionMode, ~AtEnd(curs), curs.arg + 1 > Len(args)
    PROVE  Last(args) = At(curs) \/ Last(args) = Dashes(parse_mode) \o At(curs)
<1>1. curs.arg \in 1 .. Len(args) /\ Len(args) \in Nat
      /\ (At(curs) = args[curs.arg] \/ args[curs.arg] = Dashes(parse_mode) \o At(curs))
    BY OptionText
<1>2. curs.arg = Len(args)  BY <1>1
<1> QED  BY <1>1, <1>2 DEF Last

\* A long option is found by its name, and its value is where it was written.
LEMMA LongValue ==
    ASSUME ParserInv, OptionMode, ~AtEnd(curs), parse_mode = "Longopt",
           NEW v \in Seq(Char), OptionGiven(v)
    PROVE  LET str == At(curs)
               split == SelectInSeq(str, LAMBDA c : c = "=")
               name == IF split = 0 THEN str ELSE SubSeq(str, 1, split - 1)
               val == IF split = 0 THEN Nxt(curs) ELSE Ahead(curs, split)
           IN  name = Out /\ parsed_opts = <<>> /\ val.arg = Len(args) /\ At(val) = v
<1> DEFINE n == Len(Params)
           x == args[n + 1]
           w == Out \o (<<"=">> \o v)
           cut(s) == SelectInSeq(s, LAMBDA c : c = "=")
           name(s) == IF cut(s) = 0 THEN s ELSE SubSeq(s, 1, cut(s) - 1)
           val(s) == IF cut(s) = 0 THEN Nxt(curs) ELSE Ahead(curs, cut(s))
<1>1. Before("Longopt") /\ Rest \in Long(v)  BY GivenIsBefore
<1>2. curs = [arg |-> n + 1, at |-> 2] /\ parsed_opts = <<>>  BY <1>1, DashesAre DEF Before
<1>3. ParserTypeOK /\ KnownCommand  BY DEF ParserInv, Taken
<1>4. /\ n \in Nat /\ Len(args) \in Nat /\ Len(args) > n
      /\ x \in Seq(Char) /\ Len(x) \in Nat
      /\ \/ /\ Len(args) = n + 2 /\ args[n + 2] = v
            /\ SubSeq(x, 3, Len(x)) = Out
         \/ /\ Len(args) = n + 1 /\ Len(x) >= 6
            /\ SubSeq(x, 3, Len(x)) = w
            /\ SubSeq(x, 7, Len(x)) = v
    BY <1>1, <1>3, LongForm
<1>5. At(curs) = SubSeq(x, 3, Len(x))
    <2>1. 2 + 1 = 3  OBVIOUS
    <2> QED  BY <1>2, <2>1 DEF At
<1>6. cut(Out) = 0 /\ cut(w) = 4 /\ SubSeq(w, 1, 3) = Out  BY SplitAt
<1> HIDE DEF n, w, cut
<1>7. CASE /\ Len(args) = n + 2 /\ args[n + 2] = v
           /\ SubSeq(x, 3, Len(x)) = Out
    <2>1. At(curs) = Out  BY <1>5, <1>7
    <2>2. val(Out) = [arg |-> n + 2, at |-> 0]
        <3>1. n + 1 + 1 = n + 2  BY <1>4
        <3> QED  BY <1>2, <1>6, <3>1 DEF Nxt
    <2>3. At(val(Out)) = SubSeq(v, 1, Len(v))  BY <1>7, <2>2 DEF At
    <2>4. At(val(Out)) = v  BY <2>3, SubSeqFull
    <2>5. val(Out).arg = Len(args)  BY <1>7, <2>2
    <2>6. name(Out) = Out  BY <1>6
    <2> QED  BY <1>2, <2>1, <2>4, <2>5, <2>6 DEF cut
<1>8. CASE /\ Len(args) = n + 1 /\ Len(x) >= 6
           /\ SubSeq(x, 3, Len(x)) = w
           /\ SubSeq(x, 7, Len(x)) = v
    <2>1. At(curs) = w  BY <1>5, <1>8
    <2>2. val(w) = [arg |-> n + 1, at |-> 6]
        <3>1. 2 + 4 = 6  OBVIOUS
        <3> QED  BY <1>2, <1>6, <3>1 DEF Ahead
    <2>3. At(val(w)) = v
        <3>1. 6 + 1 = 7  OBVIOUS
        <3>2. At(val(w)) = SubSeq(x, 6 + 1, Len(x))  BY SMTT(30), <2>2 DEF At
        <3> QED  BY <1>8, <3>1, <3>2
    <2>4. val(w).arg = Len(args)  BY <1>8, <2>2
    <2>5. name(w) = Out
        <3>1. 4 - 1 = 3  OBVIOUS
        <3> QED  BY <1>6, <3>1
    <2> QED  BY <1>2, <2>1, <2>3, <2>4, <2>5 DEF cut
<1> QED  BY <1>4, <1>7, <1>8

LEMMA Longopt_Inv ==
    ASSUME ParserInv, Longopt
    PROVE  ParserInv'
<1> DEFINE str == At(curs)
           split == SelectInSeq(str, LAMBDA c : c = "=")
           name == IF split = 0 THEN str ELSE SubSeq(str, 1, split - 1)
           val == IF split = 0 THEN Nxt(curs) ELSE Ahead(curs, split)
<1>1. InOptions /\ parse_mode = "Longopt" /\ ~AtEnd(curs)  BY DEF Longopt
<1>2. \/ Named(name) = {} /\ Quit("error")
      \/ Named(name) # {} /\ ParseOpt(CHOOSE o \in Named(name) : TRUE, val)
    BY DEF Longopt
<1>3. outcome = "parsing" /\ KnownCommand /\ OptionMode
    BY <1>1, BehindParameters DEF OptionMode
<1>4. /\ curs.arg \in 1 .. Len(args) /\ curs.at \in Nat /\ Len(args) \in Nat
      /\ curs = [arg |-> curs.arg, at |-> curs.at]
      /\ str \in Seq(Char)
    BY <1>1, <1>3, OptionText
<1>5. \A v \in Seq(Char) : OptionGiven(v) =>
        name = Out /\ parsed_opts = <<>> /\ val.arg = Len(args) /\ At(val) = v
    BY <1>1, <1>3, LongValue
<1>6. split \in 0 .. Len(str)
    <2> HIDE DEF str
    <2> QED  BY <1>4, FirstEqual
<1>7. val.arg = IF split = 0 THEN curs.arg + 1 ELSE curs.arg
    <2> HIDE DEF split
    <2> QED  BY <1>4 DEF Nxt, Ahead
<1>8. split = 0 => name = str  OBVIOUS
<1>9. parse_mode # "Start" /\ parse_mode # "Params" /\ parse_mode # "Header"  BY <1>1
<1> HIDE DEF name, val, split, str
<1>10. CASE Named(name) = {} /\ Quit("error")
    <2>1. ASSUME NEW v \in Seq(Char), OptionGiven(v)
          PROVE  FALSE
        <3>1. name = Out  BY <1>5, <2>1
        <3>2. OutOption \in Range(Cmd.opts)  BY <2>1 DEF OptionGiven
        <3>3. Named(Out) # {}  BY <1>3, <3>2, OnlyOut
        <3> QED  BY <1>10, <3>1, <3>3
    <2> QED  BY <1>3, <1>9, <1>10, <2>1, QuitKeeps
<1>11. CASE Named(name) # {} /\ ParseOpt(CHOOSE o \in Named(name) : TRUE, val)
    <2>1. /\ name = Out /\ OutOption \in Range(Cmd.opts)
          /\ (CHOOSE o \in Named(name) : TRUE) = OutOption
        BY <1>3, <1>11, OnlyOut
    <2>2. ParseOpt(OutOption, val)  BY <1>11, <2>1
    <2>3. \/ AtEnd(val) /\ Quit("crash")
          \/ /\ ~AtEnd(val)
             /\ parsed_opts' = Append(parsed_opts, [opt |-> OutOption.opt, val |-> At(val)])
             /\ curs' = Nxt(val)
             /\ UNCHANGED <<command, args, parse_mode, parsed_args, outcome>>
        BY <2>2, ParseOut
    <2>4. CASE AtEnd(val) /\ Quit("crash")
        <3>1. val.arg > Len(args)  BY <2>4 DEF AtEnd
        <3>2. split = 0 /\ curs.arg + 1 > Len(args)  BY <1>4, <1>7, <3>1
        <3>3. str = Out  BY <1>8, <2>1, <3>2
        <3>4. Last(args) = Out \/ Last(args) = Dash \o Dash \o Out
            BY <1>1, <1>3, <3>2, <3>3, LastWord, DashesAre DEF str
        <3>5. \A v \in Seq(Char) : ~OptionGiven(v)  BY <1>4, <1>5, <3>1
        <3> QED  BY <1>3, <1>9, <2>1, <2>4, <3>4, <3>5, QuitKeeps DEF Out
    <2>5. CASE /\ ~AtEnd(val)
               /\ parsed_opts' = Append(parsed_opts, [opt |-> OutOption.opt, val |-> At(val)])
               /\ curs' = Nxt(val)
               /\ UNCHANGED <<command, args, parse_mode, parsed_args, outcome>>
        <3>1. val.arg \in 1 .. Len(args)  BY <1>4, <1>7, <2>5 DEF AtEnd
        <3>2. PICK c : c = val  OBVIOUS
        <3> QED  BY <1>3, <1>5, <2>5, <3>1, <3>2, OptionTaken
    <2> QED  BY <2>3, <2>4, <2>5
<1> QED  BY <1>2, <1>10, <1>11

\* A short option is found by its character, and its value is where it was
\* written.
LEMMA ShortValue ==
    ASSUME ParserInv, OptionMode, ~AtEnd(curs), parse_mode = "Shortopt",
           NEW v \in Seq(Char), OptionGiven(v)
    PROVE  LET val == AfterShort(curs)
           IN  /\ At(curs) # <<>> /\ Head(At(curs)) = "o" /\ parsed_opts = <<>>
               /\ val.arg = Len(args) /\ At(val) = v
<1> DEFINE n == Len(Params)
           x == args[n + 1]
           O == <<"o">>
           w == <<"o">> \o v
<1>1. Before("Shortopt") /\ Rest \in Short(v)  BY GivenIsBefore
<1>2. curs = [arg |-> n + 1, at |-> 1] /\ parsed_opts = <<>>  BY <1>1, DashesAre DEF Before
<1>3. ParserTypeOK /\ KnownCommand  BY DEF ParserInv, Taken
<1>4. /\ n \in Nat /\ Len(args) \in Nat /\ Len(args) > n
      /\ x \in Seq(Char) /\ Len(x) \in Nat
      /\ \/ /\ Len(args) = n + 2 /\ args[n + 2] = v
            /\ SubSeq(x, 2, Len(x)) = O
         \/ /\ Len(args) = n + 1 /\ v # <<>>
            /\ SubSeq(x, 2, Len(x)) = w
            /\ SubSeq(x, 3, Len(x)) = v
    BY <1>1, <1>3, ShortForm
<1>5. At(curs) = SubSeq(x, 2, Len(x))
    <2>1. 1 + 1 = 2  OBVIOUS
    <2> QED  BY <1>2, <2>1 DEF At
<1>6. /\ O \in Seq(Char) /\ Len(O) = 1 /\ O[1] = "o"
      /\ w \in Seq(Char) /\ Len(w) = 1 + Len(v) /\ w[1] = "o" /\ Len(v) \in Nat
    BY Words, ShortWords
<1>7. v # <<>> => Len(v) # 0  BY EmptySeq
<1> HIDE DEF n, O, w
<1>8. O # <<>> /\ w # <<>>
    <2>1. Len(O) # 0 /\ Len(w) # 0  BY <1>6
    <2>2. Len(<<>>) = 0  OBVIOUS
    <2> QED  BY ONLY <2>1, <2>2
<1>9. CASE /\ Len(args) = n + 2 /\ args[n + 2] = v
           /\ SubSeq(x, 2, Len(x)) = O
    <2>1. At(curs) = O  BY <1>5, <1>9
    <2>2. AfterShort(curs) = [arg |-> n + 2, at |-> 0]
        <3>1. n + 1 + 1 = n + 2  BY <1>4
        <3>2. AfterShort(curs) = Nxt(curs)  BY <1>6, <2>1 DEF AfterShort
        <3> QED  BY <1>2, <3>1, <3>2 DEF Nxt
    <2>3. At(AfterShort(curs)) = SubSeq(v, 1, Len(v))  BY <1>9, <2>2 DEF At
    <2>4. At(AfterShort(curs)) = v  BY <2>3, SubSeqFull
    <2>5. Head(O) = "o"  BY <1>6
    <2> QED  BY <1>2, <1>8, <1>9, <2>1, <2>2, <2>4, <2>5
<1>10. CASE /\ Len(args) = n + 1 /\ v # <<>>
            /\ SubSeq(x, 2, Len(x)) = w
            /\ SubSeq(x, 3, Len(x)) = v
    <2>1. At(curs) = w  BY <1>5, <1>10
    <2>2. Len(w) # 1  BY <1>6, <1>7, <1>10
    <2>3. AfterShort(curs) = [arg |-> n + 1, at |-> 2]
        <3>1. AfterShort(curs) = Ahead(curs, 1)  BY <2>1, <2>2 DEF AfterShort
        <3>2. 1 + 1 = 2  OBVIOUS
        <3> QED  BY <1>2, <3>1, <3>2 DEF Ahead
    <2>4. At(AfterShort(curs)) = v
        <3>1. 2 + 1 = 3  OBVIOUS
        <3> QED  BY <1>10, <2>3, <3>1 DEF At
    <2>5. Head(w) = "o"  BY <1>6
    <2> QED  BY <1>2, <1>8, <1>10, <2>1, <2>3, <2>4, <2>5
<1> QED  BY <1>4, <1>9, <1>10

LEMMA Shortopt_Inv ==
    ASSUME ParserInv, Shortopt
    PROVE  ParserInv'
<1> DEFINE str == At(curs)
           val == AfterShort(curs)
<1>1. InOptions /\ parse_mode = "Shortopt" /\ ~AtEnd(curs)  BY DEF Shortopt
<1>2. \/ (str = <<>> \/ ShortNamed(Head(str)) = {}) /\ Quit("error")
      \/ /\ str # <<>> /\ ShortNamed(Head(str)) # {}
         /\ ParseOpt(CHOOSE o \in ShortNamed(Head(str)) : TRUE, val)
    BY DEF Shortopt
<1>3. outcome = "parsing" /\ KnownCommand /\ OptionMode
    BY <1>1, BehindParameters DEF OptionMode
<1>4. /\ curs.arg \in 1 .. Len(args) /\ curs.at \in Nat /\ Len(args) \in Nat
      /\ curs = [arg |-> curs.arg, at |-> curs.at]
      /\ str \in Seq(Char)
    BY <1>1, <1>3, OptionText
<1>5. \A v \in Seq(Char) : OptionGiven(v) =>
        /\ str # <<>> /\ Head(str) = "o" /\ parsed_opts = <<>>
        /\ val.arg = Len(args) /\ At(val) = v
    BY <1>1, <1>3, ShortValue
<1>6. val.arg = IF Len(str) = 1 THEN curs.arg + 1 ELSE curs.arg
    BY <1>4 DEF AfterShort, Nxt, Ahead
<1>7. parse_mode # "Start" /\ parse_mode # "Params" /\ parse_mode # "Header"  BY <1>1
<1> HIDE DEF val, str
<1>8. CASE (str = <<>> \/ ShortNamed(Head(str)) = {}) /\ Quit("error")
    <2>1. ASSUME NEW v \in Seq(Char), OptionGiven(v)
          PROVE  FALSE
        <3>1. str # <<>> /\ Head(str) = "o"  BY <1>5, <2>1
        <3>2. OutOption \in Range(Cmd.opts)  BY <2>1 DEF OptionGiven
        <3>3. ShortNamed("o") # {}  BY <1>3, <3>2, OnlyOut
        <3> QED  BY <1>8, <3>1, <3>3
    <2> QED  BY <1>3, <1>7, <1>8, <2>1, QuitKeeps
<1>9. CASE /\ str # <<>> /\ ShortNamed(Head(str)) # {}
           /\ ParseOpt(CHOOSE o \in ShortNamed(Head(str)) : TRUE, val)
    <2>1. /\ Head(str) = "o" /\ OutOption \in Range(Cmd.opts)
          /\ (CHOOSE o \in ShortNamed(Head(str)) : TRUE) = OutOption
        BY <1>3, <1>9, OnlyOut
    <2>2. ParseOpt(OutOption, val)  BY <1>9, <2>1
    <2>3. \/ AtEnd(val) /\ Quit("crash")
          \/ /\ ~AtEnd(val)
             /\ parsed_opts' = Append(parsed_opts, [opt |-> OutOption.opt, val |-> At(val)])
             /\ curs' = Nxt(val)
             /\ UNCHANGED <<command, args, parse_mode, parsed_args, outcome>>
        BY <2>2, ParseOut
    <2>4. CASE AtEnd(val) /\ Quit("crash")
        <3>1. val.arg > Len(args)  BY <2>4 DEF AtEnd
        <3>2. Len(str) = 1 /\ curs.arg + 1 > Len(args)  BY <1>4, <1>6, <3>1
        <3>3. str = <<"o">>
            <4>1. str[1] = "o"  BY <2>1
            <4>2. <<"o">> \in Seq(Char) /\ Len(<<"o">>) = 1 /\ <<"o">>[1] = "o"  BY Words
            <4>3. \A i \in 1 .. 1 : i = 1  OBVIOUS
            <4> QED  BY <1>4, <3>2, <4>1, <4>2, <4>3, SeqEqual
        <3>4. Last(args) = <<"o">> \/ Last(args) = Dash \o <<"o">>
            BY <1>1, <1>3, <3>2, <3>3, LastWord, DashesAre DEF str
        <3>5. \A v \in Seq(Char) : ~OptionGiven(v)  BY <1>4, <1>5, <3>1
        <3> QED  BY <1>3, <1>7, <2>1, <2>4, <3>4, <3>5, QuitKeeps
    <2>5. CASE /\ ~AtEnd(val)
               /\ parsed_opts' = Append(parsed_opts, [opt |-> OutOption.opt, val |-> At(val)])
               /\ curs' = Nxt(val)
               /\ UNCHANGED <<command, args, parse_mode, parsed_args, outcome>>
        <3>1. val.arg \in 1 .. Len(args)  BY <1>4, <1>6, <2>5 DEF AtEnd
        <3>2. PICK c : c = val  OBVIOUS
        <3> QED  BY <1>3, <1>5, <2>5, <3>1, <3>2, OptionTaken
    <2> QED  BY <2>3, <2>4, <2>5
<1> QED  BY <1>2, <1>8, <1>9

LEMMA ParserInit_Inv ==
    ASSUME ParserInit, command \in STRING, args \in Seq(Seq(STRING))
    PROVE  ParserInv
<1>1. /\ curs = [arg |-> 1, at |-> 0] /\ parse_mode = "Start"
      /\ parsed_args = <<>> /\ parsed_opts = <<>> /\ outcome = "parsing"
    BY DEF ParserInit
<1>2. args \in Seq(Seq(Char))
    <2>1. STRING \subseteq Char  BY DEF Char
    <2>2. Seq(STRING) \subseteq Seq(Char)  BY <2>1, SeqMonotonic
    <2> QED  BY <2>2, SeqMonotonic
<1>3. Len(args) \in Nat  BY <1>2, LenProperties
<1>4. ParserTypeOK
    <2>1. 1 \in 1 .. Len(args) + 1  BY <1>3
    <2>2. curs \in [arg : 1 .. Len(args) + 1, at : Nat]  BY <1>1, <2>1
    <2>3. 0 <= Len(args[curs.arg]) \/ AtEnd(curs)
        <3> SUFFICES ASSUME ~AtEnd(curs)
                     PROVE  0 <= Len(args[curs.arg])
            OBVIOUS
        <3>1. 1 \in 1 .. Len(args) /\ curs.arg = 1  BY <1>1, <1>3 DEF AtEnd
        <3>2. args[1] \in Seq(Char)  BY <1>2, <3>1, ElementOfSeq
        <3>3. Len(args[1]) \in Nat  BY <3>2, LenProperties
        <3> QED  BY <3>1, <3>3
    <2> QED  BY <1>1, <1>2, <2>2, <2>3 DEF ParserTypeOK
<1>5. AtStart /\ Taken /\ InParams /\ BehindParams /\ AtHeader /\ AtOption
    BY <1>1 DEF AtStart, Taken, InParams, BehindParams, AtHeader, AtOption
<1>6. \A v \in Seq(Char) : OneOption(v)  BY <1>1 DEF OneOption
<1> QED  BY <1>4, <1>5, <1>6 DEF ParserInv

LEMMA Parse_Inv ==
    ASSUME ParserInv, Parse
    PROVE  ParserInv'
<1>1. CASE Dispatch  BY <1>1, Dispatch_Inv
<1>2. CASE ParseParam  BY <1>2, ParseParam_Inv
<1>3. CASE StartOptions  BY <1>3, StartOptions_Inv
<1>4. CASE EndOptions  BY <1>4, EndOptions_Inv
<1>5. CASE Header  BY <1>5, Header_Inv
<1>6. CASE Longopt  BY <1>6, Longopt_Inv
<1>7. CASE Shortopt  BY <1>7, Shortopt_Inv
<1> QED  BY <1>1, <1>2, <1>3, <1>4, <1>5, <1>6, <1>7 DEF Parse

-----------------------------------------------------------------------------
(* What the invariant of the command line says of a command that is run *)

\* The end of a word is a word.
LEMMA SuffixType ==
    ASSUME ParserTypeOK, KnownCommand, NEW v \in UNION {Suffixes(a) : a \in Range(Rest)}
    PROVE  v \in Seq(Char)
<1>1. Rest \in Seq(Seq(Char))  BY RestIs
<1>2. PICK a \in Range(Rest) : v \in Suffixes(a)  OBVIOUS
<1>3. a \in Seq(Char)
    <2>1. PICK i \in DOMAIN Rest : a = Rest[i]  BY DEF Range
    <2>2. i \in 1 .. Len(Rest)  BY <1>1, <2>1, LenProperties
    <2> QED  BY <1>1, <2>1, <2>2, ElementOfSeq
<1>4. CASE v = <<>>  BY <1>4
<1>5. CASE \E l \in 1 .. Len(a) : v = SubSeq(a, l, Len(a))
    <2>1. PICK l \in 1 .. Len(a) : v = SubSeq(a, l, Len(a))  BY <1>5
    <2> DEFINE m == Len(a)
    <2>2. m \in Nat /\ \A i \in 1 .. m : a[i] \in Char  BY <1>3, LenProperties, ElementOfSeq
    <2>3. l \in Int /\ \A i \in l .. m : a[i] \in Char  BY <2>2
    <2> HIDE DEF m
    <2>4. SubSeq(a, l, m) \in Seq(Char)  BY <2>2, <2>3, SubSeqProperties
    <2> QED  BY <2>1, <2>4 DEF m
<1>6. v = <<>> \/ \E l \in 1 .. Len(a) : v = SubSeq(a, l, Len(a))
    BY <1>2 DEF Suffixes
<1> QED  BY <1>4, <1>5, <1>6

Parsed == outcome \notin {"parsing", "usage", "help"}

\* Where the parsing of good parameters can end.
LEMMA GoodEnd ==
    ASSUME ParserInv, Parsed
    PROVE  /\ KnownCommand /\ ParserTypeOK /\ outcome \in {"run", "error", "crash"}
           /\ parse_mode \in {"Params", "Header", "Longopt", "Shortopt"}
           /\ parse_mode = "Params" => outcome = "error" /\ ~Good
           /\ parse_mode # "Params" =>
                Good /\ parsed_args = [i \in DOMAIN Params |-> ValueAt(i)]
<1>1. ParserTypeOK  BY DEF ParserInv
<1>2. parse_mode # "Start"  BY DEF ParserInv, AtStart, Parsed
<1>3. parse_mode \in {"Params", "Header", "Longopt", "Shortopt"}  BY <1>1, <1>2 DEF ParserTypeOK
<1>4. /\ KnownCommand /\ outcome \in {"run", "error", "crash"}
      /\ Len(parsed_args) <= Len(args)
      /\ parsed_args = [i \in 1 .. Len(parsed_args) |-> ValueAt(i)]
      /\ \A i \in 1 .. Len(parsed_args) : Params[i] # "kPath" => ValueAt(i) # NoNumber
    BY <1>2 DEF ParserInv, Taken, Parsed
<1>5. parse_mode = "Params" => outcome = "error" /\ ~Good  BY <1>4 DEF ParserInv, InParams
<1>6. ASSUME parse_mode # "Params"
      PROVE  Good /\ parsed_args = [i \in DOMAIN Params |-> ValueAt(i)]
    <2>1. Len(parsed_args) = Len(Params)  BY <1>3, <1>6 DEF ParserInv, BehindParams
    <2>2. DOMAIN Params = 1 .. Len(Params) /\ Len(Params) \in Nat /\ Len(args) \in Nat
        BY <1>1, <1>4, CmdParts, CursorParts
    <2>3. Len(args) >= Len(Params)  BY <1>4, <2>1, <2>2
    <2> QED  BY <1>4, <2>1, <2>2, <2>3 DEF Good
<1> QED  BY <1>1, <1>3, <1>4, <1>5, <1>6

\* Without an option nothing but the parameters is read.
LEMMA NoneGiven ==
    ASSUME ParserInv, Parsed, Good, Rest = <<>>
    PROVE  outcome = "run" /\ parsed_opts = <<>>
<1>1. /\ KnownCommand /\ ParserTypeOK
      /\ parse_mode \in {"Header", "Longopt", "Shortopt"}
    BY GoodEnd
<1>2. /\ Len(args) \in Nat /\ Len(Params) \in Nat
      /\ Len(Rest) = IF Len(Params) + 1 <= Len(args) THEN Len(args) - Len(Params) ELSE 0
    BY <1>1, RestIs
<1>3. Len(Rest) = 0  OBVIOUS
<1>4. ~(Len(args) > Len(Params))  BY ONLY <1>2, <1>3
<1>5. parse_mode = "Header"  BY <1>1, <1>4 DEF ParserInv, AtOption
<1> QED  BY <1>4, <1>5 DEF ParserInv, AtHeader, Parsed

\* One option is read with the value it was given, however it was written.
LEMMA OneGiven ==
    ASSUME ParserInv, Parsed, Good, OutOption \in Range(Cmd.opts),
           NEW v \in Seq(Char), Rest \in Short(v) \cup Long(v)
    PROVE  outcome = "run" /\ parsed_opts = <<[opt |-> OutOption.opt, val |-> v]>>
<1>1. /\ KnownCommand /\ ParserTypeOK
      /\ parse_mode \in {"Header", "Longopt", "Shortopt"}
    BY GoodEnd
<1> DEFINE n == Len(Params)
           x == args[n + 1]
<1>2. /\ n \in Nat /\ Len(args) \in Nat /\ Len(args) > n
      /\ x \in Seq(Char) /\ Len(x) \in Nat /\ Len(x) >= 2 /\ x[1] = "-"
    <2>1. CASE Rest \in Short(v)  BY <1>1, <2>1, ShortForm
    <2>2. CASE Rest \in Long(v)  BY <1>1, <2>2, LongForm
    <2> QED  BY <2>1, <2>2
<1> HIDE DEF x, n
<1>3. Dashed(x)
    <2>1. Dashed(x) <=> Len(x) >= 1 /\ x[1] = "-"  BY <1>2, DashesOf
    <2>2. Len(x) >= 1  BY <1>2
    <2> QED  BY <1>2, <2>1, <2>2
<1>4. parse_mode # "Header"
    <2> SUFFICES ASSUME parse_mode = "Header"
                 PROVE  FALSE
        OBVIOUS
    <2>1. /\ outcome \in {"parsing", "run", "error"}
          /\ outcome = "run" => Len(args) = n
          /\ outcome = "error" => ~Dashed(x)
        BY DEF ParserInv, AtHeader, n, x
    <2>2. Len(args) # n  BY <1>2
    <2> QED  BY <1>3, <2>1, <2>2 DEF Parsed
<1>5. After(v)
    <2>1. ~Before("Shortopt") /\ ~Before("Longopt")  BY DEF Before, Parsed
    <2> QED  BY <1>1, <1>4, <2>1 DEF ParserInv, OneOption
<1> QED  BY <1>5 DEF After, Parsed

\* The parameters that are not misread are read as the numbers meant.
LEMMA ReadAsMeant ==
    ASSUME ParserTypeOK, KnownCommand, ~Misread,
           NEW i \in DOMAIN Params \cap DOMAIN args
    PROVE  Meant(Params[i], args[i]) = ValueAt(i)
<1>1. Params[i] \in {"kPath", "kU32Hex", "kU32"}
    <2>1. Params \in Seq({"kPath", "kU32Hex", "kU32"}) /\ DOMAIN Params = 1 .. Len(Params)
        BY CmdParts
    <2> QED  BY <2>1, ElementOfSeq
<1>2. parse_u32_base(args[i], 16) = Meant("kU32", args[i])
    <2>1. Meant("kU32", args[i]) = AsU32(strtoul(args[i], 0))  BY DEF Meant, Base
    <2> QED  BY <2>1 DEF parse_u32_base
<1>3. CASE Params[i] = "kPath"  BY <1>3 DEF Meant, ValueAt
<1>4. CASE Params[i] = "kU32"  BY <1>2, <1>4 DEF ValueAt
<1>5. CASE Params[i] = "kU32Hex"
    <2>1. Meant("kU32Hex", args[i]) = Meant("kU32", args[i])  BY <1>5 DEF Misread, Params
    <2> QED  BY <1>2, <1>5, <2>1 DEF ValueAt
<1> QED  BY <1>1, <1>3, <1>4, <1>5

\* Every spelling of the option that counts is one of those followed.
LEMMA WrittenForms == \A v : Written(OutOption, v) \subseteq Short(v) \cup Long(v)
<1>1. OutOption.shortopt = "o"  BY DEF OutOption
<1> QED  BY <1>1 DEF Written, Short, Long

LEMMA ParserInv_Run ==
    ASSUME ParserInv
    PROVE  RunAsWritten
<1> DEFINE params == Cmd.params
           Value(i) == Meant(params[i], args[i])
           good == /\ Len(args) >= Len(params)
                   /\ \A i \in DOMAIN params : params[i] # "kPath" => Value(i) # NoNumber
<1> SUFFICES ASSUME Parsed
             PROVE  /\ ~Misread =>
                         /\ outcome = "run" =>
                              good /\ parsed_args = [i \in DOMAIN params |-> Value(i)]
                         /\ good /\ Behind = <<>> => outcome = "run" /\ parsed_opts = <<>>
                         /\ \A o \in Range(Cmd.opts) : \A v \in Values :
                              good /\ Behind \in Written(o, v) =>
                                outcome = "run" /\ parsed_opts = <<[opt |-> o.opt, val |-> v]>>
                    /\ outcome = "crash" => \E o \in Range(Cmd.opts) :
                         Last(args) \in {Dash \o <<o.shortopt>>, Dash \o Dash \o o.opt,
                                         <<o.shortopt>>, o.opt}
    BY DEF RunAsWritten, Parsed
<1>1. params = Params /\ Behind = Rest  BY DEF Params, Rest, Behind
<1>2. /\ KnownCommand /\ ParserTypeOK /\ outcome \in {"run", "error", "crash"}
      /\ parse_mode \in {"Params", "Header", "Longopt", "Shortopt"}
      /\ parse_mode = "Params" => outcome = "error" /\ ~Good
      /\ parse_mode # "Params" =>
           Good /\ parsed_args = [i \in DOMAIN Params |-> ValueAt(i)]
    BY GoodEnd
<1>3. /\ DOMAIN Params = 1 .. Len(Params) /\ Len(Params) \in Nat
      /\ DOMAIN args = 1 .. Len(args) /\ Len(args) \in Nat
    <2>1. args \in Seq(Seq(Char))  BY <1>2 DEF ParserTypeOK
    <2>2. DOMAIN args = 1 .. Len(args) /\ Len(args) \in Nat  BY <2>1, LenProperties
    <2> QED  BY <1>2, <2>2, CmdParts
<1>4. \A i \in DOMAIN Params \cap DOMAIN args : ~Misread => Value(i) = ValueAt(i)
    BY <1>1, <1>2, ReadAsMeant
<1> HIDE DEF params, Value
<1>5. Len(args) >= Len(Params) => DOMAIN Params \cap DOMAIN args = DOMAIN Params
    BY <1>3
<1>6. ~Misread => (good <=> Good)  BY <1>1, <1>4, <1>5 DEF Good
<1> HIDE DEF good
<1>7. ASSUME ~Misread, outcome = "run"
      PROVE  good /\ parsed_args = [i \in DOMAIN params |-> Value(i)]
    <2>1. parse_mode # "Params"  BY <1>2, <1>7
    <2>2. Good /\ Len(args) >= Len(Params)  BY <1>2, <2>1 DEF Good
    <2>3. [i \in DOMAIN params |-> Value(i)] = [i \in DOMAIN Params |-> ValueAt(i)]
        BY <1>1, <1>4, <1>5, <1>7, <2>2
    <2> QED  BY <1>2, <1>6, <1>7, <2>1, <2>2, <2>3
<1>8. ~Misread /\ good /\ Behind = <<>> => outcome = "run" /\ parsed_opts = <<>>
    BY <1>1, <1>6, NoneGiven
<1>9. ASSUME NEW o \in Range(Cmd.opts), NEW v \in Values,
             ~Misread, good, Behind \in Written(o, v)
      PROVE  outcome = "run" /\ parsed_opts = <<[opt |-> o.opt, val |-> v]>>
    <2>1. o = OutOption  BY <1>2, CmdParts
    <2>2. v \in Seq(Char)  BY <1>1, <1>2, SuffixType DEF Values
    <2>3. Rest \in Short(v) \cup Long(v)  BY <1>1, <1>9, <2>1, WrittenForms
    <2> QED  BY <1>6, <1>9, <2>1, <2>2, <2>3, OneGiven
<1>10. outcome = "crash" => \E o \in Range(Cmd.opts) :
         Last(args) \in {Dash \o <<o.shortopt>>, Dash \o Dash \o o.opt, <<o.shortopt>>, o.opt}
    <2> SUFFICES ASSUME outcome = "crash"
                 PROVE  \E o \in Range(Cmd.opts) :
                          Last(args) \in {Dash \o <<o.shortopt>>, Dash \o Dash \o o.opt,
                                          <<o.shortopt>>, o.opt}
        OBVIOUS
    <2>1. parse_mode \in {"Longopt", "Shortopt"}  BY <1>2 DEF ParserInv, AtHeader
    <2>2. /\ OutOption \in Range(Cmd.opts)
          /\ Last(args) \in {Dash \o <<"o">>, Dash \o Dash \o OutOption.opt,
                             <<"o">>, OutOption.opt}
        BY <2>1 DEF ParserInv, AtOption
    <2>3. OutOption.shortopt = "o"  BY DEF OutOption
    <2> QED  BY <2>2, <2>3
<1> QED  BY <1>7, <1>8, <1>9, <1>10

-----------------------------------------------------------------------------
(* The steps of the commands *)

\* A line depends on the command line and on memory alone, and an option on the
\* command line.
LEMMA LineFixed ==
    ASSUME regions' = regions, parsed_args' = parsed_args
    PROVE  \A i : Line(i)' = Line(i)
<1> SUFFICES ASSUME NEW CONSTANT i
             PROVE  Line(i)' = Line(i)
    OBVIOUS
<1> DEFINE address == (parsed_args[2] + WordSize * (i - 1)) % U32
<1>1. address' = address  OBVIOUS
<1>2. Line(i) = <<address, Read(address, WordSize)>>  BY DEF Line
<1>3. Line(i)' = <<address', Read(address, WordSize)'>>  BY DEF Line
<1>4. Read(address, WordSize)' = Read(address, WordSize)
    BY DEF Read, Query, Covering, Right, Zeros
<1> QED  BY <1>1, <1>2, <1>3, <1>4

LEMMA OptionFixed ==
    ASSUME UNCHANGED parser
    PROVE  Option(Out)' = Option(Out)
<1> DEFINE at(opts, named) ==
             LET I == {i \in 1 .. Len(opts) : opts[i].opt = Out}
                 given == IF I # {} THEN Min(I) ELSE 0
             IN  IF given # 0 THEN opts[given].val ELSE (CHOOSE o \in named : TRUE).default
<1>1. command' = command /\ args' = args /\ parsed_opts' = parsed_opts  BY DEF parser
<1>2. Named(Out)' = Named(Out)  BY <1>1, ParserFixed DEF Named
<1>3. Option(Out) = at(parsed_opts, Named(Out))  BY DEF Option, SelectInSeq
<1>4. Option(Out)' = at(parsed_opts', Named(Out)')
    BY DEF Option, SelectInSeq, Min, Out, OutOption
<1> HIDE DEF at
<1> QED  BY <1>1, <1>2, <1>3, <1>4

\* An option that was not given has its default, one that was given its value.
LEMMA OptionIs ==
    ASSUME KnownCommand, OutOption \in Range(Cmd.opts)
    PROVE  /\ parsed_opts = <<>> => Option(Out) = <<>>
           /\ \A v : parsed_opts = <<[opt |-> Out, val |-> v]>> => Option(Out) = v
<1> DEFINE given == SelectInSeq(parsed_opts, LAMBDA o : o.opt = Out)
           I == {i \in 1 .. Len(parsed_opts) : parsed_opts[i].opt = Out}
<1>1. given = IF I # {} THEN Min(I) ELSE 0  BY DEF SelectInSeq
<1>2. Option(Out) = IF given # 0 THEN parsed_opts[given].val
                    ELSE (CHOOSE o \in Named(Out) : TRUE).default
    BY DEF Option
<1>3. Named(Out) = {OutOption} /\ OutOption.default = <<>>  BY OnlyOut DEF OutOption
<1>4. ASSUME parsed_opts = <<>>
      PROVE  Option(Out) = <<>>
    <2>1. I = {}  BY <1>4
    <2> HIDE DEF given, I
    <2> QED  BY <1>1, <1>2, <1>3, <2>1
<1>5. ASSUME NEW v, parsed_opts = <<[opt |-> Out, val |-> v]>>
      PROVE  Option(Out) = v
    <2> DEFINE r == [opt |-> Out, val |-> v]
    <2>1. r.opt = Out /\ r.val = v  OBVIOUS
    <2> HIDE DEF r
    <2>2. parsed_opts = <<r>>  BY <1>5 DEF r
    <2>3. Len(parsed_opts) = 1 /\ parsed_opts[1] = r  BY <2>2
    <2>4. I = {1}  BY <2>1, <2>3
    <2> HIDE DEF given, I
    <2>5. Min(I) = 1
        <3>1. Min({1}) \in {1}
            <4>1. \E x \in {1} : \A y \in {1} : x <= y  OBVIOUS
            <4> QED  BY <4>1 DEF Min
        <3> QED  BY <2>4, <3>1
    <2> QED  BY <1>1, <1>2, <2>1, <2>3, <2>4, <2>5
<1> QED  BY <1>4, <1>5

\* The numbers a disassembly is given.
LEMMA DisNumbers ==
    ASSUME ParserInv, command = "dis", outcome = "run"
    PROVE  /\ parsed_args[2] \in 0 .. U32 - 1 /\ parsed_args[3] \in 0 .. U32 - 1
           /\ U32 \in Nat \ {0} /\ WordSize \in Nat \ {0} /\ U32 \div 2 \in Nat
           /\ LineCount = IF parsed_args[3] < U32 \div 2 THEN parsed_args[3]
                          ELSE parsed_args[3] - U32
           /\ LineCount \in Int
<1>1. U32 \in Nat \ {0} /\ WordSize \in Nat \ {0} /\ U32 \div 2 \in Nat
    BY CommandsAssumption
<1>2. /\ KnownCommand /\ ParserTypeOK /\ Good
      /\ parsed_args = [i \in DOMAIN Params |-> ValueAt(i)]
    BY GoodEnd DEF Parsed
<1>3. Params = <<"kPath", "kU32Hex", "kU32">>  BY <1>2, CmdParts
<1>4. /\ Len(Params) = 3 /\ DOMAIN Params = 1 .. 3
      /\ Params[2] # "kPath" /\ Params[3] # "kPath"
    BY <1>3
<1>5. Len(args) \in Nat /\ \A i \in 1 .. Len(args) : args[i] \in Seq(Char)
    BY <1>2, CursorParts
<1>6. Len(args) >= 3  BY <1>2, <1>4 DEF Good
<1>7. ASSUME NEW i \in {2, 3}
      PROVE  parsed_args[i] \in 0 .. U32 - 1
    <2>1. i \in DOMAIN Params /\ i \in 1 .. Len(args) /\ Params[i] # "kPath"
        BY <1>4, <1>5, <1>6
    <2>2. parsed_args[i] = ValueAt(i) /\ ValueAt(i) # NoNumber  BY <1>2, <2>1 DEF Good
    <2>3. ValueAt(i) = parse_u32_base(args[i], 16)  BY <2>1 DEF ValueAt
    <2>4. args[i] \in Seq(Char)  BY <1>5, <2>1
    <2>5. parse_u32_base(args[i], 16) \in 0 .. U32 - 1 \cup {NoNumber}  BY <2>4, NumberType
    <2> QED  BY <2>2, <2>3, <2>5
<1>8. parsed_args[2] \in 0 .. U32 - 1 /\ parsed_args[3] \in 0 .. U32 - 1  BY <1>7
<1>9. LineCount = IF parsed_args[3] < U32 \div 2 THEN parsed_args[3]
                  ELSE parsed_args[3] - U32
    BY DEF LineCount
<1>10. LineCount \in Int  BY <1>1, <1>8, <1>9
<1> QED  BY <1>1, <1>8, <1>9, <1>10

\* Nothing of the commands changes when none of their variables does.
LEMMA CommandsStutter ==
    ASSUME Listing, Returned, UNCHANGED <<parser, lines, dotfile, exit_code>>,
           UNCHANGED <<loading, regions>>
    PROVE  Listing' /\ Returned'
<1>1. /\ command' = command /\ args' = args /\ outcome' = outcome
      /\ parsed_args' = parsed_args /\ UNCHANGED parser
    BY DEF parser
<1>2. \A i : Line(i)' = Line(i)  BY <1>1, LineFixed
<1>3. LineCount' = LineCount  BY <1>1 DEF LineCount
<1>4. Listing'  BY <1>1, <1>2, <1>3 DEF Listing
<1>5. Option(OutOption.opt)' = Option(OutOption.opt)  BY <1>1, OptionFixed DEF Out
<1>6. Returned'  BY <1>1, <1>3, <1>5 DEF Returned
<1> QED  BY <1>4, <1>6

LEMMA CommandsInit_Inv ==
    ASSUME Init
    PROVE  CommandsInv
<1>1. /\ Given(Argvs, DolFiles, ElfFiles) /\ ParserInit /\ ImageInit
      /\ exit_code = None /\ lines = <<>> /\ dotfile = None
    BY DEF Init
<1>2. /\ Argvs \subseteq [command : STRING, args : Seq(Seq(STRING))]
      /\ DolFiles \subseteq DolFile /\ ElfFiles \subseteq ElfFile
      /\ None \notin Int
    BY CommandsAssumption, ImageAssumption
<1>3. command \in STRING /\ args \in Seq(Seq(STRING))
    <2>1. PICK argv \in Argvs : command = argv.command /\ args = argv.args
        BY <1>1 DEF Given
    <2> QED  BY <1>2, <2>1
<1>4. file \in DolFile \cup ElfFile  BY <1>1, <1>2 DEF Given
<1>5. ImageInv  BY <1>1, <1>4, ImageInit_Inv
<1>6. ParserInv  BY <1>1, <1>3, ParserInit_Inv
<1>7. Listing  BY <1>1 DEF Listing
<1>8. Returned  BY <1>1, <1>2 DEF Returned, ParserInit
<1> QED  BY <1>5, <1>6, <1>7, <1>8 DEF CommandsInv

LEMMA Parsing_Inv ==
    ASSUME CommandsInv, Parsing
    PROVE  CommandsInv'
<1>1. Parse /\ UNCHANGED image /\ UNCHANGED <<exit_code, lines, dotfile>>  BY DEF Parsing
<1>2. ImageInv /\ ParserInv /\ Listing /\ Returned  BY DEF CommandsInv
<1>3. outcome = "parsing" /\ command' = command
    BY <1>1 DEF Parse, Dispatch, ParseParam, StartOptions, EndOptions, Header, Longopt,
                Shortopt, InOptions, Quit, ParseOpt
<1>4. ImageInv'  BY <1>1, <1>2, ImageStutter
<1>5. ParserInv'  BY <1>1, <1>2, Parse_Inv
<1>6. Listing'  BY <1>1, <1>2, <1>3 DEF Listing
<1>7. Returned'
    <2>1. exit_code = None /\ None # 0  BY <1>2, <1>3, ImageAssumption DEF Returned
    <2> QED  BY <1>1, <1>2, <2>1 DEF Returned
<1> QED  BY <1>4, <1>5, <1>6, <1>7 DEF CommandsInv

LEMMA NotRun_Inv ==
    ASSUME CommandsInv, NotRun
    PROVE  CommandsInv'
<1>1. /\ outcome \notin {"parsing", "run"} /\ exit_code = None
      /\ UNCHANGED <<lines, dotfile>> /\ UNCHANGED parser /\ UNCHANGED image
    BY DEF NotRun, Return
<1>2. ImageInv /\ ParserInv /\ Listing /\ Returned  BY DEF CommandsInv
<1>3. outcome' = outcome /\ command' = command  BY <1>1 DEF parser
<1>4. ImageInv' /\ ParserInv'  BY <1>1, <1>2, ImageStutter, ParserStutter
<1>5. Listing'  BY <1>1, <1>2, <1>3 DEF Listing
<1>6. Returned'
    <2>1. dotfile = None  BY <1>1, <1>2, ImageAssumption DEF Returned
    <2> QED  BY <1>1, <1>3, <2>1 DEF Returned
<1> QED  BY <1>4, <1>5, <1>6 DEF CommandsInv

LEMMA Loading_Inv ==
    ASSUME CommandsInv, Loading
    PROVE  CommandsInv'
<1>1. /\ outcome = "run" /\ exit_code = None
      /\ LoadDol \/ LoadElf \/ LoadSection \/ EndSections \/ DiscoverAbi
      /\ UNCHANGED parser /\ UNCHANGED <<exit_code, lines, dotfile>>
    BY DEF Loading, Running
<1>2. ImageInv /\ ParserInv /\ Listing /\ Returned  BY DEF CommandsInv
<1>3. ImageInv'
    BY <1>1, <1>2, LoadDol_Inv, LoadElf_Inv, LoadSection_Inv, EndSections_Inv, DiscoverAbi_Inv
<1>4. ParserInv'  BY <1>1, <1>2, ParserStutter
<1>5. outcome' = outcome /\ command' = command  BY <1>1 DEF parser
<1>6. loading # "loaded"
    BY <1>1 DEF LoadDol, LoadElf, LoadSection, EndSections, DiscoverAbi
<1>7. Listing'  BY <1>1, <1>2, <1>5, <1>6 DEF Listing
<1>8. Returned'
    <2>1. dotfile = None /\ None # 0  BY <1>1, <1>2, ImageAssumption DEF Returned
    <2> QED  BY <1>1, <1>5, <2>1 DEF Returned
<1> QED  BY <1>3, <1>4, <1>7, <1>8 DEF CommandsInv

\* The steps that end a command leave the command line and the image alone.
LEMMA CannotLoad_Inv ==
    ASSUME CommandsInv, CannotLoad
    PROVE  CommandsInv'
<1>1. /\ outcome = "run" /\ exit_code = None /\ exit_code' = 1
      /\ UNCHANGED <<lines, dotfile>> /\ UNCHANGED parser /\ UNCHANGED image
    BY DEF CannotLoad, Running, Return
<1>2. ImageInv /\ ParserInv /\ Listing /\ Returned  BY DEF CommandsInv
<1>3. /\ outcome' = outcome /\ command' = command /\ parsed_args' = parsed_args
      /\ loading' = loading /\ regions' = regions
    BY <1>1 DEF parser, image
<1>4. ImageInv' /\ ParserInv'  BY <1>1, <1>2, ImageStutter, ParserStutter
<1>5. Listing'
    <2>1. \A i : Line(i)' = Line(i)  BY <1>3, LineFixed
    <2>2. LineCount' = LineCount  BY <1>3 DEF LineCount
    <2> QED  BY <1>1, <1>2, <1>3, <2>1, <2>2 DEF Listing
<1>6. Returned'
    <2>1. dotfile = None  BY <1>1, <1>2, ImageAssumption DEF Returned
    <2> QED  BY <1>1, <1>3, <2>1 DEF Returned
<1> QED  BY <1>4, <1>5, <1>6 DEF CommandsInv

LEMMA PrintSections_Inv ==
    ASSUME CommandsInv, PrintSections
    PROVE  CommandsInv'
<1>1. /\ outcome = "run" /\ exit_code = None /\ command = "sections"
      /\ UNCHANGED dotfile /\ UNCHANGED parser /\ UNCHANGED image
    BY DEF PrintSections, Running, Return
<1>2. ImageInv /\ ParserInv /\ Listing /\ Returned  BY DEF CommandsInv
<1>3. outcome' = outcome /\ command' = command  BY <1>1 DEF parser
<1>4. ImageInv' /\ ParserInv'  BY <1>1, <1>2, ImageStutter, ParserStutter
<1>5. Listing'  BY <1>1, <1>3 DEF Listing
<1>6. Returned'
    <2>1. dotfile = None  BY <1>1, <1>2, ImageAssumption DEF Returned
    <2> QED  BY <1>1, <1>3, <2>1 DEF Returned
<1> QED  BY <1>4, <1>5, <1>6 DEF CommandsInv

LEMMA DisassembleLine_Inv ==
    ASSUME CommandsInv, DisassembleLine
    PROVE  CommandsInv'
<1> DEFINE m == Len(lines)
<1>1. /\ outcome = "run" /\ exit_code = None /\ command = "dis" /\ loading = "loaded"
      /\ UNCHANGED dotfile /\ UNCHANGED parser /\ UNCHANGED image
    BY DEF DisassembleLine, Running, Return
<1>2. ImageInv /\ ParserInv /\ Listing /\ Returned  BY DEF CommandsInv
<1>3. /\ outcome' = outcome /\ command' = command /\ parsed_args' = parsed_args
      /\ loading' = loading /\ regions' = regions
    BY <1>1 DEF parser, image
<1>4. ImageInv' /\ ParserInv'  BY <1>1, <1>2, ImageStutter, ParserStutter
<1>5. LineCount \in Int /\ LineCount' = LineCount
    BY <1>1, <1>2, <1>3, DisNumbers DEF LineCount
<1>6. \A i : Line(i)' = Line(i)  BY <1>3, LineFixed
<1>7. m \in Nat /\ lines = [i \in 1 .. m |-> Line(i)]
    <2>1. CASE lines = <<>>
        <3>1. m = 0  BY <2>1
        <3> QED  BY <2>1, <3>1
    <2>2. CASE lines # <<>>  BY <1>1, <1>2, <2>2 DEF Listing
    <2> QED  BY <2>1, <2>2
<1>8. \/ /\ m < LineCount /\ exit_code' = exit_code
         /\ LET address == (parsed_args[2] + WordSize * m) % U32
            IN  lines' = Append(lines, <<address, Read(address, WordSize)>>)
      \/ ~(m < LineCount) /\ lines' = lines
    BY DEF DisassembleLine
<1>9. dotfile = None  BY <1>1, <1>2, ImageAssumption DEF Returned
<1>10. CASE /\ m < LineCount /\ exit_code' = exit_code
            /\ LET address == (parsed_args[2] + WordSize * m) % U32
               IN  lines' = Append(lines, <<address, Read(address, WordSize)>>)
    <2> DEFINE V == {Line(i) : i \in 1 .. m + 1}
    <2>1. lines' = Append(lines, Line(m + 1))
        <3> DEFINE k == m + 1
        <3>1. k - 1 = m  BY <1>7
        <3> HIDE DEF m, k
        <3>2. Line(k) = LET address == (parsed_args[2] + WordSize * m) % U32
                        IN  <<address, Read(address, WordSize)>>
            BY <3>1 DEF Line
        <3>3. lines' = Append(lines, Line(k))  BY <1>10, <3>2
        <3> QED  BY <3>3 DEF k
    <2> HIDE DEF m
    <2>2. lines \in [1 .. m -> V]
        <3>1. \A i \in 1 .. m : i \in 1 .. m + 1  BY <1>7
        <3> QED  BY <1>7, <3>1
    <2>3. lines \in Seq(V) /\ Len(lines) = m  BY <1>7, <2>2, FunctionIsList
    <2>4. Line(m + 1) \in V
        <3>1. m + 1 \in 1 .. m + 1  BY <1>7
        <3> QED  BY <3>1
    <2> HIDE DEF V
    <2>5. /\ lines' \in Seq(V) /\ Len(lines') = m + 1
          /\ \A i \in 1 .. m : lines'[i] = lines[i]
          /\ lines'[m + 1] = Line(m + 1)
        BY <2>1, <2>3, <2>4, AppendProperties
    <2>6. DOMAIN lines' = 1 .. m + 1 /\ lines' = [i \in 1 .. m + 1 |-> lines'[i]]
        BY <2>5, LenProperties
    <2>7. \A i \in 1 .. m + 1 : lines'[i] = Line(i)
        <3> SUFFICES ASSUME NEW i \in 1 .. m + 1
                     PROVE  lines'[i] = Line(i)
            OBVIOUS
        <3>1. i \in 1 .. m \/ i = m + 1  BY <1>7
        <3> QED  BY <1>7, <2>5, <3>1
    <2>8. lines' = [i \in 1 .. m + 1 |-> Line(i)]  BY <2>6, <2>7
    <2>9. m + 1 <= LineCount /\ m + 1 \in Nat  BY <1>5, <1>7, <1>10
    <2>10. Listing'
        <3>1. lines' = [i \in 1 .. Len(lines') |-> Line(i)']  BY <1>6, <2>5, <2>8
        <3> QED  BY <1>1, <1>3, <1>5, <2>5, <2>9, <3>1 DEF Listing
    <2>11. Returned'
        BY <1>1, <1>3, <1>9, <1>10, ImageAssumption DEF Returned
    <2> QED  BY <1>4, <2>10, <2>11 DEF CommandsInv
<1>11. CASE ~(m < LineCount) /\ lines' = lines
    <2>1. Listing'  BY <1>2, <1>3, <1>5, <1>6, <1>11 DEF Listing
    <2>2. m >= LineCount  BY <1>5, <1>7, <1>11
    <2>3. Returned'  BY <1>1, <1>3, <1>5, <1>9, <1>11, <2>2 DEF Returned
    <2> QED  BY <1>4, <2>1, <2>3 DEF CommandsInv
<1> QED  BY <1>8, <1>10, <1>11

LEMMA DumpDotfile_Inv ==
    ASSUME CommandsInv, DumpDotfile
    PROVE  CommandsInv'
<1>1. /\ outcome = "run" /\ command = "graphviz" /\ loading = "loaded" /\ exit_code' = 0
      /\ dotfile' = LET path == Option(Out) IN IF path \in Writable THEN path ELSE None
      /\ UNCHANGED lines /\ UNCHANGED parser /\ UNCHANGED image
    BY DEF DumpDotfile, Running, Return, Out, OutOption
<1>2. ImageInv /\ ParserInv /\ Listing /\ Returned  BY DEF CommandsInv
<1>3. outcome' = outcome /\ command' = command /\ loading' = loading
    BY <1>1 DEF parser, image
<1>4. ImageInv' /\ ParserInv'  BY <1>1, <1>2, ImageStutter, ParserStutter
<1>5. Option(OutOption.opt)' = Option(OutOption.opt)  BY <1>1, OptionFixed DEF Out
<1>6. Listing'  BY <1>1, <1>3 DEF Listing
<1>7. Returned'  BY <1>1, <1>3, <1>5 DEF Returned, Out
<1> QED  BY <1>4, <1>6, <1>7 DEF CommandsInv

LEMMA Summarize_Inv ==
    ASSUME CommandsInv, Summarize
    PROVE  CommandsInv'
<1>1. /\ outcome = "run" /\ exit_code = None /\ command \in {"summarize", "testcmd"}
      /\ UNCHANGED <<lines, dotfile>> /\ UNCHANGED parser /\ UNCHANGED image
    BY DEF Summarize, Running, Return
<1>2. ImageInv /\ ParserInv /\ Listing /\ Returned  BY DEF CommandsInv
<1>3. outcome' = outcome /\ command' = command  BY <1>1 DEF parser
<1>4. ImageInv' /\ ParserInv'  BY <1>1, <1>2, ImageStutter, ParserStutter
<1>5. Listing'  BY <1>1, <1>3 DEF Listing
<1>6. Returned'
    <2>1. dotfile = None  BY <1>1, <1>2, ImageAssumption DEF Returned
    <2> QED  BY <1>1, <1>3, <2>1 DEF Returned
<1> QED  BY <1>4, <1>5, <1>6 DEF CommandsInv

LEMMA CommandsStep ==
    ASSUME CommandsInv, [Next]_vars
    PROVE  CommandsInv'
<1>1. CASE Parsing  BY <1>1, Parsing_Inv
<1>2. CASE NotRun  BY <1>2, NotRun_Inv
<1>3. CASE Loading  BY <1>3, Loading_Inv
<1>4. CASE CannotLoad  BY <1>4, CannotLoad_Inv
<1>5. CASE PrintSections  BY <1>5, PrintSections_Inv
<1>6. CASE DisassembleLine  BY <1>6, DisassembleLine_Inv
<1>7. CASE DumpDotfile  BY <1>7, DumpDotfile_Inv
<1>8. CASE Summarize  BY <1>8, Summarize_Inv
<1>9. CASE UNCHANGED vars
    <2>1. UNCHANGED parser /\ UNCHANGED image /\ UNCHANGED <<lines, dotfile, exit_code>>
        BY <1>9 DEF vars
    <2>2. UNCHANGED <<loading, regions>>  BY <2>1 DEF image
    <2> QED  BY <2>1, <2>2, ImageStutter, ParserStutter, CommandsStutter DEF CommandsInv
<1> QED  BY <1>1, <1>2, <1>3, <1>4, <1>5, <1>6, <1>7, <1>8, <1>9 DEF Next

-----------------------------------------------------------------------------
(* What the invariant says of a command that has come to its end *)

LEMMA CommandsInv_Listing ==
    ASSUME CommandsInv
    PROVE  ListingShowsTheFile
<1> SUFFICES ASSUME exit_code = 0, command = "dis", outcome = "run", Sound
             PROVE  /\ Len(lines) = IF parsed_args[3] < U32 \div 2 THEN parsed_args[3] ELSE 0
                    /\ \A i \in DOMAIN lines :
                         LET address == (parsed_args[2] + WordSize * (i - 1)) % U32
                             over == {h \in Range(Sections) : Covers(h, address, WordSize)}
                         IN  lines[i] =
                               <<address, IF over = {} THEN Zeros(WordSize)
                                          ELSE InFile(CHOOSE h \in over : TRUE, address, WordSize)>>
    BY DEF ListingShowsTheFile
<1> DEFINE m == Len(lines)
<1>1. ImageInv /\ ParserInv /\ Listing /\ Returned  BY DEF CommandsInv
<1>2. /\ parsed_args[2] \in 0 .. U32 - 1 /\ parsed_args[3] \in 0 .. U32 - 1
      /\ U32 \in Nat \ {0} /\ WordSize \in Nat \ {0} /\ U32 \div 2 \in Nat
      /\ LineCount = IF parsed_args[3] < U32 \div 2 THEN parsed_args[3]
                     ELSE parsed_args[3] - U32
      /\ LineCount \in Int
    BY <1>1, DisNumbers
<1>3. loading = "loaded" /\ m >= LineCount  BY <1>1 DEF Returned
<1>4. /\ m \in Nat /\ lines = [i \in 1 .. m |-> Line(i)]
      /\ m = 0 \/ m <= LineCount
    <2>1. CASE lines = <<>>
        <3>1. m = 0  BY <2>1
        <3> QED  BY <2>1, <3>1
    <2>2. CASE lines # <<>>  BY <1>1, <2>2 DEF Listing
    <2> QED  BY <2>1, <2>2
<1> HIDE DEF m
<1>5. m = IF parsed_args[3] < U32 \div 2 THEN parsed_args[3] ELSE 0
    BY <1>2, <1>3, <1>4
<1>6. ASSUME NEW i \in DOMAIN lines
      PROVE  LET address == (parsed_args[2] + WordSize * (i - 1)) % U32
                 over == {h \in Range(Sections) : Covers(h, address, WordSize)}
             IN  lines[i] =
                   <<address, IF over = {} THEN Zeros(WordSize)
                              ELSE InFile(CHOOSE h \in over : TRUE, address, WordSize)>>
    <2> DEFINE address == (parsed_args[2] + WordSize * (i - 1)) % U32
               over == {h \in Range(Sections) : Covers(h, address, WordSize)}
    <2>1. i \in 1 .. m  BY <1>4
    <2>2. lines[i] = <<address, Read(address, WordSize)>>  BY <1>4, <2>1 DEF Line
    <2>3. address \in Int
        <3>1. i - 1 \in Nat  BY <1>4, <2>1
        <3>2. WordSize * (i - 1) \in Nat  BY <1>2, <3>1
        <3>3. parsed_args[2] + WordSize * (i - 1) \in Nat  BY <1>2, <3>2
        <3> QED  BY <1>2, <3>3
    <2> HIDE DEF address
    <2>4. /\ \A h \in Range(Sections) : Covers(h, address, WordSize) =>
               Read(address, WordSize) = InFile(h, address, WordSize)
          /\ (\A h \in Range(Sections) : ~Covers(h, address, WordSize)) =>
               Read(address, WordSize) = Zeros(WordSize)
        BY <1>1, <1>2, <1>3, <2>3, SoundRead DEF Finished
    <2>5. CASE over = {}
        <3>1. Read(address, WordSize) = Zeros(WordSize)  BY <2>4, <2>5
        <3> QED  BY <2>2, <2>5, <3>1 DEF address
    <2>6. CASE over # {}
        <3>1. (CHOOSE h \in over : TRUE) \in over  BY <2>6
        <3>2. Read(address, WordSize) = InFile(CHOOSE h \in over : TRUE, address, WordSize)
            BY <2>4, <3>1
        <3> HIDE DEF over
        <3>3. lines[i] = <<address, IF over = {} THEN Zeros(WordSize)
                                    ELSE InFile(CHOOSE h \in over : TRUE, address, WordSize)>>
            BY <2>2, <2>6, <3>2
        <3> QED  BY <3>3 DEF address, over
    <2> QED  BY <2>5, <2>6
<1> QED  BY <1>5, <1>6 DEF m

LEMMA CommandsInv_Graph ==
    ASSUME CommandsInv
    PROVE  GraphGoesWhereAsked
<1>1. ParserInv /\ Returned  BY DEF CommandsInv
<1>2. dotfile # None => command = "graphviz" /\ exit_code = 0 /\ loading = "loaded"
    BY <1>1 DEF Returned
<1>3. ASSUME command = "graphviz", exit_code = 0, outcome = "run",
             NEW v \in Values, Behind \in Written(OutOption, v)
      PROVE  dotfile = IF v \in Writable THEN v ELSE None
    <2>1. Parsed  BY <1>3 DEF Parsed
    <2>2. KnownCommand /\ ParserTypeOK /\ Good  BY <1>1, <1>3, <2>1, GoodEnd
    <2>3. OutOption \in Range(Cmd.opts)  BY <1>3, <2>2, CmdParts
    <2>4. dotfile = IF Option(Out) \in Writable THEN Option(Out) ELSE None
        BY <1>1, <1>3 DEF Returned, Out
    <2>5. Behind = Rest  BY DEF Rest, Params, Behind
    <2>6. v \in Seq(Char)  BY <2>2, <2>5, SuffixType DEF Values
    <2>7. Rest \in Short(v) \cup Long(v)  BY <1>3, <2>5, WrittenForms
    <2>8. parsed_opts = <<[opt |-> Out, val |-> v]>>
        BY <1>1, <2>1, <2>2, <2>3, <2>6, <2>7, OneGiven DEF Out
    <2>9. Option(Out) = v  BY <2>2, <2>3, <2>8, OptionIs
    <2> QED  BY <2>4, <2>9
<1> QED  BY <1>2, <1>3 DEF GraphGoesWhereAsked

-----------------------------------------------------------------------------
(* The theorems *)

LEMMA CommandsInvariant == Spec => []CommandsInv
<1>1. Init => CommandsInv  BY CommandsInit_Inv
<1>2. CommandsInv /\ [Next]_vars => CommandsInv'  BY CommandsStep
<1> QED  BY <1>1, <1>2, PTL DEF Spec

\* Memory shows the file and nothing else, for every file, laid out and cut short
\* as it may be: a value that is read comes, byte by byte and in order, from the
\* place one section header gives for its whole range, or reads as zero; and when
\* nothing is lost every section reads as it stands in the file.
\* (src/producers/SectionedData.cc:8-61, DolData.cc:102-129, ElfData.cc:33-74)
THEOREM MemoryAlwaysShowsTheFile == Spec => []MemoryShowsTheFile
<1>1. CommandsInv => MemoryShowsTheFile  BY ImageInv_Memory DEF CommandsInv
<1> QED  BY <1>1, CommandsInvariant, PTL

\* The addresses taken for the save and restore routines read as their patterns
\* do, and none is recorded only if no text section shows the pattern, for every
\* image and every pattern.  (src/utl/PatternScan.cc:60-94,
\* src/ppc/BinaryContext.cc:86-99)
THEOREM AbiRoutinesAreAlwaysFound == Spec => []AbiRoutinesAreFound
<1>1. CommandsInv => AbiRoutinesAreFound  BY ImageInv_Abi DEF CommandsInv
<1> QED  BY <1>1, CommandsInvariant, PTL

\* A command line of any length, over any characters, is run exactly as it was
\* written, unless a hexadecimal number on it is misread.
\* (src/utl/LaunchCommand.cc:176-254, LaunchCommand.hh:26-30)
THEOREM AlwaysRunAsWritten == Spec => []RunAsWritten
<1>1. CommandsInv => RunAsWritten  BY ParserInv_Run DEF CommandsInv
<1> QED  BY <1>1, CommandsInvariant, PTL

\* A disassembly of any address and length shows the words the file holds there.
\* (src/Commands.cc:302-335, src/producers/SectionedData.cc:8-25)
THEOREM ListingAlwaysShowsTheFile == Spec => []ListingShowsTheFile
<1>1. CommandsInv => ListingShowsTheFile  BY CommandsInv_Listing
<1> QED  BY <1>1, CommandsInvariant, PTL

\* A graph is written to the path the option names, in whatever spelling, and to
\* no other, when that can be written.
\* (src/Commands.cc:220-224, src/utl/LaunchCommand.cc:263-276)
THEOREM GraphAlwaysGoesWhereAsked == Spec => []GraphGoesWhereAsked
<1>1. CommandsInv => GraphGoesWhereAsked  BY CommandsInv_Graph
<1> QED  BY <1>1, CommandsInvariant, PTL
=============================================================================
