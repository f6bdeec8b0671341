-------------------------------- MODULE Image --------------------------------
(***************************************************************************)
(* The binary an analysis reads: DolData and ElfData fill the sections of  *)
(* a SectionedData from a file, BinaryContext looks for the two register   *)
(* save routines in it with PatternScan, and every later pass reads memory *)
(* through read_byte, read_half or read_word.                              *)
(*                                                                         *)
(* One step is one section read from the stream, one scan, or the parsing  *)
(* of a header.  The interval tree of SectionedData is the set of disjoint *)
(* intervals that module IntervalTree shows it to be.  A file is a record  *)
(* of what the two formats store: `cells` are its bytes, offsets count     *)
(* from 0, `whole` says whether the fixed part of the header is there.  Of *)
(* an ELF file `format` is what its header says when the bytes that the    *)
(* file is too short for are taken for zeros: one that ends before the     *)
(* machine does is "other", like one that is no big-endian PowerPC file.   *)
(* Sections of a file have at least one byte.                              *)
(***************************************************************************)
EXTENDS Lists, Characters, SequencesExt

CONSTANTS kGcMinVa, kGcMaxVa,     \* where the sections of a DOL may begin
          kSaveGprPattern, kRestGprPattern,   \* pattern texts
          AbiSize,                \* 0x4c: the bytes of a save routine
          Garbage,                \* header lists an unread header may hold
          None

\* The addresses are those of a 32-bit machine, here without a bound
Place == [off : Nat, va : Nat, size : Nat]
SectionHeader == [off : Nat, va : Nat, size : Nat,
                  kind : {"text", "data", "other"}, alloc : BOOLEAN]
Byte == 0 .. 255

DolHeader == [text : Seq(Place), data : Seq(Place),
              bss : [va : Nat, size : Nat], entry : Nat]
DolFile == [format : {"dol"}, whole : BOOLEAN, cells : Seq(Byte), header : DolHeader]
ElfFile == [format : {"elf", "other"}, whole : BOOLEAN, cells : Seq(Byte),
            header : [shdrs : Seq(SectionHeader), entry : Nat]]

ASSUME ImageAssumption ==
    /\ kGcMinVa \in Nat /\ kGcMaxVa \in Nat
    /\ \A hdr \in Garbage : hdr.text \in Seq(Place) /\ hdr.data \in Seq(Place)
    /\ None \notin Int

VARIABLES file,          \* what the stream holds
          stream,        \* TRUE until a read came up short: then all others fail
          loading,       \* "closed", "sections", "scan", "loaded" or "refused"
          pending,       \* the section headers still to be read, in order
          regions,       \* SectionedData::_regions
          text_sections, data_sections,    \* the headers listed
          entrypoint,
          abi_conf       \* the start of the save and of the restore routine

image == <<file, stream, loading, pending, regions, text_sections,
           data_sections, entrypoint, abi_conf>>

\* A section ends where its data does; query finds any that meets lo .. hi-1
Right(s) == s.base + Len(s.data)
Covering(s, a) == a >= s.base /\ a < Right(s)
Query(lo, hi) == {s \in regions : s.base < hi /\ lo < Right(s)}

Zeros(n) == [i \in 1 .. n |-> 0]

\* The slip that copies the bytes in the order of the host.
ReadAsStored(a, n) ==
    LET hit == {s \in Query(a, a + n) : Covering(s, a) /\ Covering(s, a + n - 1)}
    IN  IF hit = {} THEN Zeros(n)
        ELSE LET s == CHOOSE s \in hit : TRUE
             IN  Reverse(SubSeq(s.data, a - s.base + 1, a - s.base + n))

\* The slip that takes the section of the first byte for that of all.
ReadFromFirst(a, n) ==
    LET hit == {s \in Query(a, a + n) : Covering(s, a)}
    IN  IF hit = {} THEN Zeros(n)
        ELSE LET s == CHOOSE s \in hit : TRUE
             IN  SubSeq(s.data \o Zeros(n), a - s.base + 1, a - s.base + n)

\* read_byte, read_half, read_word: the n bytes at address a, most
\* significant first; zeros when they are not in one section
Read(a, n) ==
    LET hit == {s \in Query(a, a + n) : Covering(s, a) /\ Covering(s, a + n - 1)}
    IN  IF hit = {} THEN Zeros(n)
        ELSE LET s == CHOOSE s \in hit : TRUE
             IN  SubSeq(s.data, a - s.base + 1, a - s.base + n)

AddSection(base, data) ==
    LET s == [base |-> base, data |-> data]
    IN  IF Query(base, base + Len(data)) = {} THEN regions \cup {s} ELSE regions

-----------------------------------------------------------------------------
(* Reading from the stream. *)

\* What a vector of h.size zeros holds after a seek to h.off and a read
ReadAt(h) == [i \in 1 .. h.size |->
                IF stream /\ h.off + i <= Len(file.cells)
                THEN file.cells[h.off + i] ELSE 0]
EnoughFor(h) == h.off + h.size <= Len(file.cells)

Unused(h) == h.off = 0 /\ h.va = 0 /\ h.size = 0
Used(list) == Pick(list, {k \in 1 .. Len(list) : ~Unused(list[k])})
Tagged(list, kind) == [i \in DOMAIN list |->
    [off |-> list[i].off, va |-> list[i].va, size |-> list[i].size,
     kind |-> kind, alloc |-> TRUE]]

Sizes(list) == FoldSeq(LAMBDA h, n : h.size + n, 0, list)

\* A stream that has failed reports the position -1, the greatest size_t
sanity_check_header(text, data, bss) ==
    /\ \A h \in Range(text \o data) :
         (file.whole => h.off < Len(file.cells))
             /\ h.va >= kGcMinVa /\ h.va < kGcMaxVa
    /\ bss.va >= kGcMinVa /\ bss.va < kGcMaxVa
    /\ Sizes(text \o data) + bss.size < kGcMaxVa - kGcMinVa

Refuse == loading' = "refused" /\ UNCHANGED pending

\* DolData::load_from up to the sections.  The fields of a header the file
\* is too short for are never written: they hold anything.
LoadDol ==
    /\ loading = "closed" /\ file.format = "dol"
    /\ stream' = file.whole
    /\ \E hdr \in IF file.whole THEN {file.header} ELSE Garbage :
         LET text == Used(hdr.text)
             data == Used(hdr.data)
         IN  /\ text_sections' = text
             /\ data_sections' = data
             /\ IF sanity_check_header(text, data, hdr.bss)
                THEN /\ loading' = "sections"
                     /\ pending' = Tagged(text, "text") \o Tagged(data, "data")
                ELSE Refuse
    /\ UNCHANGED <<file, regions, entrypoint, abi_conf>>

\* ElfData::load_from up to the sections.  A short read is no reason to refuse:
\* of a header cut off behind the machine every section header is still asked for
LoadElf ==
    /\ loading = "closed" /\ file.format # "dol"
    /\ stream' = file.whole
    /\ IF file.format = "elf"
       THEN loading' = "sections" /\ pending' = file.header.shdrs
       ELSE Refuse
    /\ UNCHANGED <<file, regions, text_sections, data_sections, entrypoint, abi_conf>>

\* A section header that cannot be read is all zeros, and so not PROGBITS
Skipped(h) == file.format = "elf" /\ (~stream \/ h.kind = "other" \/ h.va = 0)

Listed(h) == [off |-> h.off, va |-> h.va, size |-> h.size]

LoadSection ==
    /\ loading = "sections" /\ pending # <<>>
    /\ LET h == Head(pending)
           elf == file.format = "elf"
       IN  IF Skipped(h)
           THEN UNCHANGED <<regions, stream, text_sections, data_sections>>
           ELSE /\ regions' = AddSection(h.va, ReadAt(h))
                /\ stream' = (stream /\ EnoughFor(h))
                /\ text_sections' = IF elf /\ h.kind = "text"
                     THEN Append(text_sections, Listed(h)) ELSE text_sections
                /\ data_sections' = IF elf /\ h.kind = "data" /\ h.alloc
                     THEN Append(data_sections, Listed(h)) ELSE data_sections
    /\ pending' = Tail(pending)
    /\ UNCHANGED <<file, loading, entrypoint, abi_conf>>

\* A DOL keeps its entry point in the stream, an ELF file in the header read
EndSections ==
    /\ loading = "sections" /\ pending = <<>>
    /\ entrypoint' = IF file.format = "elf" \/ stream THEN file.header.entry ELSE 0
    /\ loading' = "scan"
    /\ UNCHANGED <<file, stream, pending, regions, text_sections, data_sections, abi_conf>>

-----------------------------------------------------------------------------
(* PatternScan and the two routines looked for. *)

IsHex(c) == c \in DOMAIN HexDigit

\* One entry per three characters: a byte, or None for a pair of wildcards;
\* a pair that is neither is dropped
compile_pattern(text) ==
    LET pairs == [k \in 1 .. (Len(text) + 1) \div 3 |-> 3 * k - 2]
        Known(i) == \/ text[i] = "?" /\ text[i + 1] = "?"
                    \/ IsHex(text[i]) /\ IsHex(text[i + 1])
        Entry(i) == IF text[i] = "?" THEN None
                    ELSE 16 * HexDigit[text[i]] + HexDigit[text[i + 1]]
        known == Pick(pairs, {k \in DOMAIN pairs : Known(pairs[k])})
    IN  [k \in DOMAIN known |-> Entry(known[k])]

\* A routine is at least as long as the pattern that tells it
ASSUME PatternAssumption ==
    /\ AbiSize \in Nat
    /\ {kSaveGprPattern, kRestGprPattern} \subseteq Seq(STRING)
    /\ \A text \in {kSaveGprPattern, kRestGprPattern} :
         Len(compile_pattern(text)) \in 1 .. AbiSize

MatchesAt(cpat, data, i) ==
    \A j \in DOMAIN cpat : cpat[j] = None \/ cpat[j] = data[i + j]

\* The slip that stops one place early.
ScanShort(data, cpat) ==
    LET found == {i \in 0 .. Len(data) - Len(cpat) - 1 : MatchesAt(cpat, data, i)}
    IN  IF found = {} THEN None ELSE CHOOSE i \in found : \A k \in found : i <= k

pattern_scan_linear(data, cpat) ==
    LET found == {i \in 0 .. Len(data) - Len(cpat) : MatchesAt(cpat, data, i)}
    IN  IF found = {} THEN None ELSE CHOOSE i \in found : \A k \in found : i <= k

\* section_for_vaddr, then the scan of what it found, for each text header
ScanOf(h, cpat) ==
    LET there == Query(h.va, h.va + 1)
    IN  IF there = {} THEN None
        ELSE LET s == CHOOSE s \in there : TRUE
                 i == pattern_scan_linear(s.data, cpat)
             IN  IF i = None THEN None ELSE i + s.base

pattern_scan_code(text) ==
    LET cpat == compile_pattern(text)
        scans == [k \in DOMAIN text_sections |-> ScanOf(text_sections[k], cpat)]
    IN  IF \A k \in DOMAIN scans : scans[k] = None THEN None
        ELSE scans[CHOOSE k \in DOMAIN scans :
                     scans[k] # None /\ \A l \in 1 .. k - 1 : scans[l] = None]

DiscoverAbi ==
    /\ loading = "scan"
    /\ abi_conf' = [save |-> pattern_scan_code(kSaveGprPattern),
                    rest |-> pattern_scan_code(kRestGprPattern)]
    /\ loading' = "loaded"
    /\ UNCHANGED <<file, stream, pending, regions, text_sections, data_sections, entrypoint>>

is_abi_routine(a) ==
    \E start \in {abi_conf.save, abi_conf.rest} \ {None} : a >= start /\ a < start + AbiSize

-----------------------------------------------------------------------------
ImageInit == /\ stream = TRUE /\ loading = "closed"
             /\ pending = <<>> /\ regions = {}
             /\ text_sections = <<>> /\ data_sections = <<>>
             /\ entrypoint = 0
             /\ abi_conf = [save |-> None, rest |-> None]

Load == LoadDol \/ LoadElf \/ LoadSection \/ EndSections \/ DiscoverAbi

-----------------------------------------------------------------------------
(* What the later passes rely on. *)

Held(h) == h.kind # "other" /\ h.va # 0
Sections == IF file.format = "elf"
            THEN Pick(file.header.shdrs,
                      {k \in 1 .. Len(file.header.shdrs) : Held(file.header.shdrs[k])})
            ELSE Tagged(Used(file.header.text), "text") \o Tagged(Used(file.header.data), "data")

Covers(h, a, n) == h.va <= a /\ a + n <= h.va + h.size
InFile(h, a, n) == [i \in 1 .. n |->
    LET at == h.off + a - h.va + i
    IN  IF at <= Len(file.cells) THEN file.cells[at] ELSE 0]

\* Nothing is lost: the file holds every section, and no two share an address
Sound == /\ file.whole
         /\ \A k \in DOMAIN Sections : EnoughFor(Sections[k])
         /\ \A k, l \in DOMAIN Sections :
              k # l => \/ Sections[k].va + Sections[k].size <= Sections[l].va
                       \/ Sections[l].va + Sections[l].size <= Sections[k].va

\* Memory shows the file and nothing else: a value that is read comes, byte by
\* byte and in order, from the place in the file one section header gives for
\* its whole range, or from bytes the file does not have, which read as zeros;
\* and when nothing is lost every section reads as it stands in the file.
\* (src/producers/SectionedData.cc:8-25, DolData.cc:107-121, ElfData.cc:50-73)
MemoryShowsTheFile ==
    loading = "loaded" =>
      /\ \A a \in 0 .. kGcMaxVa + 1, n \in {1, 2} :
           LET value == Read(a, n)
           IN  value # Zeros(n) =>
                 \E h \in Range(Sections) :
                   /\ Covers(h, a, n)
                   /\ \A i \in 1 .. n :
                        value[i] # 0 => value[i] = InFile(h, a, n)[i]
      /\ Sound => \A h \in Range(Sections), n \in {1, 2} :
                    \A a \in h.va .. h.va + h.size - n : Read(a, n) = InFile(h, a, n)

\* The addresses taken for a register save routine are those of one: they read
\* as the pattern does; and none is recorded only if no text section, read
\* through memory, shows the pattern.  (src/utl/PatternScan.cc:60-94,
\* src/ppc/BinaryContext.cc:86-99)
AbiRoutinesAreFound ==
    loading = "loaded" =>
      \A side \in {<<abi_conf.save, kSaveGprPattern>>, <<abi_conf.rest, kRestGprPattern>>} :
        LET cpat == compile_pattern(side[2])
            Shows(a) == MatchesAt(cpat, Read(a, Len(cpat)), 0)
        IN  /\ side[1] # None => Shows(side[1]) /\ is_abi_routine(side[1] + Len(cpat) - 1)
            /\ side[1] = None /\ Sound =>
                 \A h \in Range(Sections) :
                   h.kind = "text" =>
                     \A a \in h.va .. h.va + h.size - Len(cpat) : ~Shows(a)
=============================================================================
