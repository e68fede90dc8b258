------------------------------- MODULE MachO -------------------------------
(***************************************************************************)
(* The parser of formats/MachO.cc: from an open file to the objects and    *)
(* sections it finds, or to a refusal.                                     *)
(*                                                                         *)
(* The unit is the word of four bytes: sizes, offsets and positions count  *)
(* words, and a file is a sequence of words as a little-endian reader sees *)
(* them.  A word that is stored the other way round is the negation of its *)
(* value, so that reading it in the wrong order twice gives it back, zero  *)
(* is itself, and a negative count is more than any file has.  Words of    *)
(* 2^31 and more are beyond TLC; the few that occur have names below.  A   *)
(* name of 16 bytes is a word and three zeros.                             *)
(* The high word of a 64-bit value is taken to be zero.                    *)
(***************************************************************************)
EXTENDS Selection

CONSTANTS
  Files   \* the files to parse: [words, length], cut off after length words

ASSUME FilesAssumption ==
  \A f \in Files : f.words \in Seq(Int) /\ f.length \in 0..Len(f.words)

VARIABLES
  phase,   \* where MachO::detect, parse and parseHeader are, see Phases
  whole,   \* history: the words of the file before it was cut off
  file,    \* the words of the file
  pos,     \* position of the reader
  order,   \* byte order of the reader, "little" or "big"
  archs,   \* parse: offsets of the binary objects that are still to parse
  left,    \* parseHeader: load commands that are still to read
  object,  \* parseHeader: the binary object under construction
  objects  \* MachO::objects_

parserVars == <<phase, whole, file, pos, order, archs, left, object, objects>>

Phases == {"detecting", "archs", "header", "commands", "symbols", "dynsymbols", "filling", "failed", "parsed"}

-----------------------------------------------------------------------------
(***************************************************************************)
(* Words with a meaning                                                    *)
(***************************************************************************)
High == 1073741824   \* 2^30, stands for the bit LC_REQ_DYLD, 0x80000000

FAT_MAGIC == High + 1001         \* 0xCAFEBABE
MH_MAGIC == High + 1002          \* 0xFEEDFACE
MH_MAGIC_64 == High + 1003       \* 0xFEEDFACF
BIG_MAGIC == High + 1004         \* 0xECAFDEEF, which no file begins with
BIG_MAGIC_64 == High + 1005      \* 0xFCAFDEEF, which no file begins with

FileTypes == {1, 2, 4, 5, 6, 7, 8}

\* Names of segments and sections.
TEXT_SEGMENT == 101
Names == [text |-> 111, stubs |-> 112, symbol_stub |-> 113, cstring |-> 114, methname |-> 115]

\* Types of load commands, in the groups in which parseHeader treats them.
Obsolete == {3, 6, 7, 8, 9, 10, 16, 22, 23}
Segment == {1, 25}
DyldInfo == {34, High + 34}
Symtab == 2
Dysymtab == 11
Dylib == {12, 13, High + 24, High + 31}
Path == {14, 15, 39, High + 28}        \* LC_LOAD_DYLINKER and the like, LC_RPATH
Uuid == 27
VersionMin == {36, 37, 47, 48}         \* macOS, iOS, watchOS, tvOS
SourceVersion == 42
Main == High + 40
FunctionStarts == 38
CodeSignature == 29
LinkEdit == {FunctionStarts, 43, 30, CodeSignature, 46, High + 51, High + 52}
DataInCode == 41
Thread == {4, 5}
Skipped == {18, 19, 20, 21, 17, 26, 33, 44, 45, 49, 50}

\* The section that holds the versions of such a command.
VersionSection ==
  [t \in VersionMin |->
     CASE t = 36 -> "LC_VERSION_MIN_MACOSX"
       [] t = 37 -> "LC_VERSION_MIN_IPHONEOS"
       [] t = 47 -> "LC_VERSION_MIN_WATCHOS"
       [] t = 48 -> "LC_VERSION_MIN_TVOS"]

-----------------------------------------------------------------------------
(***************************************************************************)
(* The Reader                                                              *)
(***************************************************************************)

\* Reader::getUInt32 n words further on, if the file has it.
Has(n) == n >= 0 /\ pos + n =< Len(file)
Word(n) == IF order = "big" THEN -file[pos + n + 1] ELSE file[pos + n + 1]

Least(a, b) == IF a < b THEN a ELSE b

\* QIODevice::read(n): as much as there is; a negative count in 32 bits without
\* a sign is more than there can be, and behind the end there is nothing.
After(p, n) == IF n < 0 THEN Len(file) ELSE Least(p + n, Len(file))
Words(p, n) == IF p < 0 THEN <<>> ELSE SubSeq(file, p + 1, After(p, n))

-----------------------------------------------------------------------------
NoObject == [base |-> 0, bits |-> 32, sections |-> <<>>, symoff |-> 0, symnum |-> 0,
             indirsymoff |-> 0, indirsymnum |-> 0, symbols |-> <<>>, dynsymbols |-> <<>>]

SectionOf(type, address, size, offset) ==
  [type |-> type, address |-> address, size |-> size, offset |-> offset, data |-> <<>>]

\* Sections, the object under construction, and one that is parsed.
Platforms == {VersionSection[t] : t \in VersionMin}
SectionTypes ==
  {"TEXT", "SYMBOL_STUBS", "CSTRING", "STRING", "SYMBOLS", "DYN_SYMBOLS", "FUNC_STARTS", "CODE_SIG"} \cup Platforms
SectionRecords == [type : SectionTypes, address : Int, size : Int, offset : Int, data : Seq(Int)]
Opened == [base : Int, bits : {32, 64}, sections : Seq(SectionRecords), symoff : Int, symnum : Int,
           indirsymoff : Int, indirsymnum : Int, symbols : Seq([index : Int, value : Int]),
           dynsymbols : Seq(Int)]
Parsed == [sections : Seq(SectionRecords), symbols : Seq([value : Int, name : Int]),
           dynsymbols : Seq([stub : Seq(Int), name : Int])]

\* The reader never leaves the file, and below a header there is an object.
ParserTypeOK ==
  /\ phase \in Phases
  /\ whole \in Seq(Int) /\ file \in Seq(Int)
  /\ pos \in 0..Len(file) /\ left \in Int
  /\ order \in {"little", "big"}
  /\ archs \in Seq(Int)
  /\ phase \in {"commands", "symbols", "dynsymbols", "filling"} => archs # <<>>
  /\ object \in Opened
  /\ objects \in Seq(Parsed)

ParserInit ==
  /\ phase = "detecting"
  /\ \E f \in Files : whole = f.words /\ file = SubSeq(f.words, 1, f.length)
  /\ pos = 0
  /\ order = "little"
  /\ archs = <<>>
  /\ left = 0
  /\ object = NoObject
  /\ objects = <<>>

Fail ==
  /\ phase' = "failed"
  /\ UNCHANGED <<whole, file, pos, order, archs, left, object, objects>>

(***************************************************************************)
(* MachO::detect, and MachO::parse up to its objects                       *)
(***************************************************************************)
Detected == file[1] \in {MH_MAGIC, MH_MAGIC_64, BIG_MAGIC, BIG_MAGIC_64, FAT_MAGIC, -FAT_MAGIC}

DetectFails == phase = "detecting" /\ (file # <<>> => ~Detected) /\ Fail

\* A thin file is one object at its beginning.
DetectThin ==
  /\ phase = "detecting"
  /\ file # <<>> /\ Detected /\ file[1] \notin {FAT_MAGIC, -FAT_MAGIC}
  /\ phase' = "header"
  /\ archs' = <<0>>
  /\ pos' = 1
  /\ UNCHANGED <<whole, file, order, left, object, objects>>

DetectFat ==
  /\ phase = "detecting"
  /\ file # <<>> /\ file[1] \in {FAT_MAGIC, -FAT_MAGIC}
  /\ phase' = "archs"
  /\ pos' = 1
  /\ order' = "big"
  /\ UNCHANGED <<whole, file, archs, left, object, objects>>

\* The header of a fat file: of five words for each object the third is used.
ReadArchs ==
  /\ phase = "archs"
  /\ Has(1) /\ Has(1 + 5 * Word(0))
  /\ phase' = "header"
  /\ archs' = [i \in 1..Word(0) |-> Word(5 * i - 2)]
  /\ pos' = pos + 1 + 5 * Word(0)
  /\ UNCHANGED <<whole, file, order, left, object, objects>>

ReadArchsFails == phase = "archs" /\ (Has(1) => ~Has(1 + 5 * Word(0))) /\ Fail

(***************************************************************************)
(* MachO::parseHeader: the header                                          *)
(***************************************************************************)

\* A word of the object that begins at b, in the byte order of its magic.
HeaderWord(b, n) == IF file[b + 1] \in {BIG_MAGIC, BIG_MAGIC_64} THEN -file[b + n + 1] ELSE file[b + n + 1]
Is64(b) == file[b + 1] \in {MH_MAGIC_64, BIG_MAGIC_64}

\* The seven words that are checked (the eighth of a 64-bit header is not), and
\* a file type that is known.
HeaderFails(b) ==
  b >= 0 /\ b + 7 =< Len(file) => HeaderWord(b, 3) \notin FileTypes

\* Any other magic than the four is taken for that of a 32-bit object.
ParseHeader ==
  LET b == Head(archs) IN
  /\ phase = "header" /\ archs # <<>>
  /\ ~HeaderFails(b)
  /\ phase' = "commands"
  /\ order' = IF file[b + 1] \in {BIG_MAGIC, BIG_MAGIC_64} THEN "big" ELSE "little"
  /\ pos' = After(b, IF Is64(b) THEN 8 ELSE 7)
  /\ left' = HeaderWord(b, 4)
  /\ object' = [NoObject EXCEPT !.base = b, !.bits = IF Is64(b) THEN 64 ELSE 32]
  /\ UNCHANGED <<whole, file, archs, objects>>

ParseHeaderFails == phase = "header" /\ archs # <<>> /\ HeaderFails(Head(archs)) /\ Fail

ParseDone ==
  /\ phase = "header" /\ archs = <<>>
  /\ phase' = "parsed"
  /\ UNCHANGED <<whole, file, pos, order, archs, left, object, objects>>

(***************************************************************************)
(* MachO::parseHeader: the load commands                                   *)
(***************************************************************************)
Type == Word(0)
CommandSize == Word(1)

\* Words after type and size that are read one by one, each with a check.
Checked(t) ==
  CASE t \in DyldInfo -> 10
    [] t = Dysymtab -> 18
    [] t \in {Symtab, Main} \cup Dylib -> 4
    [] t \in VersionMin \cup LinkEdit \cup Thread \cup {SourceVersion, DataInCode} -> 2
    [] t \in Path -> 1
    [] OTHER -> 0

\* Words that are read after those, as far as the file has them.
Unchecked(t) ==
  CASE t \in Dylib \cup Path -> CommandSize - Word(2)
    [] t = Uuid -> 4
    [] t \in Thread -> (Word(2) * Word(3)) \div 4
    [] t \in Skipped -> CommandSize
    [] OTHER -> 0

AtCommand == phase = "commands" /\ left # 0

\* The reader is past the command whose words were found at pos.
TakeCommand(n) ==
  /\ left' = left - 1
  /\ pos' = n
  /\ UNCHANGED <<phase, whole, file, order, archs, objects>>

\* The command ends before its checked words do, or is obsolete.
CommandFails ==
  /\ AtCommand
  /\ Has(2) /\ Type \notin Obsolete /\ Type \notin Segment => ~Has(2 + Checked(Type))
  /\ Has(2) => Type \notin Segment
  /\ Fail

\* Commands of which nothing is kept, and those nobody knows: of these only
\* type and size are read.
PassCommand ==
  /\ AtCommand
  /\ Has(2) /\ Type \notin Obsolete \cup Segment \cup VersionMin \cup LinkEdit \cup {Symtab, Dysymtab}
  /\ Has(2 + Checked(Type))
  /\ TakeCommand(After(pos + 2 + Checked(Type), Unchecked(Type)))
  /\ UNCHANGED object

Add(s) == object' = [object EXCEPT !.sections = Append(@, s)]

\* Mutant: the string table is at its offset in the file, not in the object.
LoadSymtabUnbased ==
  /\ AtCommand
  /\ Has(2) /\ Type = Symtab /\ Has(2 + Checked(Type))
  /\ object' = [object EXCEPT
       !.symoff = Word(2), !.symnum = Word(3),
       !.sections = Append(@, SectionOf("STRING", Word(4), Word(5), Word(4)))]
  /\ TakeCommand(pos + 2 + Checked(Type))

LoadSymtab ==
  /\ AtCommand
  /\ Has(2) /\ Type = Symtab /\ Has(2 + Checked(Type))
  /\ object' = [object EXCEPT
       !.symoff = Word(2), !.symnum = Word(3),
       !.sections = Append(@, SectionOf("STRING", Word(4), Word(5), object.base + Word(4)))]
  /\ TakeCommand(pos + 2 + Checked(Type))

LoadDysymtab ==
  /\ AtCommand
  /\ Has(2) /\ Type = Dysymtab /\ Has(2 + Checked(Type))
  /\ object' = [object EXCEPT !.indirsymoff = Word(14), !.indirsymnum = Word(15)]
  /\ TakeCommand(pos + 2 + Checked(Type))

\* The two versions are a section of their own, at the position of the reader.
LoadVersionMin ==
  /\ AtCommand
  /\ Has(2) /\ Type \in VersionMin /\ Has(2 + Checked(Type))
  /\ Add(SectionOf(VersionSection[Type], pos + 2, 2, pos + 2))
  /\ TakeCommand(pos + 2 + Checked(Type))

LoadLinkEdit ==
  /\ AtCommand
  /\ Has(2) /\ Type \in LinkEdit /\ Has(2 + Checked(Type))
  /\ CASE Type = FunctionStarts -> Add(SectionOf("FUNC_STARTS", Word(2), Word(3), object.base + Word(2)))
       [] Type = CodeSignature -> Add(SectionOf("CODE_SIG", Word(2), Word(3), object.base + Word(2)))
       [] OTHER -> UNCHANGED object
  /\ TakeCommand(pos + 2 + Checked(Type))

-----------------------------------------------------------------------------
(***************************************************************************)
(* LC_SEGMENT and LC_SEGMENT_64, both read in the width of the object      *)
(***************************************************************************)
SegmentWords == IF object.bits = 64 THEN 18 ELSE 14
SectionWords == IF object.bits = 64 THEN 20 ELSE 17
SectionChecked == IF object.bits = 64 THEN 17 ELSE 15

SectionCount == Word(SegmentWords - 2)

\* Section j of the segment, counted from 0: where it begins, and its fields.
At(j) == SegmentWords + j * SectionWords
FieldsOf(j) ==
  [address |-> Word(At(j) + 8),
   size |-> Word(At(j) + IF object.bits = 64 THEN 10 ELSE 9),
   offset |-> Word(At(j) + IF object.bits = 64 THEN 12 ELSE 10)]

\* Names are bytes: they do not follow the byte order.
IsNamed(n, name) == Words(pos + n, 4) = <<name, 0, 0, 0>>

KindOf(j) ==
  CASE IsNamed(At(j), Names.text) -> "TEXT"
    [] IsNamed(At(j), Names.stubs) \/ IsNamed(At(j), Names.symbol_stub) -> "SYMBOL_STUBS"
    [] IsNamed(At(j), Names.cstring) \/ IsNamed(At(j), Names.methname) -> "CSTRING"
    [] OTHER -> "none"

\* Mutant: the segment is that of the command, not that of the section.
IsNeededBySegment(j) == IsNamed(2, TEXT_SEGMENT) /\ KindOf(j) # "none"

IsNeeded(j) == IsNamed(At(j) + 4, TEXT_SEGMENT) /\ KindOf(j) # "none"

\* The reserved words at the end of a section are not checked.
SegmentIsWhole ==
  /\ Has(SegmentWords)
  /\ SectionCount # 0 => Has(At(SectionCount - 1) + SectionChecked)

LoadSegment ==
  LET indices == Selected([j \in 1..SectionCount |-> j - 1], {j \in 1..SectionCount : IsNeeded(j - 1)})
      needed(i) == LET f == FieldsOf(indices[i]) IN
        SectionOf(KindOf(indices[i]), f.address, f.size, object.base + f.offset)
  IN
  /\ AtCommand
  /\ Has(2) /\ Type \in Segment /\ SegmentIsWhole
  /\ object' = [object EXCEPT !.sections = @ \o [i \in DOMAIN indices |-> needed(i)]]
  /\ TakeCommand(After(pos, At(SectionCount)))

SegmentFails == AtCommand /\ Has(2) /\ Type \in Segment /\ ~SegmentIsWhole /\ Fail

CommandsDone ==
  /\ phase = "commands" /\ left = 0
  /\ phase' = "symbols"
  /\ UNCHANGED <<whole, file, pos, order, archs, left, object, objects>>

-----------------------------------------------------------------------------
(***************************************************************************)
(* MachO::parseHeader: symbols, and the data of the sections               *)
(***************************************************************************)

\* An entry of the symbol table: index into the string table, three fields in
\* one word, and a value.
EntryWords == IF object.bits = 64 THEN 4 ELSE 3

\* The tables are read at their offset in the file, not in the object.
SymbolsFit ==
  /\ object.symnum > 0 /\ object.symoff >= 0
  /\ object.symoff + object.symnum * EntryWords =< Len(file)
DynSymbolsFit ==
  /\ object.indirsymnum > 0 /\ object.indirsymoff >= 0
  /\ object.indirsymoff + object.indirsymnum =< Len(file)

\* Mutant: the reader stays where the load commands end.
EntryInPlace(k) == [index |-> file[pos + (k - 1) * EntryWords + 1], value |-> file[pos + (k - 1) * EntryWords + 3]]

Entry(k) ==
  LET at == object.symoff + (k - 1) * EntryWords
      word(n) == IF order = "big" THEN -file[at + n + 1] ELSE file[at + n + 1]
  IN  [index |-> word(0), value |-> word(2)]

DynEntry(h) == IF order = "big" THEN -file[object.indirsymoff + h] ELSE file[object.indirsymoff + h]

ReadSymbols ==
  LET n == object.symnum
      size == n * EntryWords
  IN
  /\ phase = "symbols" /\ SymbolsFit
  /\ phase' = "dynsymbols"
  /\ pos' = object.symoff + size
  /\ object' = [object EXCEPT
       !.symbols = [k \in 1..n |-> Entry(k)],
       !.sections = Append(@, SectionOf("SYMBOLS", object.symoff, size, object.base + object.symoff))]
  /\ UNCHANGED <<whole, file, order, archs, left, objects>>

ReadDynSymbols ==
  LET n == object.indirsymnum IN
  /\ phase = "dynsymbols" /\ DynSymbolsFit
  /\ phase' = "filling"
  /\ pos' = object.indirsymoff + n
  /\ object' = [object EXCEPT
       !.dynsymbols = [h \in 1..n |-> DynEntry(h)],
       !.sections = Append(@, SectionOf("DYN_SYMBOLS", object.indirsymoff, n, object.base + object.indirsymoff))]
  /\ UNCHANGED <<whole, file, order, archs, left, objects>>

NoSymbols ==
  /\ \/ phase = "symbols" /\ object.symnum = 0 /\ phase' = "dynsymbols"
     \/ phase = "dynsymbols" /\ object.indirsymnum = 0 /\ phase' = "filling"
  /\ UNCHANGED <<whole, file, pos, order, archs, left, object, objects>>

SymbolsFail ==
  /\ \/ phase = "symbols" /\ object.symnum # 0 /\ ~SymbolsFit
     \/ phase = "dynsymbols" /\ object.indirsymnum # 0 /\ ~DynSymbolsFit
  /\ Fail

\* BinaryObject::section: of the sections of a type, if there is any, the first.
Lowest(S) == CHOOSE x \in S : \A y \in S : x =< y
Having(sections, t) == {i \in DOMAIN sections : sections[i].type = t}
FirstOf(sections, t) == sections[Lowest(Having(sections, t))]

\* A symbol gets its name from the string table; no table or no such index
\* leaves it without.
Unnamed == -1
Named(symbols, sections) ==
  LET strings == IF Having(sections, "STRING") = {} THEN <<>> ELSE FirstOf(sections, "STRING").data
      name(i) == IF i \in 0..Len(strings) - 1 THEN strings[i + 1] ELSE Unnamed
  IN  [k \in DOMAIN symbols |-> [value |-> symbols[k].value, name |-> name(symbols[k].index)]]

\* An entry of the dynamic symbol table stands for the stub of its own place
\* (six bytes each, from the address of the stubs) and the symbol it points to.
Stubbed(dynsymbols, symbols, sections) ==
  LET known(h) == Having(sections, "SYMBOL_STUBS") # {} /\ dynsymbols[h] \in 0..Len(symbols) - 1
  IN  [h \in DOMAIN dynsymbols |->
         IF known(h)
         THEN [stub |-> <<FirstOf(sections, "SYMBOL_STUBS").address, h - 1>>, name |-> symbols[dynsymbols[h] + 1].name]
         ELSE [stub |-> <<>>, name |-> Unnamed]]

\* Each section gets its data, as far as the file has it, then the symbols
\* their names.  Without symbols the dynamic table is not kept.
FinishObject ==
  LET filled == [i \in DOMAIN object.sections |->
                   LET s == object.sections[i] IN [s EXCEPT !.data = Words(s.offset, s.size)]]
      symbols == Named(object.symbols, filled)
  IN
  /\ phase = "filling"
  /\ phase' = "header"
  /\ archs' = Tail(archs)
  /\ objects' = Append(objects,
       [sections |-> filled, symbols |-> symbols,
        dynsymbols |-> IF symbols = <<>> THEN <<>> ELSE Stubbed(object.dynsymbols, symbols, filled)])
  /\ object' = NoObject
  /\ UNCHANGED <<whole, file, pos, order, left>>

-----------------------------------------------------------------------------
Detect == DetectFails \/ DetectThin \/ DetectFat

ParserNext ==
  \/ Detect
  \/ ReadArchs \/ ReadArchsFails
  \/ ParseHeader \/ ParseHeaderFails \/ ParseDone
  \/ CommandFails \/ SegmentFails
  \/ PassCommand \/ LoadSegment \/ LoadSymtab \/ LoadDysymtab \/ LoadVersionMin \/ LoadLinkEdit
  \/ CommandsDone
  \/ ReadSymbols \/ ReadDynSymbols \/ NoSymbols \/ SymbolsFail
  \/ FinishObject

-----------------------------------------------------------------------------
(***************************************************************************)
(* What a file f says, by the definition of the format                     *)
(***************************************************************************)
Bases(f) == IF f[1] = -FAT_MAGIC THEN [i \in 1..-f[2] |-> -f[5 * i]] ELSE <<0>>

IsMachO(f, b) == f[b + 1] \in {MH_MAGIC, MH_MAGIC_64}
IsWide(f, b) == f[b + 1] = MH_MAGIC_64
HeadWords(f, b) == IF IsWide(f, b) THEN 8 ELSE 7
Commands(f, b) == 1..f[b + 5]

\* Where the commands of object b begin: one after the other, each with its size.
Following(f, p) == IF p + 2 \in DOMAIN f THEN p + f[p + 2] ELSE p
Starts(f, b) ==
  LET start[i \in Commands(f, b)] == IF i = 1 THEN b + HeadWords(f, b) ELSE Following(f, start[i - 1])
  IN  start

\* The words of a segment command in an object of that width, and of each section.
SegmentHead(f, b) == IF IsWide(f, b) THEN 18 ELSE 14
SectionWidth(f, b) == IF IsWide(f, b) THEN 20 ELSE 17

\* The size that a command has by the format.  Names begin behind the rest of a
\* command, and the state of a thread has its count.
SizedAs(f, b, p) ==
  LET t == f[p + 1]
      size == f[p + 2]
      w(n) == f[p + n + 1]
  IN
  \/ /\ t \in Segment /\ size >= SegmentHead(f, b)
     /\ size = SegmentHead(f, b) + w(SegmentHead(f, b) - 2) * SectionWidth(f, b)
  \/ t \in DyldInfo /\ size = 12
  \/ t = Dysymtab /\ size = 20
  \/ t \in {Symtab, Main, Uuid} /\ size = 6
  \/ t \in LinkEdit \cup VersionMin \cup {SourceVersion, DataInCode} /\ size = 4
  \/ t \in Dylib /\ w(2) = 6 /\ size >= 6
  \/ t \in Path /\ w(2) = 3 /\ size >= 4
  \/ t \in Thread /\ w(3) >= 0 /\ size = 4 + w(3)

\* Commands that parseHeader reads in full: not those it skips or does not know,
\* and threads only with the flavor that makes its product the right size.
ReadInFull(f, b, p) ==
  /\ p + 4 =< Len(f) /\ p + f[p + 2] =< Len(f)
  /\ SizedAs(f, b, p)
  /\ f[p + 1] \in Thread => f[p + 3] = 4

\* An object with such commands, and not two of those that a linker emits once.
Understood(f, b) ==
  /\ b >= 0 /\ b + 7 =< Len(f) /\ IsMachO(f, b) /\ f[b + 5] >= 0
  /\ \A i \in Commands(f, b) : ReadInFull(f, b, Starts(f, b)[i])
  /\ \A i, j \in Commands(f, b) :
       LET t(k) == f[Starts(f, b)[k] + 1] IN t(i) = t(j) /\ t(i) \in {Symtab, Dysymtab} => i = j

\* The sections a command brings with it, as [type, size, offset].
Listed(type, size, offset) == [type |-> type, size |-> size, offset |-> offset]

\* What the sections of the text segment are by their names.
Kinds ==
  [n \in {Names.text, Names.stubs, Names.symbol_stub, Names.cstring, Names.methname} |->
     CASE n = Names.text -> "TEXT"
       [] n \in {Names.stubs, Names.symbol_stub} -> "SYMBOL_STUBS"
       [] OTHER -> "CSTRING"]

NameAt(f, p, name) == SubSeq(f, p + 1, p + 4) = <<name, 0, 0, 0>>

SectionsInSegment(f, b, p) ==
  LET at(j) == p + SegmentHead(f, b) + (j - 1) * SectionWidth(f, b)
      count == f[p + SegmentHead(f, b) - 1]
      kept == {x \in (1..count) \X DOMAIN Kinds : NameAt(f, at(x[1]), x[2]) /\ NameAt(f, at(x[1]) + 4, TEXT_SEGMENT)}
  IN  {Listed(Kinds[x[2]],
              f[at(x[1]) + (IF IsWide(f, b) THEN 11 ELSE 10)],
              b + f[at(x[1]) + (IF IsWide(f, b) THEN 13 ELSE 11)]) : x \in kept}

SectionsOf(f, b, p) ==
  LET t == f[p + 1]
      w(n) == f[p + n + 1]
  IN
  CASE t \in Segment -> SectionsInSegment(f, b, p)
    [] t \in VersionMin -> {Listed(VersionSection[t], 2, p + 2)}
    [] t = FunctionStarts -> {Listed("FUNC_STARTS", w(3), b + w(2))}
    [] t = CodeSignature -> {Listed("CODE_SIG", w(3), b + w(2))}
    [] t = Symtab ->
         {Listed("STRING", w(5), b + w(4))} \cup
         IF w(3) = 0 THEN {} ELSE {Listed("SYMBOLS", w(3) * (IF IsWide(f, b) THEN 4 ELSE 3), b + w(2))}
    [] t = Dysymtab -> IF w(15) = 0 THEN {} ELSE {Listed("DYN_SYMBOLS", w(15), b + w(14))}
    [] OTHER -> {}

AllSections(f, b) == UNION {SectionsOf(f, b, Starts(f, b)[i]) : i \in Commands(f, b)}

-----------------------------------------------------------------------------
(***************************************************************************)
(* Properties                                                              *)
(***************************************************************************)
Done == phase = "parsed"
UnderstoodFile == whole # <<>> /\ \A i \in DOMAIN Bases(whole) : Understood(whole, Bases(whole)[i])

InStepAt(b) ==
  phase = "commands" /\ left > 0 =>
    pos = Least(Starts(whole, b)[whole[b + 5] - left + 1], Len(file))

\* A file of such commands that is accepted shows every section it has and no
\* other, also when it is cut off: either all of its commands were there, or it
\* was refused.
Brief(s) == Listed(s.type, s.size, s.offset)
FindsAllSections ==
  Done /\ UnderstoodFile =>
    /\ Len(objects) = Len(Bases(whole))
    /\ \A i \in DOMAIN objects :
         {Brief(objects[i].sections[j]) : j \in DOMAIN objects[i].sections} = AllSections(whole, Bases(whole)[i])

\* The sections of all objects lie in the file without overlap, which is what
\* the write-back assumes of them (BinaryEdit), and each has all of its data.
SectionsApart ==
  LET all == {x \in (DOMAIN objects) \X (1..50) : x[2] \in DOMAIN objects[x[1]].sections}
      at(x) == objects[x[1]].sections[x[2]]
  IN
  Done /\ UnderstoodFile /\ file = whole =>
    /\ \A x \in all : Len(at(x).data) = at(x).size
    /\ \A x, y \in all :
         x # y => at(x).offset + at(x).size =< at(y).offset \/ at(y).offset + at(y).size =< at(x).offset

\* In a thin file with stubs and a string table, an entry of the dynamic table
\* has the name of the symbol it points to, looked up through the symbol table.
StubsAreNamed ==
  LET has(t) == \E i \in Commands(whole, 0) : whole[Starts(whole, 0)[i] + 1] = t
      the(t) == CHOOSE p \in {Starts(whole, 0)[i] : i \in Commands(whole, 0)} : whole[p + 1] = t
      w(t, n) == whole[the(t) + n + 1]
      symbolOf(h) == whole[w(Dysymtab, 14) + h]
      indexOf(k) == whole[w(Symtab, 2) + k * (IF IsWide(whole, 0) THEN 4 ELSE 3) + 1]
  IN
  /\ Done /\ UnderstoodFile /\ file = whole /\ Bases(whole) = <<0>>
  /\ has(Symtab) /\ has(Dysymtab)
  /\ w(Symtab, 4) >= 0 /\ w(Symtab, 4) + w(Symtab, 5) =< Len(whole)
  /\ \E s \in AllSections(whole, 0) : s.type = "SYMBOL_STUBS"
  => \A h \in 1..w(Dysymtab, 15) :
       /\ symbolOf(h) \in 0..w(Symtab, 3) - 1
       /\ indexOf(symbolOf(h)) \in 0..w(Symtab, 5) - 1
       => objects[1].dynsymbols[h].name = whole[w(Symtab, 4) + indexOf(symbolOf(h)) + 1]

-----------------------------------------------------------------------------
\* "Parse load commands sequentially. Each consists of the type, size and
\* data" (parseHeader): the reader is at a command whenever it reads one.
AlwaysInStep == phase = "commands" /\ IsMachO(whole, object.base) => InStepAt(object.base)
=============================================================================
