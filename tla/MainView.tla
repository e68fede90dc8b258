------------------------------ MODULE MainView ------------------------------
(***************************************************************************)
(* The text of the binary on show (BinaryWidget.cc): sections of code, of  *)
(* C strings, of SDK versions and of data shown as a hex dump, one each,   *)
(* as setup lays them out in lines and as the option "Show Machine Code"   *)
(* changes them in place.                                                  *)
(*                                                                         *)
(* A character stands for a column or a word: "@" an address, "b" a byte   *)
(* of machine code, "_" padding, "i" the instruction, "p" the name of a    *)
(* procedure, "s" a string, "v" a version, "d" data, "=" the title of a    *)
(* section, and LineEnd.                                                   *)
(***************************************************************************)
EXTENDS Integers, SequencesExt, FiniteSetsExt

CONSTANTS
  Code,            \* the bytes of each instruction
  CodeAddress,     \* Section::address of the code
  Symbols,         \* the addresses of the symbols
  StringData,      \* the bytes of the strings, 0 ends one
  StringAddress,   \* Section::address of the strings
  VersionsAddress, \* Section::address of the versions, an offset in the file
  DumpAddress,     \* Section::address of the data, an offset in the file
  Width,           \* characters of the column of machine code, in the code 24
  MaxLine          \* BOUND: characters of a line, see ToggleMachineCode

ASSUME ViewAssumption ==
  /\ Code \in Seq(Nat \ {0}) /\ Code # <<>>
  /\ StringData \in Seq(Nat)
  /\ {CodeAddress, StringAddress, VersionsAddress, DumpAddress, Width, MaxLine} \subseteq Nat
  /\ Symbols \subseteq Nat

VARIABLES
  lines,    \* the blocks of the document
  showCode, \* Context::showMachineCode_
  cursor    \* the line of the text cursor, counted from 1

viewVars == <<lines, showCode, cursor>>

LineEnd == "\n"
NoAddress == -1

\* The sections are numbered as listed above.
Sections == 1..4
NoSection == 0

Block(text, address, bytes, inText, section) ==
  [text |-> text, address |-> address, bytes |-> bytes, inText |-> inText, section |-> section]
Line(text, address) == Block(text, address, 0, FALSE, NoSection)

-----------------------------------------------------------------------------
(***************************************************************************)
(* CStringReader                                                           *)
(***************************************************************************)

\* next: a string ends at a zero or at the end of the data.  Empty ones are
\* passed over, but the offset stays where the first of them was.
StringsFrom[p \in 1..Len(StringData) + 2] ==
  LET begins == {q \in p..Len(StringData) : StringData[q] # 0} IN
  IF begins = {} THEN <<>>
  ELSE LET ends == {q \in Min(begins)..Len(StringData) : StringData[q] = 0}
           after == IF ends = {} THEN Len(StringData) + 1 ELSE Min(ends)
       IN <<[offset |-> p - 1, first |-> Min(begins)]>> \o StringsFrom[after + 1]

Strings == StringsFrom[1]

-----------------------------------------------------------------------------
(***************************************************************************)
(* setup                                                                   *)
(***************************************************************************)

Padded(n) == [i \in 1..(IF n < Width THEN Width ELSE n) |-> IF i =< n THEN "b" ELSE "_"]

\* The address of instruction i, counted from 1.
CodeAt[i \in DOMAIN Code] == IF i = 1 THEN CodeAddress ELSE CodeAt[i - 1] + Code[i - 1]

\* firstAddress, which is set for as long as it is 0: of code at address 0, as
\* object files have it, it is the address of the second instruction.
FirstAddress == CodeAt[IF CodeAddress = 0 /\ Len(Code) > 1 THEN 2 ELSE 1]

\* appendInstruction
Instruction(i, show) ==
  Block(<<"@">> \o (IF show THEN Padded(Code[i]) ELSE <<>>) \o <<"i">>, CodeAt[i],
        Code[i], show, NoSection)

\* The instructions, with the name of a procedure before its first one.
Empty == Line(<<>>, NoAddress)
Procedure(i) ==
  IF CodeAt[i] \in Symbols THEN <<Empty, Line(<<"p">>, NoAddress), Empty>> ELSE <<>>
Instructions(show) ==
  FlattenSeq([i \in DOMAIN Code |-> Procedure(i) \o <<Instruction(i, show)>>])

\* A section has a title, which sectionBlock finds, and ends in an empty line,
\* another title and an empty line.
Title(s) == Block(<<"=">>, NoAddress, 0, FALSE, s)
SectionEnd == <<Empty, Title(NoSection), Empty>>
Section(s, shown) == <<Title(s), Empty>> \o shown \o SectionEnd

\* setupDisassembledSections, setupStringSections, setupLoadCommandSections and
\* setupMiscSections; appendString is given an address of the section.  The code
\* begins in the line that an empty document has.
Layout == [show \in BOOLEAN |->
  <<Title(1)>> \o Instructions(show) \o SectionEnd \o
  Section(2, [i \in DOMAIN Strings |->
                        Line(<<"@", "s">>, StringAddress + Strings[i].offset)]) \o
  Section(3, [i \in 1..2 |-> Line(<<"@", "v">>, VersionsAddress + 4 * (i - 1))]) \o
  Section(4, <<Line(<<"@", "d">>, DumpAddress)>>)]

\* offsetBlock: of two lines with one address the last one stays.  Addresses in
\* memory and offsets in the file may be the same.
LinesAt(a) == {k \in DOMAIN lines : lines[k].address = a}
BlockOf(a) == Max(LinesAt(a))

\* toPlainText, and the line of a position in it, counted from 0.
Text ==
  FlattenSeq([k \in DOMAIN lines |->
                lines[k].text \o IF k = Len(lines) THEN <<>> ELSE <<LineEnd>>])
LineOf(pos) == LET text == Text IN 1 + Cardinality({q \in 1..pos : text[q] = LineEnd})

ViewInit ==
  /\ showCode \in BOOLEAN
  /\ lines = Layout[showCode]
  /\ cursor = BlockOf(FirstAddress)

-----------------------------------------------------------------------------

\* setup, also for "Reload UI": the cursor is put on firstAddress.
Setup ==
  /\ lines' = Layout[showCode]
  /\ cursor' = Max({k \in DOMAIN lines' : lines'[k].address = FirstAddress})
  /\ UNCHANGED showCode

\* Mutant: the column is taken out one character too late.
TurnedLate(line, show) ==
  IF line.bytes = 0 \/ line.inText = show THEN line
  ELSE IF show THEN [line EXCEPT !.text = <<@[1]>> \o Padded(line.bytes) \o Tail(@), !.inText = TRUE]
       ELSE [line EXCEPT !.text = SubSeq(@, 1, 2) \o SubSeq(@, Width + 3, Len(@)), !.inText = FALSE]
\* onShowMachineCodeChanged, for one line.  What is put in may be wider than
\* the column, what is taken out is as wide as the column.
Turned(line, show) ==
  IF line.bytes = 0 \/ line.inText = show THEN line
  ELSE IF show THEN [line EXCEPT !.text = <<@[1]>> \o Padded(line.bytes) \o Tail(@), !.inText = TRUE]
       ELSE [line EXCEPT !.text = <<@[1]>> \o SubSeq(@, Width + 2, Len(@)), !.inText = FALSE]

\* What is left of instructions wider than the column grows each time.
ToggleMachineCode ==
  LET turned == [k \in DOMAIN lines |-> Turned(lines[k], ~showCode)] IN
  /\ \A k \in DOMAIN turned : Len(turned[k].text) =< MaxLine
  /\ lines' = turned
  /\ showCode' = ~showCode
  /\ UNCHANGED cursor

\* onSymbolChosen, selectAddress: an address without a line is ignored.
SelectAddress(a) ==
  cursor' = IF LinesAt(a) = {} THEN cursor ELSE BlockOf(a)

\* selectSection
SelectSection(s) == cursor' = CHOOSE k \in DOMAIN lines : lines[k].section = s

\* selectPosition: a position behind the text is ignored.
SelectPosition(pos) ==
  cursor' = IF pos > Len(Text) THEN cursor ELSE LineOf(pos)

-----------------------------------------------------------------------------
(***************************************************************************)
(* Properties                                                              *)
(***************************************************************************)

\* Changing the lines in place leaves them as building them anew would, however
\* often it is done, where the bytes of an instruction fit into their column;
\* and every line keeps its address.
ToggleIsRebuild ==
  LET anew == Layout[showCode] IN
  \A k \in DOMAIN lines :
    /\ lines[k].address = anew[k].address
    /\ lines[k].bytes =< Width => lines[k].text = anew[k].text
=============================================================================
