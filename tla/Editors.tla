------------------------------- MODULE Editors -------------------------------
(***************************************************************************)
(* The editors of one section and the main view of it: HexEditor and its   *)
(* HexEdit, DisassemblyEditor, MacSdkVersionsEditor, and the context menu  *)
(* of BinaryWidget that opens them.  An editor is made once and kept; when *)
(* it is opened again, a time stamp tells whether the section was changed  *)
(* elsewhere in between.                                                   *)
(*                                                                         *)
(* Time stamps are compared, never ordered.  The stamp of an editor is     *)
(* "null", that of the section ("same"), or another one; "dirty" says that *)
(* its sectionModified and lastModified differ.  An edit stamps first the  *)
(* section and then the editor, in the same millisecond or not.  Two edits *)
(* of a user are never in the same millisecond.                            *)
(***************************************************************************)
EXTENDS Integers, SequencesExt, Selection

CONSTANTS
  Size,     \* bytes of a section of code
  RowSize,  \* bytes of a row of the hex editor, in the code 16
  Gap,      \* spaces before the characters of a row, in the code 3
  MinorMod, \* a minor version is read modulo this, in the code 16 of 256
  Keys,     \* BOUND: the digits that are typed
  MaxEdits, \* BOUND: the edits of the section
  Samples   \* BOUND: the bytes a section has at first

ASSUME EditorsAssumption ==
  Size \in Nat \ {0} /\ RowSize \in Nat \ {0} /\ Gap \in Nat
  /\ MinorMod \in 2..3 /\ Keys \subseteq 0..1 /\ MaxEdits \in Nat

VARIABLES
  kind,     \* "code", or "versions": two versions, of which only the minor is kept
  data,     \* Section::data_
  touched,  \* Section::isModified
  disasm,   \* Section::disasm_: the instructions found
  edits,    \* the edits of the section, bounded by MaxEdits
  open,     \* the editor on screen
  prior,    \* the data when it was opened
  hex,      \* HexEditor: its stamps, the digits it shows, <<>> before setup, and
            \* where the rows begin that were edited since they were dumped
  loading,  \* the dump HexEdit::decode waits for
  raced,    \* a row was edited during the last such wait
  code,     \* DisassemblyEditor: the stamps, the rows, the button to update, and
            \* whether the rows were made when nothing could be decoded
  versions, \* MacSdkVersionsEditor: the patcher's versions and the spin boxes
  main,     \* what BinaryWidget::setup showed
  declined  \* a reload was declined since

section == <<data, touched, disasm, edits>>
editors == <<hex, loading, raced, code, versions>>
vars == <<kind, section, open, prior, editors, main, declined>>

\* A byte has two digits, of two values here instead of sixteen.  The first byte
\* of an instruction tells its length; 0 begins none.
Byte == 0..3

\* An instruction is at position p, with all its bytes.
Decodes(d, p) == p \in DOMAIN d /\ d[p] # 0 /\ p + d[p] - 1 =< Len(d)

\* What cs_disasm finds: it goes from an instruction to the end of it and stops
\* at what it cannot decode.  It comes to the positions that every set has which
\* has the first one and the next of each.
Follows(d, S) == 1 \in S /\ \A p \in S : Decodes(d, p) => p + d[p] \in S
Starts(d) == {p \in DOMAIN d : \A S \in SUBSET (1..Len(d) + 1) : Follows(d, S) => p \in S}
Instructions(d) ==
  {[at |-> p, bytes |-> SubSeq(d, p, p + d[p] - 1)] : p \in {q \in Starts(d) : Decodes(d, q)}}

Decodable(d) == Instructions(d) # {}

\* decodeMacSdkVersion, and a spin box that takes 1..100.
Decoded(v) == v % MinorMod
SpinRange == 1..MinorMod
InSpin(v) == IF v < 1 THEN 1 ELSE v
Parsed(d) == [i \in DOMAIN d |-> Decoded(d[i])]

NotLoading == [state |-> "no", dump |-> <<>>]

\* What BinaryWidget::setup shows of the section.
Shown(d, rows) == IF kind = "code" THEN rows ELSE Parsed(d)

Init ==
  /\ data \in Samples
  /\ \/ kind = "code" /\ data \in [1..Size -> Byte] /\ Decodable(data)
     \/ kind = "versions" /\ data \in [1..2 -> Byte]
  /\ \* A project may have restored regions before anything is shown.
     touched \in BOOLEAN
  /\ disasm = IF kind = "code" THEN Instructions(data) ELSE {}
  /\ open = "none" /\ prior = <<>>
  /\ hex = [stamp |-> "null", dirty |-> FALSE, text |-> <<>>, edited |-> {}]
  /\ loading = NotLoading
  /\ raced = FALSE
  /\ code = [stamp |-> "null", dirty |-> FALSE, rows |-> {}, button |-> FALSE, stale |-> FALSE]
  /\ versions = [stamp |-> "null", read |-> <<>>, spin |-> <<>>]
  /\ main = Shown(data, disasm)
  /\ declined = FALSE
  /\ edits = 0

-----------------------------------------------------------------------------
(***************************************************************************)
(* Shared by the editors                                                   *)
(***************************************************************************)

\* setSubData at position p: the stamps of all editors are now other ones.
SetSubData(p, bytes) ==
  /\ data' = [i \in DOMAIN data |-> IF i \in p..(p + Len(bytes) - 1) THEN bytes[i - p + 1] ELSE data[i]]
  /\ touched' = TRUE
  /\ edits < MaxEdits /\ edits' = edits + 1
Aged(e) == [e EXCEPT !.stamp = IF @ = "null" THEN "null" ELSE "other"]
Stamps == {"same", "other"}

\* updateDisassembly: the old one stays if nothing can be decoded, and a
\* section without one is left alone.
UpdateDisassembly(d) ==
  disasm' = IF kind = "code" /\ Decodable(d) THEN Instructions(d) ELSE disasm

\* Mutant: an editor that has not yet taken a stamp counts as up to date.
OutdatedByStamp(e) == touched /\ e.stamp = "other"
\* showEvent of an editor that was shown before.
Outdated(e) == touched /\ e.stamp # "same"

\* The context menu: the editor is on screen, with a copy of what was before.
Open(name) == open = "none" /\ open' = name /\ prior' = data
WhileOpen(name) == open = name /\ UNCHANGED <<kind, open, prior, main, declined>>

\* Mutant: a reload shows the section as it was when the editor was opened.
CheckModifiedLate(changed) ==
  \/ ~changed /\ UNCHANGED <<main, declined>>
  \/ changed /\ main' = Shown(prior, disasm) /\ declined' = FALSE
  \/ changed /\ declined' = TRUE /\ UNCHANGED main

\* checkModified, and the answer to "Reload UI?".
CheckModified(changed) ==
  \/ ~changed /\ UNCHANGED <<main, declined>>
  \/ changed /\ main' = Shown(data, disasm') /\ declined' = FALSE
  \/ changed /\ declined' = TRUE /\ UNCHANGED main

\* Mutant: done() looks at the stamps the wrong way round.
DoneIfSame(e) ==
  IF touched /\ ~e.dirty THEN UpdateDisassembly(data) ELSE UNCHANGED disasm
\* done() of the editors of bytes and instructions; both stamps are equal after it.
Done(e) ==
  IF touched /\ e.dirty THEN UpdateDisassembly(data) ELSE UNCHANGED disasm

Close(changed) ==
  /\ open' = "none"
  /\ prior' = <<>>
  /\ CheckModified(changed)
  /\ UNCHANGED <<kind, data, touched, edits>>

\* An unchanged list of regions means unchanged bytes (BinaryEdit); a changed
\* list may still describe the same bytes.
MayHaveChanged == IF data # prior THEN {TRUE} ELSE {touched, FALSE}

-----------------------------------------------------------------------------
(***************************************************************************)
(* The rows of the hex editor                                              *)
(***************************************************************************)

\* A place in a row has a digit or, where the user deleted it, none.
Blank == 2
Place == 0..2

\* addrDataString: the digits of the bytes.
Dump(d) == [i \in 1..2 * Len(d) |-> IF i % 2 = 1 THEN d[(i + 1) \div 2] \div 2 ELSE d[i \div 2] % 2]

\* The digits of a text without the blanks, and what hexToData makes of them: a
\* digit left over is a byte.
DigitsAt(text) == {i \in DOMAIN text : text[i] # Blank}
Digits(text) == Selected(text, DigitsAt(text))
HexToData(digits) ==
  [k \in 1..(Len(digits) + 1) \div 2 |->
     IF 2 * k > Len(digits) THEN digits[2 * k - 1] ELSE 2 * digits[2 * k - 1] + digits[2 * k]]

\* The row that begins at position p.
Rows == {p \in DOMAIN data : (p - 1) % RowSize = 0}
RowLength(p) == IF p + RowSize - 1 < Len(data) THEN RowSize ELSE Len(data) - p + 1
RowText(p) == SubSeq(hex.text, 2 * p - 1, 2 * (p + RowLength(p) - 1))

\* The bytes of a row that are spaces, "20", here the digits 1 and 0, and those at
\* its end.
Pairs(row) == 1..Len(row) \div 2
IsSpace(row, k) == row[2 * k - 1] = 1 /\ row[2 * k] = 0
IsEmpty(row, k) == row[2 * k - 1] = Blank
EndSpaces(row) ==
  {k \in Pairs(row) : IsSpace(row, k) /\ \A l \in Pairs(row) : l > k => IsSpace(row, l) \/ IsEmpty(row, l)}

\* cursorBlock, and the dialog of editAtCursor: the digits it offers, by twos; a digit
\* left over is left out.  A dump has a dot for a space, an edited row the space;
\* the line is trimmed, so if it ends in more spaces than there are before the
\* characters, or has nothing else, the last digits count as characters.  How
\* many they are depends on the layout.
Offered(row, edited) ==
  LET pairs == Len(Digits(row)) \div 2
      cut == edited /\ (\/ Cardinality(EndSpaces(row)) > Gap
                        \/ \A k \in Pairs(row) : IsSpace(row, k) \/ IsEmpty(row, k))
  IN  {SubSeq(Digits(row), 1, 2 * n) : n \in IF cut THEN 0..pairs ELSE {pairs}}

\* What a user may leave of two digits.  Blanks are left out of the text, so that a
\* digit alone is the first of the two.
Left(high, low) ==
  (({high} \union Keys) \X ({low} \union Keys))
    \union (({high, low} \union Keys) \X {Blank}) \union {<<Blank, Blank>>}
Typed(length, offered) ==
  {row \in [1..2 * length -> Place] :
     \A k \in 1..length :
       <<row[2 * k - 1], row[2 * k]>> \in
          IF 2 * k =< Len(offered) THEN Left(offered[2 * k - 1], offered[2 * k]) ELSE {<<Blank, Blank>>}}

\* The line that is made of it is the one that was there: no dot becomes a space,
\* and no space at the end was trimmed.
SameLine(typed, row, edited) ==
  /\ typed = row
  /\ IF edited THEN EndSpaces(row) = {} /\ DigitsAt(row) # {}
     ELSE \A k \in Pairs(row) : ~IsSpace(row, k)

-----------------------------------------------------------------------------
(***************************************************************************)
(* The hex editor                                                          *)
(***************************************************************************)

\* The first time its set-up is delayed; later it starts inside showEvent.
OpenHexFirst ==
  /\ hex.text = <<>> /\ Open("hex")
  /\ loading' = [state |-> "delayed", dump |-> <<>>]
  /\ UNCHANGED <<kind, section, hex, raced, code, versions, main, declined>>

OpenHexAgain ==
  /\ hex.text # <<>> /\ Open("hex")
  /\ IF Outdated(hex)
     THEN /\ hex' = [hex EXCEPT !.stamp = "same", !.dirty = TRUE]
          /\ UpdateDisassembly(data)
          /\ loading' = [state |-> "waiting", dump |-> data]
          /\ raced' = FALSE
     ELSE UNCHANGED <<hex, disasm, loading, raced>>
  /\ UNCHANGED <<kind, data, touched, edits, code, versions, main, declined>>

\* decode: the tasks of the encoder get copies of the data, ...
StartDecode ==
  /\ WhileOpen("hex") /\ loading.state = "delayed"
  /\ loading' = [state |-> "waiting", dump |-> data]
  /\ UNCHANGED <<section, hex, raced, code, versions>>

\* ... and their dump becomes the text when the event loop it waits in ends.
FinishDecode ==
  /\ WhileOpen("hex") /\ loading.state = "waiting"
  /\ hex' = [hex EXCEPT !.text = Dump(loading.dump), !.edited = {}]
  /\ loading' = NotLoading
  /\ UNCHANGED <<section, raced, code, versions>>

\* editAtCursor: OK takes what is left of the digits, whether or not any is missing;
\* the bytes after a missing one are shifted, and as many as are left are written,
\* while the row shows the gap.  A row may be edited while the editor waits for a
\* new dump.
EditRow ==
  /\ WhileOpen("hex") /\ hex.text # <<>>
  /\ \E p \in Rows, stamp \in Stamps :
       LET row == RowText(p) IN
       \E offered \in Offered(row, p \in hex.edited) : \E typed \in Typed(RowLength(p), offered) :
         /\ ~SameLine(typed, row, p \in hex.edited)
         /\ SetSubData(p, HexToData(Digits(typed)))
         /\ hex' = [text |-> [i \in DOMAIN hex.text |-> IF i - 2 * (p - 1) \in DOMAIN typed
                                                        THEN typed[i - 2 * (p - 1)] ELSE hex.text[i]],
                    edited |-> hex.edited \union {p}, stamp |-> stamp, dirty |-> TRUE]
  /\ code' = Aged(code) /\ versions' = Aged(versions)
  /\ raced' = (raced \/ loading # NotLoading)
  /\ UNCHANGED <<disasm, loading>>

CloseHex ==
  /\ open = "hex" /\ loading = NotLoading
  /\ Done(hex)
  /\ hex' = [hex EXCEPT !.dirty = FALSE]
  /\ \E changed \in MayHaveChanged : Close(changed)
  /\ UNCHANGED <<loading, raced, code, versions>>

-----------------------------------------------------------------------------
(***************************************************************************)
(* The disassembly editor                                                  *)
(***************************************************************************)

\* showEvent and createEntries: rows are made of the instructions, not of the
\* data.
OpenCode ==
  /\ kind = "code" /\ Open("code")
  /\ IF code.rows = {} THEN code' = [code EXCEPT !.rows = disasm, !.stale = ~Decodable(data)] /\ UNCHANGED disasm
     ELSE IF Outdated(code)
     THEN UpdateDisassembly(data) /\ code' = [code EXCEPT !.stamp = "same", !.dirty = TRUE, !.rows = disasm', !.stale = ~Decodable(data)]
     ELSE UNCHANGED <<code, disasm>>
  /\ UNCHANGED <<kind, data, touched, edits, hex, loading, raced, versions, main, declined>>

\* A byte some of whose digits are typed over.
Retyped(byte) == {2 * h + l : h \in {byte \div 2} \union Keys, l \in {byte % 2} \union Keys}

\* setModelData: as many bytes as the row has; what they mean now is shown in
\* the row, and a button appears if they are several instructions.  The delegate does
\* not commit a row with a digit missing.  A row in which nothing was typed is
\* written as well if it has letters: it is shown in lower case and compared in
\* upper case.
EditInstruction ==
  /\ WhileOpen("code")
  /\ \E row \in code.rows, stamp \in Stamps :
       \E i \in DOMAIN row.bytes : \E b \in Retyped(row.bytes[i]) :
         LET typed == [row.bytes EXCEPT ![i] = b] IN
         /\ SetSubData(row.at, typed)
         /\ code' = [code EXCEPT !.rows = (@ \ {row}) \union {[row EXCEPT !.bytes = typed]},
                                 !.stamp = stamp, !.dirty = TRUE,
                                 !.button = @ \/ Cardinality(Instructions(typed)) > 1]
  /\ hex' = Aged(hex)
  /\ UNCHANGED <<disasm, loading, raced, versions>>

UpdateButton ==
  /\ WhileOpen("code") /\ code.button
  /\ UpdateDisassembly(data)
  /\ code' = [code EXCEPT !.rows = disasm', !.stale = ~Decodable(data)]
  /\ UNCHANGED <<data, touched, edits, hex, loading, raced, versions>>

CloseCode ==
  /\ open = "code"
  /\ Done(code)
  /\ code' = [code EXCEPT !.dirty = FALSE]
  /\ \E changed \in MayHaveChanged : Close(changed)
  /\ UNCHANGED <<hex, loading, raced, versions>>

-----------------------------------------------------------------------------
(***************************************************************************)
(* The editor of SDK versions                                              *)
(***************************************************************************)

\* The constructor parses; readValues shows what was parsed then, the first
\* time and whenever the section changed.  Otherwise the spin boxes keep what
\* they show.
OpenVersions ==
  /\ kind = "versions" /\ Open("versions")
  /\ LET read == IF versions.read = <<>> THEN Parsed(data) ELSE versions.read
         inSpin == [i \in DOMAIN read |-> InSpin(read[i])] IN
     versions' = IF versions.read = <<>> THEN [versions EXCEPT !.read = read, !.spin = inSpin]
                 ELSE IF Outdated(versions) THEN [versions EXCEPT !.stamp = "same", !.spin = inSpin]
                 ELSE versions
  /\ UNCHANGED <<kind, section, hex, loading, raced, code, main, declined>>

TurnSpin ==
  /\ WhileOpen("versions")
  /\ \E i \in DOMAIN versions.spin, v \in SpinRange :
       /\ v # versions.spin[i]
       /\ versions' = [versions EXCEPT !.spin[i] = v]
  /\ UNCHANGED <<section, hex, loading, raced, code>>

\* Mutant: || instead of |, so that a new target keeps a new SDK from being set.
PatchedShortCircuit(spin, read) == [i \in DOMAIN data |-> IF spin[i] = read[i] \/ (i = 2 /\ spin[1] # read[1]) THEN data[i] ELSE spin[i]]
\* setTarget and setSdk: a version that is not the one the patcher knows.
Patched(spin, read) == [i \in DOMAIN data |-> IF spin[i] = read[i] THEN data[i] ELSE spin[i]]

\* accept: done(Accepted) and checkModified against no regions at all, or
\* done(Rejected).
AcceptVersions ==
  /\ open = "versions"
  /\ \/ /\ versions.spin # versions.read
        /\ SetSubData(1, Patched(versions.spin, versions.read))
        /\ hex' = Aged(hex)
        /\ \E stamp \in Stamps : versions' = [versions EXCEPT !.stamp = stamp, !.read = versions.spin]
        /\ \/ main' = Parsed(data') /\ declined' = FALSE
           \/ declined' = TRUE /\ UNCHANGED main
     \/ /\ versions.spin = versions.read
        /\ UNCHANGED <<data, touched, edits, hex, versions, main, declined>>
  /\ open' = "none" /\ prior' = <<>>
  /\ UNCHANGED <<kind, disasm, loading, raced, code>>

CancelVersions ==
  /\ open = "versions" /\ open' = "none" /\ prior' = <<>>
  /\ UNCHANGED <<kind, section, hex, loading, raced, code, versions, main, declined>>

Next ==
  \/ OpenHexFirst \/ OpenHexAgain \/ StartDecode \/ FinishDecode \/ EditRow \/ CloseHex
  \/ OpenCode \/ EditInstruction \/ UpdateButton \/ CloseCode
  \/ OpenVersions \/ TurnSpin \/ AcceptVersions \/ CancelVersions

Spec == Init /\ [][Next]_vars

-----------------------------------------------------------------------------
(***************************************************************************)
(* Properties                                                              *)
(***************************************************************************)

\* What the open editor shows is what the section holds, however often the section
\* was changed in other editors before.  In the hex editor that is: the digits of a
\* row, gaps or not, are those of the first bytes of the row, and of all of them if
\* it was not edited since it was dumped.  So whatever was deleted in it and whatever the
\* dialog leaves out, OK alone does not change the section.  Two things break
\* it: an edit made while the hex editor waited for its dump, and rows made of a
\* disassembly that could not be renewed.
EditorsShowData ==
  /\ open = "hex" /\ loading = NotLoading /\ ~raced =>
       \A p \in Rows :
         LET shown == HexToData(Digits(RowText(p))) IN
         /\ SubSeq(data, p, p + Len(shown) - 1) = shown
         /\ p \notin hex.edited => Len(shown) = RowLength(p)
  /\ open = "code" /\ ~code.stale =>
       \A row \in code.rows : SubSeq(data, row.at, row.at + Len(row.bytes) - 1) = row.bytes

\* With no editor open, the disassembly is that of the bytes, if they have one.
DisassemblyIsCurrent ==
  open = "none" /\ kind = "code" /\ Decodable(data) => disasm = Instructions(data)

\* With no editor open, the main view is behind only if the user declined to
\* reload it, whichever editors changed the section, or if nothing can be
\* decoded in it.
MainViewIsCurrent ==
  open = "none" /\ ~declined /\ (kind = "code" => Decodable(data)) => main = Shown(data, disasm)

\* OK in the versions editor leaves the section with the versions the spin boxes
\* show, each written or left alone because it is the one that was read, unless the
\* patcher's were out of date.
OkWritesWhatIsShown ==
  [][AcceptVersions /\ versions.read = Parsed(data) =>
       \A i \in DOMAIN data :
         data'[i] = versions.spin[i] \/ (data'[i] = data[i] /\ Decoded(data[i]) = versions.spin[i])]_vars
=============================================================================
