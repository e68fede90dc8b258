--------------------------- MODULE ProjectRegions ---------------------------
(***************************************************************************)
(* Edits that travel in a project file: MainWindow::saveProject attaches   *)
(* the modified regions of all sections to the Project, Project::save      *)
(* writes them, and after the next load applyModifiedRegions puts them     *)
(* back into the sections of the object the user chose.                    *)
(*                                                                         *)
(* Edits and the writing of the binary are single steps here; BinaryEdit   *)
(* takes them apart.  Two components of the state are history only: the    *)
(* bytes that attached regions stood for when they were attached, kept in  *)
(* memory (attached.origin) and with the file (stored.origin).             *)
(***************************************************************************)
EXTENDS Regions

CONSTANTS
  NSections,   \* the sections of all objects are 1..NSections
  ObjectOf,    \* the object of a fat binary a section belongs to
  Byte,        \* the values of a byte
  Offset,      \* file offset of each section
  Size,        \* size of each section in bytes
  FileSize,    \* size of the binary file
  MaxRegions,  \* BOUND: the longest list of regions a section gets
  MaxSub       \* BOUND: the most bytes one edit changes

Sections == 1..NSections
Objects == {ObjectOf[s] : s \in Sections}

ASSUME ProjectAssumption ==
  /\ NSections \in Nat \ {0}
  /\ FileSize \in Nat
  /\ MaxRegions \in Nat /\ MaxSub \in Nat
  /\ DOMAIN ObjectOf = Sections
  /\ Offset \in [Sections -> Nat]
  /\ Size \in [Sections -> Nat]
  /\ \A s \in Sections : Offset[s] + Size[s] =< FileSize
  /\ \A s, t \in Sections :
       s # t => Offset[s] + Size[s] =< Offset[t] \/ Offset[t] + Size[t] =< Offset[s]

VARIABLES
  phase,          \* what the main window shows, see Phases
  shown,          \* the sections of the object that was chosen
  todo,           \* applyModifiedRegions: the <<section, address>> still to visit
  match,          \* applyModifiedRegions: some region was applied
  data,           \* Section::data_
  regions,        \* Section::modifiedRegions_
  file,           \* the bytes of the binary file
  binaryModified, \* MainWindow::binaryModified
  attached,       \* Project::modifiedRegions_, and what it was made from
  named,          \* Project::file() is set
  project,        \* the project file: "none", "torn", or "whole"
  stored          \* the regions in it, and what they were made from

vars == <<phase, shown, todo, match, data, regions, file, binaryModified, attached, named, project, stored>>

Phases == {
  "closed",    \* no project
  "choosing",  \* loaded, the object is still to be chosen
  "unchosen",  \* that choice was canceled
  "applying",  \* in the loop of applyModifiedRegions
  "shown"}     \* the object is on show and can be edited

Positions(s) == 0..Size[s] - 1
Loaded(f) == [s \in Sections |-> Mid(f, Offset[s], Size[s])]
NoRegions == [s \in Sections |-> <<>>]

\* The address of every byte that belongs to a section, and its owner.
Addresses == UNION {Offset[s]..Offset[s] + Size[s] - 1 : s \in Sections}
OwnerOf(a) == CHOOSE s \in Sections : Offset[s] =< a /\ a < Offset[s] + Size[s]

\* The bytes of all sections by address.
Image(d) == [a \in Addresses |-> d[OwnerOf(a)][a - Offset[OwnerOf(a)] + 1]]

\* Attached regions: bytes by address (Project::modifiedRegions_), and every
\* byte they were to hold.
None == [map |-> <<>>, origin |-> <<>>]
AttachedType(x) ==
  /\ DOMAIN x.map \subseteq Addresses
  /\ \A a \in DOMAIN x.map : x.map[a] \in Seq(Byte)
  /\ \A a \in DOMAIN x.origin : a \in Addresses /\ x.origin[a] \in Byte

TypeOK ==
  /\ phase \in Phases
  /\ shown \subseteq Sections
  /\ todo \subseteq shown \X DOMAIN attached.map
  /\ match \in BOOLEAN
  /\ data \in [Sections -> Seq(Byte)]
  /\ regions \in [Sections -> Seq(RegionOf(Byte))]
  /\ file \in [1..FileSize -> Byte]
  /\ binaryModified \in BOOLEAN
  /\ named \in BOOLEAN
  /\ AttachedType(attached)
  /\ project \in {"none", "torn", "whole"}
  /\ AttachedType(stored)

Init ==
  /\ phase = "closed"
  /\ shown = {} /\ todo = {} /\ match = FALSE
  /\ file \in [1..FileSize -> Byte]
  /\ data = [s \in Sections |-> <<>>]
  /\ regions = NoRegions
  /\ binaryModified = FALSE
  /\ attached = None
  /\ named = FALSE
  /\ project = "none"
  /\ stored = None

-----------------------------------------------------------------------------
(***************************************************************************)
(* Projects and loads                                                      *)
(***************************************************************************)

\* Mutant: the sections of the old Format stay.
FreshFormatKeepsData ==
  /\ phase' = "choosing"
  /\ shown' = {} /\ todo' = {} /\ match' = FALSE
  /\ data' = IF phase = "closed" THEN Loaded(file) ELSE data
  /\ regions' = NoRegions
  /\ binaryModified' = FALSE

\* onLoadSuccess up to its delayed part: a new Format, no object on show.
FreshFormat ==
  /\ phase' = "choosing"
  /\ shown' = {} /\ todo' = {} /\ match' = FALSE
  /\ data' = Loaded(file)
  /\ regions' = NoRegions
  /\ binaryModified' = FALSE

\* Open project: Project::load, then its binary.
OpenProject ==
  /\ phase # "applying"
  /\ project = "whole"
  /\ FreshFormat
  /\ attached' = stored
  /\ named' = TRUE
  /\ UNCHANGED <<file, project, stored>>

\* Open, reload or drop a binary: a project that was never saved is replaced
\* by a new one, any other keeps what it has attached.
LoadBinary ==
  /\ phase # "applying"
  /\ FreshFormat
  /\ attached' = IF named THEN attached ELSE None
  /\ UNCHANGED <<file, named, project, stored>>

\* Close project, or the end of the process.
Leave ==
  /\ phase # "closed"
  /\ phase' = "closed"
  /\ shown' = {} /\ todo' = {} /\ match' = FALSE
  /\ data' = [s \in Sections |-> <<>>]
  /\ regions' = NoRegions
  /\ binaryModified' = FALSE
  /\ attached' = None
  /\ named' = FALSE
  /\ UNCHANGED <<file, project, stored>>

(***************************************************************************)
(* MainWindow::applyModifiedRegions                                        *)
(***************************************************************************)

\* The object is chosen, or is the only one: every section of it will be held
\* against every attached region.
Choose(o) ==
  /\ phase = "choosing"
  /\ phase' = "applying"
  /\ shown' = {s \in Sections : ObjectOf[s] = o}
  /\ todo' = shown' \X DOMAIN attached.map
  /\ match' = FALSE
  /\ UNCHANGED <<data, regions, file, binaryModified, attached, named, project, stored>>

\* Sections in their order, and for each the addresses in theirs (QMap).
IsNext(s, a) ==
  /\ <<s, a>> \in todo
  /\ \A x \in todo : s < x[1] \/ (s = x[1] /\ a =< x[2])

\* Region a lies in section s, as the code has it: it ends before the end.
Fits(s, a) == a >= Offset[s] /\ a + Len(attached.map[a]) < Offset[s] + Size[s]

\* Mutants: the bytes are not compared with those of the section; the loop is
\* left after the first region that was applied.
ApplyRegionAlways(s, a) ==
  LET bytes == attached.map[a]
      pos == a - Offset[s]
  IN
  /\ phase = "applying"
  /\ IsNext(s, a)
  /\ todo' = todo \ {<<s, a>>}
  /\ IF Fits(s, a)
     THEN /\ data' = [data EXCEPT ![s] = SubDataData(@, bytes, pos)]
          /\ regions' = [regions EXCEPT ![s] = SubDataRegions(data[s], @, bytes, pos)]
          /\ match' = TRUE
     ELSE UNCHANGED <<data, regions, match>>
  /\ UNCHANGED <<phase, shown, file, binaryModified, attached, named, project, stored>>

ApplyRegionOnce(s, a) ==
  LET bytes == attached.map[a]
      pos == a - Offset[s]
  IN
  /\ phase = "applying"
  /\ IsNext(s, a)
  /\ IF Fits(s, a) /\ bytes # Mid(data[s], pos, Len(bytes))
     THEN /\ todo' = {}
          /\ data' = [data EXCEPT ![s] = SubDataData(@, bytes, pos)]
          /\ regions' = [regions EXCEPT ![s] = SubDataRegions(data[s], @, bytes, pos)]
          /\ match' = TRUE
     ELSE todo' = todo \ {<<s, a>>} /\ UNCHANGED <<data, regions, match>>
  /\ UNCHANGED <<phase, shown, file, binaryModified, attached, named, project, stored>>

\* One round of the loops: a region that fits goes into the section, unless
\* its bytes are there already.
ApplyRegion(s, a) ==
  LET bytes == attached.map[a]
      pos == a - Offset[s]
  IN
  /\ phase = "applying"
  /\ IsNext(s, a)
  /\ todo' = todo \ {<<s, a>>}
  /\ IF Fits(s, a) /\ bytes # Mid(data[s], pos, Len(bytes))
     THEN /\ data' = [data EXCEPT ![s] = SubDataData(@, bytes, pos)]
          /\ regions' = [regions EXCEPT ![s] = SubDataRegions(data[s], @, bytes, pos)]
          /\ match' = TRUE
     ELSE UNCHANGED <<data, regions, match>>
  /\ UNCHANGED <<phase, shown, file, binaryModified, attached, named, project, stored>>

\* The regions are dropped from the project, and the binary counts as
\* modified if any of them was applied.
ApplyDone ==
  /\ phase = "applying"
  /\ todo = {}
  /\ phase' = "shown"
  /\ match' = FALSE
  /\ binaryModified' = (binaryModified \/ match)
  /\ attached' = None
  /\ UNCHANGED <<shown, todo, data, regions, file, named, project, stored>>

\* The choice is canceled: there is a format and a project but no widget.
CancelChoice ==
  /\ phase = "choosing"
  /\ Cardinality(Objects) > 1
  /\ phase' = "unchosen"
  /\ UNCHANGED <<shown, todo, match, data, regions, file, binaryModified, attached, named, project, stored>>

(***************************************************************************)
(* Edits, and saving the binary                                            *)
(***************************************************************************)
Edit(s, pos, sub) ==
  /\ phase = "shown"
  /\ s \in shown
  /\ data' = [data EXCEPT ![s] = SubDataData(@, sub, pos)]
  /\ regions' = [regions EXCEPT ![s] = SubDataRegions(data[s], @, sub, pos)]
  /\ Len(regions'[s]) =< MaxRegions
  /\ binaryModified' = TRUE
  /\ UNCHANGED <<phase, shown, todo, match, file, attached, named, project, stored>>

\* The projects, the binary and the regions are saved while nothing else runs.
Idle == phase \in {"choosing", "unchosen", "shown"}

SaveBinary ==
  /\ Idle
  /\ binaryModified
  /\ file' = [b \in 1..FileSize |->
                IF b - 1 \in Addresses /\ Covered(regions[OwnerOf(b - 1)], b - 1 - Offset[OwnerOf(b - 1)])
                THEN Image(data)[b - 1] ELSE file[b]]
  /\ binaryModified' = FALSE
  /\ UNCHANGED <<phase, shown, todo, match, data, regions, attached, named, project, stored>>

(***************************************************************************)
(* MainWindow::saveProject and Project::save                               *)
(***************************************************************************)

\* Mutant: the bytes are those of the region when it was made.
CollectedAsMade ==
  LET starts(s) == {Offset[s] + regions[s][i].position : i \in DOMAIN regions[s]}
      last(s, a) == CHOOSE i \in DOMAIN regions[s] :
                      /\ Offset[s] + regions[s][i].position = a
                      /\ \A j \in DOMAIN regions[s] :
                           Offset[s] + regions[s][j].position = a => j =< i
      region(s, a) == regions[s][last(s, a)].bytes
  IN  [a \in UNION {starts(s) : s \in Sections} |-> region(OwnerOf(a), a)]

\* addModifiedRegion in the order of the lists: of several regions that begin
\* at one address the last stays; the bytes are those of the section now.
Collected ==
  LET starts(s) == {Offset[s] + regions[s][i].position : i \in DOMAIN regions[s]}
      last(s, a) == CHOOSE i \in DOMAIN regions[s] :
                      /\ Offset[s] + regions[s][i].position = a
                      /\ \A j \in DOMAIN regions[s] :
                           Offset[s] + regions[s][j].position = a => j =< i
      region(s, a) == Mid(data[s], a - Offset[s], SizeOf(regions[s][last(s, a)]))
  IN  [a \in UNION {starts(s) : s \in Sections} |-> region(OwnerOf(a), a)]

\* The addresses the regions of m cover.
Reach(m) == UNION {a..a + Len(m[a]) - 1 : a \in DOMAIN m}

Attach ==
  attached' = [map |-> Collected, origin |-> [a \in Reach(Collected) |-> Image(data)[a]]]

SaveProject ==
  /\ Idle
  /\ Attach
  /\ project' = "whole"
  /\ stored' = attached'
  /\ named' = TRUE
  /\ UNCHANGED <<phase, shown, todo, match, data, regions, file, binaryModified>>

\* The file cannot be opened for writing: the regions stay attached.
SaveProjectFails ==
  /\ Idle
  /\ Attach
  /\ UNCHANGED <<phase, shown, todo, match, data, regions, file, binaryModified, named, project, stored>>

\* The process ends after the file was truncated and before it was written.
DieInSave ==
  /\ Idle
  /\ phase' = "closed"
  /\ shown' = {} /\ todo' = {} /\ match' = FALSE
  /\ data' = [s \in Sections |-> <<>>]
  /\ regions' = NoRegions
  /\ binaryModified' = FALSE
  /\ attached' = None
  /\ named' = FALSE
  /\ project' = "torn"
  /\ stored' = None
  /\ UNCHANGED file

-----------------------------------------------------------------------------
ChooseSome == \E o \in Objects : Choose(o)

ApplySome == \E x \in todo : ApplyRegion(x[1], x[2])

EditSome ==
  \E s \in Sections : \E pos \in Positions(s) : \E n \in 1..MaxSub :
    pos + n =< Size[s] /\ \E sub \in [1..n -> Byte] : Edit(s, pos, sub)

Next ==
  \/ OpenProject
  \/ LoadBinary
  \/ Leave
  \/ ChooseSome
  \/ ApplySome
  \/ ApplyDone
  \/ CancelChoice
  \/ EditSome
  \/ SaveBinary
  \/ SaveProject
  \/ SaveProjectFails
  \/ DieInSave

Spec == Init /\ [][Next]_vars

-----------------------------------------------------------------------------
(***************************************************************************)
(* Properties                                                              *)
(***************************************************************************)
InMemory(s, p) == data[s][p + 1]
InFile(s, p) == file[Offset[s] + p + 1]

\* Attached regions hold bytes of one moment, those of the image they were
\* made from, in memory and in the file, although they are looked up region
\* by region and may overlap.
OfOneMoment(x) ==
  \A a \in DOMAIN x.map : \A k \in DOMAIN x.map[a] :
    a + k - 1 \in DOMAIN x.origin /\ x.map[a][k] = x.origin[a + k - 1]

AttachedIsSnapshot == OfOneMoment(attached) /\ OfOneMoment(stored)

\* What is restored over a freshly loaded binary, which may have changed since
\* the project was saved, is the saved byte or still that of the file.
RestoresOnlySaved ==
  phase = "applying" =>
    \A s \in Sections : \A p \in Positions(s) :
      \/ InMemory(s, p) = InFile(s, p)
      \/ /\ Offset[s] + p \in DOMAIN attached.origin
         /\ InMemory(s, p) = attached.origin[Offset[s] + p]

\* A region that ends before the end of a section on show is in it when the
\* loop ends, whatever else was applied after it.
RestoresInnerRegions ==
  [][ApplyDone =>
       \A s \in shown : \A a \in DOMAIN attached.map :
         Fits(s, a) => Mid(data[s], a - Offset[s], Len(attached.map[a])) = attached.map[a]]_vars

\* The binary is reported as modified after restoring exactly when some byte is
\* not that of the file: no later region takes an earlier one back.  And later,
\* with nothing reported, the sections are as in the file, so that nothing that
\* was restored is left out of the next save.
Differs == \E s \in Sections : \E p \in Positions(s) : InMemory(s, p) # InFile(s, p)
FlagIsSound ==
  /\ phase = "applying" => (match <=> Differs)
  /\ phase = "shown" /\ ~binaryModified => ~Differs

-----------------------------------------------------------------------------
(***************************************************************************)
(* What the comments promise and the code does not keep                    *)
(***************************************************************************)

\* "The modified regions are no longer needed in the project": each region that
\* is dropped from it has been restored into the section it lies in.
NoLongerNeeded ==
  [][ApplyDone =>
       \A a \in DOMAIN attached.map \ DOMAIN attached'.map :
         LET s == OwnerOf(a) IN
         Mid(data[s], a - Offset[s], Len(attached.map[a])) = attached.map[a]]_vars
=============================================================================
