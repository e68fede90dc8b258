----------------------------- MODULE BinaryEdit -----------------------------
(***************************************************************************)
(* Editing one loaded binary: the sections of its object, the editors that *)
(* change them, the "binary modified" flag of the main window, and the     *)
(* region by region write-back into the file (Section.cc, Format.cc,       *)
(* BinaryWidget::checkModified, MainWindow::saveBinary).                   *)
(*                                                                         *)
(* The editors are modal, so at most one is open, and the write-back runs  *)
(* on the main thread, so nothing is edited under it; the process may die  *)
(* between any two steps and the file is then loaded again.                *)
(***************************************************************************)
EXTENDS Regions

CONSTANTS
  NSections,       \* the sections are 1..NSections, in file order of writing
  Byte,            \* the values of a byte
  Offset,          \* file offset of each section
  Size,            \* size of each section in bytes
  FileSize,        \* size of the binary file
  VersionSections, \* the LC_VERSION_MIN sections: a target and an SDK version
  VersionWidth,    \* bytes of one of these two versions
  WritesMayFail,   \* whether a write to the open file may fall short
  MaxRegions       \* BOUND: the longest list of regions a section gets

Sections == 1..NSections

\* The sections lie in the file and do not overlap there; a section of SDK
\* versions holds exactly two of them.
ASSUME LayoutAssumption ==
  /\ NSections \in Nat \ {0}
  /\ FileSize \in Nat
  /\ VersionWidth \in Nat
  /\ MaxRegions \in Nat
  /\ WritesMayFail \in BOOLEAN
  /\ Offset \in [Sections -> Nat]
  /\ Size \in [Sections -> Nat]
  /\ \A s \in Sections : Offset[s] + Size[s] =< FileSize
  /\ \A s, t \in Sections :
       s # t => Offset[s] + Size[s] =< Offset[t] \/ Offset[t] + Size[t] =< Offset[s]
  /\ VersionSections \subseteq Sections
  /\ \A s \in VersionSections : Size[s] = 2 * VersionWidth

VARIABLES
  data,           \* Section::data_
  regions,        \* Section::modifiedRegions_
  file,           \* the bytes of the binary file
  binaryModified, \* MainWindow::binaryModified
  phase,          \* what the main thread is doing
  editor,         \* the open editor: its section and the regions at its opening
  at              \* the next region Format::write writes, as <<section, index>>

vars == <<data, regions, file, binaryModified, phase, editor, at>>

Phases == {"idle", "editing", "saving", "dead"}
NoEditor == [section |-> 1, prior |-> <<>>]
Start == <<1, 1>>

\* The byte of section s at position p: in memory and in the file.
InMemory(s, p) == data[s][p + 1]
InFile(s, p) == file[Offset[s] + p + 1]
Positions(s) == 0..Size[s] - 1

\* MachO::parse fills every section from the file.
Loaded(f) == [s \in Sections |-> Mid(f, Offset[s], Size[s])]

TypeOK ==
  /\ data \in [Sections -> Seq(Byte)]
  /\ regions \in [Sections -> Seq(RegionOf(Byte))]
  /\ file \in Seq(Byte) /\ Len(file) = FileSize
  /\ binaryModified \in BOOLEAN
  /\ phase \in Phases
  /\ editor \in [section : Sections, prior : Seq(RegionOf(Byte))]
  /\ at \in (1..NSections + 1) \X (Nat \ {0})
  /\ phase # "dead" => \A s \in Sections : Len(data[s]) = Size[s]

Init ==
  /\ file \in [1..FileSize -> Byte]
  /\ data = Loaded(file)
  /\ regions = [s \in Sections |-> <<>>]
  /\ binaryModified = FALSE
  /\ phase = "idle"
  /\ editor = NoEditor
  /\ at = Start

-----------------------------------------------------------------------------
(***************************************************************************)
(* Loading and dying                                                       *)
(***************************************************************************)

\* A load that succeeded, from the menus, by "Reload binary" or after a
\* restart: the new Format replaces the old one and its edits are gone.
Load ==
  /\ phase \in {"idle", "dead"}
  /\ data' = Loaded(file)
  /\ regions' = [s \in Sections |-> <<>>]
  /\ binaryModified' = FALSE
  /\ phase' = "idle"
  /\ UNCHANGED <<file, editor, at>>

Crash ==
  /\ phase # "dead"
  /\ data' = [s \in Sections |-> <<>>]
  /\ regions' = [s \in Sections |-> <<>>]
  /\ binaryModified' = FALSE
  /\ phase' = "dead"
  /\ editor' = NoEditor
  /\ at' = Start
  /\ UNCHANGED file

(***************************************************************************)
(* Editors                                                                 *)
(***************************************************************************)

\* The hex or the disassembly editor of section s: the regions are copied
\* before it runs, to be compared when it has closed.
OpenEditor(s) ==
  /\ phase = "idle"
  /\ phase' = "editing"
  /\ editor' = [section |-> s, prior |-> regions[s]]
  /\ UNCHANGED <<data, regions, file, binaryModified, at>>

\* One row is changed: its bytes, or fewer when digits were deleted.
Edit(pos, sub) ==
  LET s == editor.section IN
  /\ phase = "editing"
  /\ pos \in Positions(s)
  /\ pos + Len(sub) =< Size[s]
  /\ data' = [data EXCEPT ![s] = SubDataData(@, sub, pos)]
  /\ regions' = [regions EXCEPT ![s] = SubDataRegions(data[s], @, sub, pos)]
  /\ Len(regions'[s]) =< MaxRegions
  /\ UNCHANGED <<file, binaryModified, phase, editor, at>>

\* Mutant: lists of the same length count as unmodified.
CheckModifiedByLength(s, rs, prior) ==
  binaryModified' = (binaryModified \/ (IsModified(rs) /\ Len(rs) # Len(prior)))

\* BinaryWidget::checkModified: emit modified() for a list that changed.
CheckModified(s, rs, prior) ==
  binaryModified' = (binaryModified \/ (IsModified(rs) /\ rs # prior))

CloseEditor ==
  LET s == editor.section IN
  /\ phase = "editing"
  /\ CheckModified(s, regions[s], editor.prior)
  /\ phase' = "idle"
  /\ editor' = NoEditor
  /\ UNCHANGED <<data, regions, file, at>>

\* The versions editor, accepted with a new target, a new SDK, or both
\* (MacSdkVersionPatcher::patch); its regions are compared with none.
PatchVersions(s, target, sdk) ==
  LET slots == <<target, sdk>>
      d1 == IF target = <<>> THEN data[s] ELSE SubDataData(data[s], target, 0)
      r1 == IF target = <<>> THEN regions[s]
            ELSE SubDataRegions(data[s], regions[s], target, 0)
      d2 == IF sdk = <<>> THEN d1 ELSE SubDataData(d1, sdk, VersionWidth)
      r2 == IF sdk = <<>> THEN r1 ELSE SubDataRegions(d1, r1, sdk, VersionWidth)
  IN
  /\ phase = "idle"
  /\ \A k \in 1..2 : slots[k] = <<>> \/ Len(slots[k]) = VersionWidth
  /\ slots # <<<<>>, <<>>>>
  /\ data' = [data EXCEPT ![s] = d2]
  /\ regions' = [regions EXCEPT ![s] = r2]
  /\ Len(r2) =< MaxRegions
  /\ CheckModified(s, r2, <<>>)
  /\ UNCHANGED <<file, phase, editor, at>>

(***************************************************************************)
(* MainWindow::saveBinary and Format::write                                *)
(***************************************************************************)

SaveBinary ==
  /\ phase = "idle"
  /\ binaryModified
  /\ phase' = "saving"
  /\ at' = Start
  /\ UNCHANGED <<data, regions, file, binaryModified, editor>>

\* Mutants: the seek leaves out the position of the region; the loop does not
\* go on to the next region.
WriteRegionAtSection(n) ==
  LET s == at[1]
      r == regions[s][at[2]]
  IN
  /\ phase = "saving"
  /\ s \in Sections
  /\ at[2] \in DOMAIN regions[s]
  /\ n =< SizeOf(r)
  /\ n < SizeOf(r) => WritesMayFail
  /\ file' = Replace(file, Offset[s], Mid(data[s], r.position, n))
  /\ at' = <<s, at[2] + 1>>
  /\ UNCHANGED <<data, regions, binaryModified, phase, editor>>

WriteRegionStays(n) ==
  LET s == at[1]
      r == regions[s][at[2]]
  IN
  /\ phase = "saving"
  /\ s \in Sections
  /\ at[2] \in DOMAIN regions[s]
  /\ n = SizeOf(r)
  /\ file' = Replace(file, Offset[s] + r.position, Mid(data[s], r.position, n))
  /\ UNCHANGED <<data, regions, binaryModified, phase, editor, at>>

\* seek(section offset + region position); write(data.mid(...)).  Nobody looks
\* at how many bytes n were written, and the next region follows in any case.
WriteRegion(n) ==
  LET s == at[1]
      r == regions[s][at[2]]
  IN
  /\ phase = "saving"
  /\ s \in Sections
  /\ at[2] \in DOMAIN regions[s]
  /\ n =< SizeOf(r)
  /\ n < SizeOf(r) => WritesMayFail
  /\ file' = Replace(file, Offset[s] + r.position, Mid(data[s], r.position, n))
  /\ at' = <<s, at[2] + 1>>
  /\ UNCHANGED <<data, regions, binaryModified, phase, editor>>

\* Mutant: the first region of every further section is skipped.
NextSectionSecond ==
  /\ phase = "saving"
  /\ at[1] \in Sections
  /\ at[2] \notin DOMAIN regions[at[1]]
  /\ at' = <<at[1] + 1, 2>>
  /\ UNCHANGED <<data, regions, file, binaryModified, phase, editor>>

NextSection ==
  /\ phase = "saving"
  /\ at[1] \in Sections
  /\ at[2] \notin DOMAIN regions[at[1]]
  /\ at' = <<at[1] + 1, 1>>
  /\ UNCHANGED <<data, regions, file, binaryModified, phase, editor>>

\* Mutant: the last section is not written.
SaveDoneEarly ==
  /\ phase = "saving"
  /\ at[1] >= NSections
  /\ binaryModified' = FALSE
  /\ phase' = "idle"
  /\ at' = Start
  /\ UNCHANGED <<data, regions, file, editor>>

\* The regions stay in their sections after the write.
SaveDone ==
  /\ phase = "saving"
  /\ at[1] \notin Sections
  /\ binaryModified' = FALSE
  /\ phase' = "idle"
  /\ at' = Start
  /\ UNCHANGED <<data, regions, file, editor>>

-----------------------------------------------------------------------------
SubsUpTo(n) == UNION {[1..m -> Byte] : m \in 0..n}

EditSome ==
  \E pos \in Positions(editor.section) :
    \E sub \in SubsUpTo(Size[editor.section] - pos) : Edit(pos, sub)

PatchSome ==
  \E s \in VersionSections :
    \E target, sdk \in {<<>>} \cup [1..VersionWidth -> Byte] : PatchVersions(s, target, sdk)

WriteSome == \E n \in 0..FileSize : WriteRegion(n)

SaveStep == WriteSome \/ NextSection \/ SaveDone

Next ==
  \/ Load
  \/ Crash
  \/ \E s \in Sections : OpenEditor(s)
  \/ EditSome
  \/ CloseEditor
  \/ PatchSome
  \/ SaveBinary
  \/ SaveStep

Spec == Init /\ [][Next]_vars

\* Format::write is one loop of the main thread: once begun it goes on.
FairSpec == Spec /\ WF_vars(SaveStep)

-----------------------------------------------------------------------------
(***************************************************************************)
(* Properties                                                              *)
(***************************************************************************)

\* A byte that no region of its section covers is the byte of the file:
\* whatever was edited is remembered by a region, however the list was
\* pruned, or saving it would leave the edit behind.
UncoveredIsOnFile ==
  phase # "dead" =>
    \A s \in Sections : \A p \in Positions(s) :
      ~Covered(regions[s], p) => InMemory(s, p) = InFile(s, p)

\* A covered byte is what the newest region that covers it wrote, so the
\* region hashes describe the data and equal lists mean equal data.
NewestRegionWins ==
  \A s \in Sections : \A i \in DOMAIN regions[s] : \A p \in Positions(s) :
    IsLastCover(regions[s], i, p) => InMemory(s, p) = ByteAt(regions[s][i], p)

\* After pruning, no region lies inside a newer one, so setSubData never has
\* to look further than the region it has just appended.
NoNestedRegion ==
  \A s \in Sections : \A i, j \in DOMAIN regions[s] :
    i < j => ~Contained(regions[s][i], regions[s][j])

Clean == \A s \in Sections : \A p \in Positions(s) : InMemory(s, p) = InFile(s, p)

\* With no editor open and the save action disabled, memory and file agree:
\* checkModified missed no change and Format::write left none behind.
FlagIsSound == (phase = "idle" /\ ~binaryModified) => Clean

\* A step changes a byte of the file only while saving, only inside a
\* modified region, and then to the byte in memory; a crash in the middle
\* leaves every byte either old or new.
WritesOnlyEdits ==
  [][\A b \in 1..FileSize :
       file'[b] # file[b] =>
         /\ phase = "saving"
         /\ \E s \in Sections : \E p \in Positions(s) :
              /\ b = Offset[s] + p + 1
              /\ Covered(regions[s], p)
              /\ file'[b] = InMemory(s, p)]_vars

\* A save that was begun comes to its end, unless the process dies.
SaveEnds == phase = "saving" ~> phase # "saving"
-----------------------------------------------------------------------------
(***************************************************************************)
(* The inductive invariant behind these properties                         *)
(***************************************************************************)

\* Every region lies in its section.
RegionsInSection ==
  \A s \in Sections : \A i \in DOMAIN regions[s] :
    /\ regions[s][i].position \in Positions(s)
    /\ EndOf(regions[s][i]) =< Size[s]

SectionClean(s) == \A p \in Positions(s) : InMemory(s, p) = InFile(s, p)

\* An editor opened while nothing was unsaved: the other sections are still
\* as in the file, and so are the bytes the regions held at its opening.
EditorInv ==
  (~WritesMayFail /\ phase = "editing" /\ ~binaryModified) =>
    /\ \A s \in Sections \ {editor.section} : SectionClean(s)
    /\ \A i \in DOMAIN editor.prior : \A p \in Positions(editor.section) :
         IsLastCover(editor.prior, i, p) =>
           InFile(editor.section, p) = ByteAt(editor.prior[i], p)

\* Every byte covered by a region before the cursor has reached the file.
SavingInv ==
  (~WritesMayFail /\ phase = "saving") =>
    \A s \in Sections : \A i \in DOMAIN regions[s] : \A p \in Positions(s) :
      (s < at[1] \/ (s = at[1] /\ i < at[2])) /\ Covers(regions[s][i], p)
        => InMemory(s, p) = InFile(s, p)

FlagInv == ~WritesMayFail => FlagIsSound

DeadInv == phase = "dead" => \A s \in Sections : regions[s] = <<>>

IInv ==
  /\ TypeOK
  /\ DeadInv
  /\ RegionsInSection
  /\ NoNestedRegion
  /\ NewestRegionWins
  /\ UncoveredIsOnFile
  /\ EditorInv
  /\ SavingInv
  /\ FlagInv

(***************************************************************************)
(* The refinement: the document is what the sections hold (or the file,    *)
(* when there is no process), the disk is the file, and the claim is the   *)
(* disabled save action of an idle main window.                            *)
(***************************************************************************)
Cells == {c \in Sections \X (0..FileSize) : c[2] < Size[c[1]]}

DiskOf == [c \in Cells |-> InFile(c[1], c[2])]
DocOf == [c \in Cells |-> IF phase = "dead" THEN InFile(c[1], c[2])
                                            ELSE InMemory(c[1], c[2])]
SavedOf == phase = "idle" /\ ~binaryModified

WB == INSTANCE WriteBack WITH Cell <- Cells, Value <- Byte,
                              doc <- DocOf, disk <- DiskOf, saved <- SavedOf

\* Editing and region-wise saving implement the write-back document: the save
\* action is disabled only when every edit is on disk.
RefinesWriteBack == WB!Spec
=============================================================================
