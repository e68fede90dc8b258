-------------------------- MODULE BinaryEdit_proofs --------------------------
(***************************************************************************)
(* BinaryEdit for every layout of sections, every set of bytes and lists   *)
(* of every length: the invariant IInv is inductive, the bookkeeping of    *)
(* regions and flag is right in every reachable state, the write-back only *)
(* writes edits, and the whole implements WriteBack.                       *)
(***************************************************************************)
EXTENDS BinaryEdit, Regions_proofs

-----------------------------------------------------------------------------
(***************************************************************************)
(* Bytes of the sections and of the file                                   *)
(***************************************************************************)

\* A freshly loaded section holds the bytes of the file.
LEMMA LoadedBytes ==
  ASSUME file \in Seq(Byte), Len(file) = FileSize
  PROVE  /\ Loaded(file) \in [Sections -> Seq(Byte)]
         /\ \A s \in Sections :
              /\ Len(Loaded(file)[s]) = Size[s]
              /\ \A p \in Positions(s) : Loaded(file)[s][p + 1] = InFile(s, p)
<1>1. ASSUME NEW s \in Sections
      PROVE  /\ Mid(file, Offset[s], Size[s]) \in Seq(Byte)
             /\ Len(Mid(file, Offset[s], Size[s])) = Size[s]
             /\ \A p \in Positions(s) : Mid(file, Offset[s], Size[s])[p + 1] = InFile(s, p)
  <2>1. Offset[s] \in Nat /\ Size[s] \in Nat /\ Offset[s] + Size[s] =< Len(file)
    BY LayoutAssumption
  <2>2. /\ Mid(file, Offset[s], Size[s]) \in Seq(Byte)
        /\ Len(Mid(file, Offset[s], Size[s])) = Size[s]
        /\ \A k \in 1..Size[s] : Mid(file, Offset[s], Size[s])[k] = file[Offset[s] + k]
    BY <2>1, MidInside
  <2>3. ASSUME NEW p \in Positions(s)
        PROVE  Mid(file, Offset[s], Size[s])[p + 1] = InFile(s, p)
    <3>1. p + 1 \in 1..Size[s] /\ Offset[s] + (p + 1) = Offset[s] + p + 1
      BY <2>1 DEF Positions
    <3> QED
      BY <2>2, <3>1 DEF InFile
  <2> QED
    BY <2>2, <2>3
<1> QED
  BY <1>1 DEF Loaded

-----------------------------------------------------------------------------
(***************************************************************************)
(* One section                                                             *)
(***************************************************************************)

\* The conjuncts of IInv about a live section, for data d and regions rs.
SectionInv(s, d, rs) ==
  /\ d \in Seq(Byte) /\ Len(d) = Size[s]
  /\ rs \in Seq(RegionOf(Byte))
  /\ \A i \in DOMAIN rs : rs[i].position \in Positions(s) /\ EndOf(rs[i]) =< Size[s]
  /\ \A i, j \in DOMAIN rs : i < j => ~Contained(rs[i], rs[j])
  /\ \A i \in DOMAIN rs : \A p \in Positions(s) :
       IsLastCover(rs, i, p) => d[p + 1] = ByteAt(rs[i], p)
  /\ \A p \in Positions(s) : ~Covered(rs, p) => d[p + 1] = InFile(s, p)

LEMMA LiveSections ==
  ASSUME IInv, phase # "dead", NEW s \in Sections
  PROVE  SectionInv(s, data[s], regions[s])
<1>1. /\ data[s] \in Seq(Byte) /\ Len(data[s]) = Size[s]
      /\ regions[s] \in Seq(RegionOf(Byte))
  BY DEF IInv, TypeOK
<1>2. \A i \in DOMAIN regions[s] :
        regions[s][i].position \in Positions(s) /\ EndOf(regions[s][i]) =< Size[s]
  BY DEF IInv, RegionsInSection
<1>3. \A i, j \in DOMAIN regions[s] : i < j => ~Contained(regions[s][i], regions[s][j])
  BY DEF IInv, NoNestedRegion
<1>4. \A i \in DOMAIN regions[s] : \A p \in Positions(s) :
        IsLastCover(regions[s], i, p) => data[s][p + 1] = ByteAt(regions[s][i], p)
  BY DEF IInv, NewestRegionWins, InMemory
<1>5. \A p \in Positions(s) : ~Covered(regions[s], p) => data[s][p + 1] = InFile(s, p)
  BY DEF IInv, UncoveredIsOnFile, InMemory
<1> QED
  BY <1>1, <1>2, <1>3, <1>4, <1>5 DEF SectionInv

\* A section without regions that holds the bytes of the file.
LEMMA FreshSection ==
  ASSUME NEW s \in Sections, NEW d \in Seq(Byte), Len(d) = Size[s],
         \A p \in Positions(s) : d[p + 1] = InFile(s, p)
  PROVE  SectionInv(s, d, <<>>)
BY DEF SectionInv

\* setSubData inside the section keeps the invariant of the section.
LEMMA SubDataKeepsSectionInv ==
  ASSUME NEW s \in Sections, NEW d, NEW rs, SectionInv(s, d, rs),
         NEW sub \in Seq(Byte), NEW pos \in Positions(s), pos + Len(sub) =< Size[s]
  PROVE  /\ SectionInv(s, SubDataData(d, sub, pos), SubDataRegions(d, rs, sub, pos))
         /\ SubDataRegions(d, rs, sub, pos) # <<>>
<1> DEFINE d2 == SubDataData(d, sub, pos)
           rs2 == SubDataRegions(d, rs, sub, pos)
           new == [position |-> pos, bytes |-> sub]
<1>1. /\ d \in Seq(Byte) /\ Len(d) = Size[s] /\ rs \in Seq(RegionOf(Byte))
      /\ Size[s] \in Nat
  BY LayoutAssumption DEF SectionInv
<1>2. pos \in Nat /\ pos < Len(d) /\ pos + Len(sub) =< Len(d)
  BY <1>1 DEF Positions
<1>3. /\ d2 \in Seq(Byte) /\ Len(d2) = Len(d)
      /\ \A p \in 0..Len(d) - 1 :
           d2[p + 1] = IF Covers(new, p) THEN ByteAt(new, p) ELSE d[p + 1]
      /\ rs2 \in Seq(RegionOf(Byte)) /\ rs2 # <<>>
      /\ \A i \in DOMAIN rs2 : rs2[i] = new \/ \E j \in DOMAIN rs : rs2[i] = rs[j]
      /\ \A p \in Int : Covered(rs2, p) <=> Covered(rs, p) \/ Covers(new, p)
      /\ \A p \in Int : \A k \in DOMAIN rs2 : IsLastCover(rs2, k, p) =>
           IF Covers(new, p) THEN rs2[k] = new
           ELSE \E i \in DOMAIN rs : IsLastCover(rs, i, p) /\ rs[i] = rs2[k]
      /\ \A k, l \in DOMAIN rs2 : k < l => ~Contained(rs2[k], rs2[l])
  BY <1>1, <1>2, SetSubDataEffect
<1>4. new.position \in Positions(s) /\ EndOf(new) =< Size[s]
  BY DEF EndOf, SizeOf
<1>5. \A p \in Positions(s) : p \in Int /\ p \in 0..Len(d) - 1
  BY <1>1 DEF Positions
<1> HIDE DEF d2, rs2, new
<1>6. \A i \in DOMAIN rs2 : rs2[i].position \in Positions(s) /\ EndOf(rs2[i]) =< Size[s]
  BY <1>3, <1>4 DEF SectionInv
<1>7. ASSUME NEW k \in DOMAIN rs2, NEW p \in Positions(s), IsLastCover(rs2, k, p)
      PROVE  d2[p + 1] = ByteAt(rs2[k], p)
  <2>1. CASE Covers(new, p)
    BY <1>3, <1>5, <1>7, <2>1
  <2>2. CASE ~Covers(new, p)
    <3>1. PICK i \in DOMAIN rs : IsLastCover(rs, i, p) /\ rs[i] = rs2[k]
      BY <1>3, <1>5, <1>7, <2>2
    <3>2. d[p + 1] = ByteAt(rs[i], p)
      BY <3>1 DEF SectionInv
    <3> QED
      BY <1>3, <1>5, <2>2, <3>1, <3>2
  <2> QED
    BY <2>1, <2>2
<1>8. ASSUME NEW p \in Positions(s), ~Covered(rs2, p)
      PROVE  d2[p + 1] = InFile(s, p)
  <2>1. ~Covered(rs, p) /\ ~Covers(new, p)
    BY <1>3, <1>5, <1>8
  <2>2. d[p + 1] = InFile(s, p)
    BY <2>1 DEF SectionInv
  <2> QED
    BY <1>3, <1>5, <2>1, <2>2
<1>9. SectionInv(s, d2, rs2)
  BY <1>1, <1>3, <1>6, <1>7, <1>8 DEF SectionInv
<1> QED
  BY <1>3, <1>9 DEF d2, rs2

\* A section whose regions describe the file is as in the file: what is not
\* covered was never changed, and the newest region over a byte holds it.
LEMMA DescribedIsClean ==
  ASSUME NEW s \in Sections, NEW d, NEW rs, SectionInv(s, d, rs),
         \A i \in DOMAIN rs : \A p \in Positions(s) :
           IsLastCover(rs, i, p) => InFile(s, p) = ByteAt(rs[i], p)
  PROVE  \A p \in Positions(s) : d[p + 1] = InFile(s, p)
<1> SUFFICES ASSUME NEW p \in Positions(s) PROVE d[p + 1] = InFile(s, p)
  OBVIOUS
<1>1. CASE Covered(rs, p)
  <2>1. PICK m \in DOMAIN rs : IsLastCover(rs, m, p)
    <3>1. rs \in Seq(RegionOf(Byte))
      BY DEF SectionInv
    <3> QED
      BY <1>1, <3>1, LastCoverExists
  <2> QED
    BY <2>1 DEF SectionInv
<1>2. CASE ~Covered(rs, p)
  BY <1>2 DEF SectionInv
<1> QED
  BY <1>1, <1>2

-----------------------------------------------------------------------------
(***************************************************************************)
(* The inductive step, one lemma per action                                *)
(***************************************************************************)

\* The section conjuncts after a step that leaves the file alone.
LEMMA AssembleSections ==
  ASSUME file' = file,
         \A s \in Sections : SectionInv(s, data'[s], regions'[s])
  PROVE  /\ RegionsInSection' /\ NoNestedRegion'
         /\ NewestRegionWins' /\ UncoveredIsOnFile'
         /\ \A s \in Sections : Len(data'[s]) = Size[s]
<1>1. RegionsInSection'
  BY DEF RegionsInSection, SectionInv
<1>2. NoNestedRegion'
  BY DEF NoNestedRegion, SectionInv
<1>3. NewestRegionWins'
  BY DEF NewestRegionWins, SectionInv, InMemory
<1>4. UncoveredIsOnFile'
  BY DEF UncoveredIsOnFile, SectionInv, InMemory, InFile
<1> QED
  BY <1>1, <1>2, <1>3, <1>4 DEF SectionInv

\* Loading makes every section fresh and clean.
LEMMA LoadedSections ==
  ASSUME file \in Seq(Byte), Len(file) = FileSize, NEW s \in Sections
  PROVE  SectionInv(s, Loaded(file)[s], <<>>)
BY LoadedBytes, FreshSection

LEMMA InitIInv == Init => IInv
<1> SUFFICES ASSUME Init PROVE IInv
  OBVIOUS
<1>1. file \in Seq(Byte) /\ Len(file) = FileSize
  <2>1. file \in [1..FileSize -> Byte] /\ FileSize \in Nat
    BY LayoutAssumption DEF Init
  <2> QED
    BY <2>1, IsASeq, LenProperties
<1>2. /\ data = Loaded(file) /\ regions = [s \in Sections |-> <<>>]
      /\ binaryModified = FALSE /\ phase = "idle" /\ editor = NoEditor /\ at = Start
  BY DEF Init
<1>3. \A s \in Sections : regions[s] = <<>>
  BY <1>2
<1>4. TypeOK
  <2>1. data \in [Sections -> Seq(Byte)] /\ \A s \in Sections : Len(data[s]) = Size[s]
    BY <1>1, <1>2, LoadedBytes
  <2>2. regions \in [Sections -> Seq(RegionOf(Byte))]
    BY <1>2
  <2>3. editor \in [section : Sections, prior : Seq(RegionOf(Byte))]
    BY <1>2, LayoutAssumption DEF NoEditor, Sections
  <2>4. at \in (1..NSections + 1) \X (Nat \ {0})
    BY <1>2, LayoutAssumption DEF Start
  <2> QED
    BY <1>1, <1>2, <2>1, <2>2, <2>3, <2>4 DEF TypeOK, Phases
<1>5. \A s \in Sections : \A p \in Positions(s) : InMemory(s, p) = InFile(s, p)
  BY <1>1, <1>2, LoadedBytes DEF InMemory
<1>6. RegionsInSection /\ NoNestedRegion /\ NewestRegionWins /\ UncoveredIsOnFile
  BY <1>3, <1>5 DEF RegionsInSection, NoNestedRegion, NewestRegionWins, UncoveredIsOnFile
<1>7. DeadInv /\ EditorInv /\ SavingInv
  BY <1>2 DEF DeadInv, EditorInv, SavingInv
<1>8. FlagInv
  BY <1>5 DEF FlagInv, FlagIsSound, Clean
<1> QED
  BY <1>4, <1>6, <1>7, <1>8 DEF IInv

LEMMA LoadStep == ASSUME IInv, Load PROVE IInv'
<1>1. /\ data' = Loaded(file) /\ regions' = [s \in Sections |-> <<>>]
      /\ phase' = "idle" /\ binaryModified' = FALSE
      /\ file' = file /\ editor' = editor /\ at' = at
  BY DEF Load
<1>2. file \in Seq(Byte) /\ Len(file) = FileSize
  BY DEF IInv, TypeOK
<1>3. \A s \in Sections : SectionInv(s, data'[s], regions'[s])
  BY <1>1, <1>2, LoadedSections
<1>4. /\ RegionsInSection' /\ NoNestedRegion' /\ NewestRegionWins' /\ UncoveredIsOnFile'
      /\ \A s \in Sections : Len(data'[s]) = Size[s]
  BY <1>1, <1>3, AssembleSections
<1>5. TypeOK'
  <2>1. data' \in [Sections -> Seq(Byte)]
    BY <1>1, <1>2, LoadedBytes
  <2>2. regions' \in [Sections -> Seq(RegionOf(Byte))]
    BY <1>1
  <2> QED
    BY <1>1, <1>4, <2>1, <2>2 DEF IInv, TypeOK, Phases
<1>6. DeadInv' /\ EditorInv' /\ SavingInv'
  BY <1>1 DEF DeadInv, EditorInv, SavingInv
<1>7. FlagInv'
  <2>1. \A s \in Sections : \A p \in Positions(s) : data'[s][p + 1] = InFile(s, p)
    BY <1>1, <1>2, LoadedBytes
  <2> QED
    BY <1>1, <2>1 DEF FlagInv, FlagIsSound, Clean, InMemory, InFile
<1> QED
  BY <1>4, <1>5, <1>6, <1>7 DEF IInv

LEMMA CrashStep == ASSUME IInv, Crash PROVE IInv'
<1>1. /\ data' = [s \in Sections |-> <<>>] /\ regions' = [s \in Sections |-> <<>>]
      /\ phase' = "dead" /\ binaryModified' = FALSE
      /\ file' = file /\ editor' = NoEditor /\ at' = Start
  BY DEF Crash
<1>2. TypeOK'
  <2>1. editor' \in [section : Sections, prior : Seq(RegionOf(Byte))]
    BY <1>1, LayoutAssumption DEF NoEditor, Sections
  <2>2. at' \in (1..NSections + 1) \X (Nat \ {0})
    BY <1>1, LayoutAssumption DEF Start
  <2>3. data' \in [Sections -> Seq(Byte)] /\ regions' \in [Sections -> Seq(RegionOf(Byte))]
    BY <1>1
  <2> QED
    BY <1>1, <2>1, <2>2, <2>3 DEF IInv, TypeOK, Phases
<1>3. \A s \in Sections : regions'[s] = <<>>
  BY <1>1
<1>4. RegionsInSection' /\ NoNestedRegion' /\ NewestRegionWins' /\ DeadInv'
  BY <1>3 DEF RegionsInSection, NoNestedRegion, NewestRegionWins, DeadInv
<1>5. UncoveredIsOnFile' /\ EditorInv' /\ SavingInv' /\ FlagInv'
  BY <1>1 DEF UncoveredIsOnFile, EditorInv, SavingInv, FlagInv, FlagIsSound
<1> QED
  BY <1>2, <1>4, <1>5 DEF IInv

LEMMA OpenEditorStep == ASSUME IInv, NEW e \in Sections, OpenEditor(e) PROVE IInv'
<1>1. /\ phase = "idle" /\ phase' = "editing"
      /\ editor' = [section |-> e, prior |-> regions[e]]
      /\ data' = data /\ regions' = regions /\ file' = file
      /\ binaryModified' = binaryModified /\ at' = at
  BY DEF OpenEditor
<1>2. TypeOK'
  BY <1>1 DEF IInv, TypeOK, Phases
<1>3. RegionsInSection' /\ NoNestedRegion' /\ NewestRegionWins' /\ UncoveredIsOnFile'
  BY <1>1 DEF IInv, RegionsInSection, NoNestedRegion, NewestRegionWins,
              UncoveredIsOnFile, InMemory, InFile
<1>4. DeadInv' /\ SavingInv' /\ FlagInv'
  BY <1>1 DEF DeadInv, SavingInv, FlagInv, FlagIsSound
<1>5. EditorInv'
  <2> SUFFICES ASSUME ~binaryModified, ~WritesMayFail
               PROVE  /\ \A s \in Sections \ {e} : SectionClean(s)
                      /\ \A i \in DOMAIN regions[e] : \A p \in Positions(e) :
                           IsLastCover(regions[e], i, p) =>
                             InFile(e, p) = ByteAt(regions[e][i], p)
    BY <1>1 DEF EditorInv, SectionClean, InMemory, InFile
  <2>1. Clean
    BY <1>1 DEF IInv, FlagInv, FlagIsSound
  <2>2. \A i \in DOMAIN regions[e] : \A p \in Positions(e) :
          IsLastCover(regions[e], i, p) => InMemory(e, p) = ByteAt(regions[e][i], p)
    BY DEF IInv, NewestRegionWins
  <2> QED
    BY <2>1, <2>2 DEF Clean, SectionClean
<1> QED
  BY <1>2, <1>3, <1>4, <1>5 DEF IInv

LEMMA EditStep ==
  ASSUME IInv, NEW pos, NEW sub \in Seq(Byte), Edit(pos, sub)
  PROVE  IInv'
<1> DEFINE e == editor.section
           d2 == SubDataData(data[e], sub, pos)
           r2 == SubDataRegions(data[e], regions[e], sub, pos)
<1>1. /\ phase = "editing" /\ pos \in Positions(e) /\ pos + Len(sub) =< Size[e]
      /\ data' = [data EXCEPT ![e] = d2]
      /\ regions' = [regions EXCEPT ![e] = r2]
      /\ file' = file /\ binaryModified' = binaryModified /\ phase' = phase
      /\ editor' = editor /\ at' = at
  BY DEF Edit
<1>2. /\ e \in Sections
      /\ data \in [Sections -> Seq(Byte)]
      /\ regions \in [Sections -> Seq(RegionOf(Byte))]
  BY DEF IInv, TypeOK
<1>3. SectionInv(e, d2, r2)
  <2>1. SectionInv(e, data[e], regions[e])
    BY <1>1, <1>2, LiveSections
  <2> HIDE DEF e
  <2> QED
    BY <1>1, <1>2, <2>1, SubDataKeepsSectionInv
<1> HIDE DEF d2, r2
<1>4. ASSUME NEW s \in Sections PROVE SectionInv(s, data'[s], regions'[s])
  <2>1. CASE s = e
    BY <1>1, <1>2, <1>3, <2>1
  <2>2. CASE s # e
    <3>1. data'[s] = data[s] /\ regions'[s] = regions[s]
      BY <1>1, <1>2, <2>2
    <3>2. SectionInv(s, data[s], regions[s])
      BY <1>1, LiveSections
    <3> QED
      BY <3>1, <3>2
  <2> QED
    BY <2>1, <2>2
<1>5. /\ RegionsInSection' /\ NoNestedRegion' /\ NewestRegionWins' /\ UncoveredIsOnFile'
      /\ \A s \in Sections : Len(data'[s]) = Size[s]
  BY <1>1, <1>4, AssembleSections
<1>6. TypeOK'
  <2>1. d2 \in Seq(Byte) /\ r2 \in Seq(RegionOf(Byte))
    BY <1>3 DEF SectionInv
  <2>2. /\ data' \in [Sections -> Seq(Byte)]
        /\ regions' \in [Sections -> Seq(RegionOf(Byte))]
    BY <1>1, <1>2, <2>1
  <2> QED
    BY <1>1, <1>5, <2>2 DEF IInv, TypeOK
<1>7. DeadInv' /\ SavingInv' /\ FlagInv'
  BY <1>1 DEF DeadInv, SavingInv, FlagInv, FlagIsSound
<1>8. EditorInv'
  <2>1. \A s \in Sections \ {e} : data'[s] = data[s]
    BY <1>1, <1>2
  <2> QED
    BY <1>1, <2>1 DEF IInv, EditorInv, SectionClean, InMemory, InFile
<1> QED
  BY <1>5, <1>6, <1>7, <1>8 DEF IInv

LEMMA CloseEditorStep == ASSUME IInv, CloseEditor PROVE IInv'
<1> DEFINE e == editor.section
<1>1. /\ phase = "editing" /\ phase' = "idle" /\ editor' = NoEditor
      /\ data' = data /\ regions' = regions /\ file' = file /\ at' = at
      /\ binaryModified' =
           (binaryModified \/ (regions[e] # <<>> /\ regions[e] # editor.prior))
  BY DEF CloseEditor, CheckModified, IsModified
<1>2. TypeOK'
  <2>1. NoEditor \in [section : Sections, prior : Seq(RegionOf(Byte))]
    BY LayoutAssumption DEF NoEditor, Sections
  <2>2. binaryModified' \in BOOLEAN
    BY <1>1, Zenon DEF IInv, TypeOK
  <2> QED
    BY <1>1, <2>1, <2>2 DEF IInv, TypeOK, Phases
<1>3. RegionsInSection' /\ NoNestedRegion' /\ NewestRegionWins' /\ UncoveredIsOnFile'
  BY <1>1 DEF IInv, RegionsInSection, NoNestedRegion, NewestRegionWins,
              UncoveredIsOnFile, InMemory, InFile
<1>4. DeadInv' /\ SavingInv' /\ EditorInv'
  BY <1>1 DEF DeadInv, SavingInv, EditorInv
<1>5. FlagInv'
  <2> SUFFICES ASSUME ~binaryModified', ~WritesMayFail
               PROVE  \A s \in Sections : SectionClean(s)
    BY <1>1 DEF FlagInv, FlagIsSound, Clean, SectionClean, InMemory, InFile
  <2>1. ~binaryModified /\ (regions[e] = <<>> \/ regions[e] = editor.prior)
    BY <1>1
  <2>2. e \in Sections
    BY DEF IInv, TypeOK
  <2>3. SectionInv(e, data[e], regions[e])
    BY <1>1, <2>2, LiveSections
  <2>4. \A i \in DOMAIN regions[e] : \A p \in Positions(e) :
          IsLastCover(regions[e], i, p) => InFile(e, p) = ByteAt(regions[e][i], p)
    <3>1. CASE regions[e] = <<>>
      BY <3>1
    <3>2. CASE regions[e] = editor.prior
      BY <1>1, <2>1, <3>2 DEF IInv, EditorInv
    <3> QED
      BY <2>1, <3>1, <3>2
  <2>5. SectionClean(e)
    <3> HIDE DEF e
    <3> QED
      BY <2>2, <2>3, <2>4, DescribedIsClean DEF SectionClean, InMemory
  <2>6. \A s \in Sections \ {e} : SectionClean(s)
    BY <1>1, <2>1 DEF IInv, EditorInv
  <2> QED
    BY <2>5, <2>6
<1> QED
  BY <1>2, <1>3, <1>4, <1>5 DEF IInv

\* A write of one version, or none, in the middle of PatchVersions.
LEMMA PatchSlot ==
  ASSUME NEW s \in VersionSections, NEW d, NEW rs, SectionInv(s, d, rs),
         NEW v \in Seq(Byte), v = <<>> \/ Len(v) = VersionWidth,
         NEW pos \in {0, VersionWidth}
  PROVE  LET d2 == IF v = <<>> THEN d ELSE SubDataData(d, v, pos)
             r2 == IF v = <<>> THEN rs ELSE SubDataRegions(d, rs, v, pos)
         IN  SectionInv(s, d2, r2) /\ (v # <<>> \/ rs # <<>> => r2 # <<>>)
<1>1. CASE v = <<>>
  BY <1>1
<1>2. CASE v # <<>>
  <2>1. Len(v) = VersionWidth /\ VersionWidth \in Nat /\ VersionWidth # 0
    BY <1>2, LayoutAssumption, EmptySeq
  <2>2. s \in Sections /\ Size[s] = 2 * VersionWidth
    BY LayoutAssumption
  <2>3. pos \in Positions(s) /\ pos + Len(v) =< Size[s]
    BY <2>1, <2>2 DEF Positions
  <2> QED
    BY <1>2, <2>2, <2>3, SubDataKeepsSectionInv
<1> QED
  BY <1>1, <1>2

LEMMA PatchVersionsStep ==
  ASSUME IInv, NEW e \in VersionSections, NEW target \in Seq(Byte),
         NEW sdk \in Seq(Byte), PatchVersions(e, target, sdk)
  PROVE  IInv' /\ binaryModified'
<1> DEFINE d1 == IF target = <<>> THEN data[e] ELSE SubDataData(data[e], target, 0)
           r1 == IF target = <<>> THEN regions[e]
                 ELSE SubDataRegions(data[e], regions[e], target, 0)
           d2 == IF sdk = <<>> THEN d1 ELSE SubDataData(d1, sdk, VersionWidth)
           r2 == IF sdk = <<>> THEN r1 ELSE SubDataRegions(d1, r1, sdk, VersionWidth)
<1>1. /\ phase = "idle" /\ phase' = phase
      /\ target = <<>> \/ Len(target) = VersionWidth
      /\ sdk = <<>> \/ Len(sdk) = VersionWidth
      /\ target # <<>> \/ sdk # <<>>
      /\ data' = [data EXCEPT ![e] = d2]
      /\ regions' = [regions EXCEPT ![e] = r2]
      /\ file' = file /\ editor' = editor /\ at' = at
      /\ binaryModified' = (binaryModified \/ (r2 # <<>> /\ r2 # <<>>))
  BY DEF PatchVersions, CheckModified, IsModified
<1>2. /\ e \in Sections
      /\ data \in [Sections -> Seq(Byte)]
      /\ regions \in [Sections -> Seq(RegionOf(Byte))]
      /\ binaryModified \in BOOLEAN
  BY LayoutAssumption DEF IInv, TypeOK
<1>3. SectionInv(e, data[e], regions[e])
  BY <1>1, <1>2, LiveSections
<1>4. SectionInv(e, d1, r1) /\ (target # <<>> => r1 # <<>>)
  BY <1>1, <1>3, PatchSlot
<1> HIDE DEF d1, r1
<1>5. SectionInv(e, d2, r2) /\ r2 # <<>>
  BY <1>1, <1>4, PatchSlot
<1> HIDE DEF d2, r2
<1>6. binaryModified' = TRUE
  BY <1>1, <1>2, <1>5
<1>7. ASSUME NEW s \in Sections PROVE SectionInv(s, data'[s], regions'[s])
  <2>1. CASE s = e
    BY <1>1, <1>2, <1>5, <2>1
  <2>2. CASE s # e
    <3>1. data'[s] = data[s] /\ regions'[s] = regions[s]
      BY <1>1, <1>2, <2>2
    <3>2. SectionInv(s, data[s], regions[s])
      BY <1>1, LiveSections
    <3> QED
      BY <3>1, <3>2
  <2> QED
    BY <2>1, <2>2
<1>8. /\ RegionsInSection' /\ NoNestedRegion' /\ NewestRegionWins' /\ UncoveredIsOnFile'
      /\ \A s \in Sections : Len(data'[s]) = Size[s]
  BY <1>1, <1>7, AssembleSections
<1>9. TypeOK'
  <2>1. d2 \in Seq(Byte) /\ r2 \in Seq(RegionOf(Byte))
    BY <1>5 DEF SectionInv
  <2>2. /\ data' \in [Sections -> Seq(Byte)]
        /\ regions' \in [Sections -> Seq(RegionOf(Byte))]
    BY <1>1, <1>2, <2>1
  <2> QED
    BY <1>1, <1>6, <1>8, <2>2 DEF IInv, TypeOK
<1>10. DeadInv' /\ SavingInv' /\ FlagInv' /\ EditorInv'
  BY <1>1, <1>6 DEF DeadInv, SavingInv, FlagInv, FlagIsSound, EditorInv
<1> QED
  BY <1>6, <1>8, <1>9, <1>10 DEF IInv

LEMMA SaveBinaryStep == ASSUME IInv, SaveBinary PROVE IInv'
<1>1. /\ phase' = "saving" /\ at' = Start /\ binaryModified' = binaryModified
      /\ phase = "idle"
      /\ data' = data /\ regions' = regions /\ file' = file /\ editor' = editor
  BY DEF SaveBinary
<1>2. TypeOK'
  <2>1. at' \in (1..NSections + 1) \X (Nat \ {0})
    BY <1>1, LayoutAssumption DEF Start
  <2> QED
    BY <1>1, <2>1 DEF IInv, TypeOK, Phases
<1>3. RegionsInSection' /\ NoNestedRegion' /\ NewestRegionWins' /\ UncoveredIsOnFile'
  BY <1>1 DEF IInv, RegionsInSection, NoNestedRegion, NewestRegionWins,
              UncoveredIsOnFile, InMemory, InFile
<1>4. DeadInv' /\ EditorInv' /\ FlagInv'
  BY <1>1 DEF DeadInv, EditorInv, FlagInv, FlagIsSound
<1>5. SavingInv'
  <2> SUFFICES ASSUME NEW s \in Sections, NEW i \in DOMAIN regions[s],
                      s < 1 \/ (s = 1 /\ i < 1)
               PROVE  FALSE
    BY <1>1 DEF SavingInv, Start
  <2>1. s \in 1..NSections /\ NSections \in Nat
    BY LayoutAssumption DEF Sections
  <2>2. regions[s] \in Seq(RegionOf(Byte))
    BY DEF IInv, TypeOK
  <2>3. i \in 1..Len(regions[s])
    BY <2>2
  <2> QED
    BY <2>1, <2>3
<1> QED
  BY <1>2, <1>3, <1>4, <1>5 DEF IInv

\* What one region write does to the file: the bytes that were written, of the
\* region and no others, become those in memory; other sections do not feel it.
LEMMA WriteEffect ==
  ASSUME IInv, NEW n \in 0..FileSize, WriteRegion(n)
  PROVE  LET s == at[1]
             r == regions[s][at[2]]
         IN
         /\ s \in Sections /\ at[2] \in DOMAIN regions[s]
         /\ r.position + n =< EndOf(r)
         /\ ~WritesMayFail => r.position + n = EndOf(r)
         /\ file' \in Seq(Byte) /\ Len(file') = FileSize
         /\ \A b \in 1..FileSize :
              file'[b] = IF Offset[s] + r.position < b /\ b =< Offset[s] + r.position + n
                         THEN data[s][b - Offset[s]] ELSE file[b]
         /\ \A t \in Sections : \A p \in Positions(t) :
              InFile(t, p)' = IF t = s /\ r.position =< p /\ p < r.position + n
                              THEN InMemory(s, p) ELSE InFile(t, p)
<1> DEFINE s == at[1]
           r == regions[s][at[2]]
           pos == r.position
           m == Mid(data[s], pos, n)
<1>1. /\ phase = "saving" /\ s \in Sections /\ at[2] \in DOMAIN regions[s]
      /\ file' = Replace(file, Offset[s] + pos, m)
      /\ n =< SizeOf(r) /\ (n < SizeOf(r) => WritesMayFail)
  BY DEF WriteRegion
<1>2. SectionInv(s, data[s], regions[s])
  BY <1>1, LiveSections
<1>3. /\ Offset[s] \in Nat /\ Size[s] \in Nat /\ FileSize \in Nat
      /\ Offset[s] + Size[s] =< FileSize
  BY <1>1, LayoutAssumption
<1>4. /\ pos \in Nat /\ n \in Nat /\ pos + n =< Size[s]
      /\ pos + n =< EndOf(r) /\ (~WritesMayFail => pos + n = EndOf(r))
  <2>1. r \in RegionOf(Byte) /\ EndOf(r) =< Size[s]
    BY <1>1, <1>2 DEF SectionInv
  <2>2. r.position \in Nat /\ Len(r.bytes) \in Nat
    BY <2>1 DEF RegionOf
  <2>3. n \in Nat /\ n =< Len(r.bytes) /\ (~WritesMayFail => n = Len(r.bytes))
    BY <1>1, <1>3, <2>2 DEF SizeOf
  <2>4. EndOf(r) = r.position + Len(r.bytes)
    BY DEF EndOf, SizeOf
  <2> HIDE DEF s, r
  <2> QED
    BY <1>3, <2>1, <2>2, <2>3, <2>4
<1>5. data[s] \in Seq(Byte) /\ Len(data[s]) = Size[s]
  BY <1>2 DEF SectionInv
<1> HIDE DEF pos, r, s
<1>6. m \in Seq(Byte) /\ Len(m) = n /\ \A k \in 1..n : m[k] = data[s][pos + k]
  BY <1>4, <1>5, MidInside
<1>7. file \in Seq(Byte) /\ Len(file) = FileSize
  BY DEF IInv, TypeOK
<1> HIDE DEF m
<1>8. Offset[s] + pos \in Nat /\ (Offset[s] + pos) + Len(m) =< Len(file)
  BY <1>3, <1>4, <1>6, <1>7
<1>9. /\ file' \in Seq(Byte) /\ Len(file') = FileSize
      /\ \A b \in 1..FileSize :
           file'[b] = IF Offset[s] + pos < b /\ b =< (Offset[s] + pos) + Len(m)
                      THEN m[b - (Offset[s] + pos)] ELSE file[b]
  <2> DEFINE o == Offset[s] + pos
  <2>1. o \in Nat /\ o + Len(m) =< Len(file) /\ file' = Replace(file, o, m)
    BY <1>1, <1>8 DEF r, pos, s, m
  <2> HIDE DEF o
  <2>2. /\ Replace(file, o, m) \in Seq(Byte)
        /\ Len(Replace(file, o, m)) = Len(file)
        /\ \A b \in 1..Len(file) :
             Replace(file, o, m)[b] = IF o < b /\ b =< o + Len(m) THEN m[b - o] ELSE file[b]
    BY <1>6, <1>7, <2>1, ReplaceInside
  <2> QED
    BY <1>7, <2>1, <2>2 DEF o
<1>10. ASSUME NEW b \in 1..FileSize
       PROVE  file'[b] = IF Offset[s] + pos < b /\ b =< Offset[s] + pos + n
                         THEN data[s][b - Offset[s]] ELSE file[b]
  <2>1. CASE Offset[s] + pos < b /\ b =< Offset[s] + pos + n
    <3> DEFINE k == b - (Offset[s] + pos)
    <3>1. k \in 1..n /\ pos + k = b - Offset[s]
      BY <1>3, <1>4, <2>1
    <3>2. b =< (Offset[s] + pos) + Len(m)
      BY <1>3, <1>4, <1>6, <2>1
    <3>3. file'[b] = m[k]
      BY <1>9, <2>1, <3>2
    <3> QED
      BY <1>6, <2>1, <3>1, <3>3
  <2>2. CASE ~(Offset[s] + pos < b /\ b =< Offset[s] + pos + n)
    <3>1. ~(Offset[s] + pos < b /\ b =< (Offset[s] + pos) + Len(m))
      BY <1>3, <1>4, <1>6, <2>2
    <3> QED
      BY <1>9, <2>2, <3>1
  <2> QED
    BY <2>1, <2>2
<1>11. ASSUME NEW t \in Sections, NEW p \in Positions(t)
       PROVE  InFile(t, p)' = IF t = s /\ pos =< p /\ p < pos + n
                              THEN InMemory(s, p) ELSE InFile(t, p)
  <2> DEFINE b == Offset[t] + p + 1
  <2>1. /\ Offset[t] \in Nat /\ Size[t] \in Nat /\ Offset[t] + Size[t] =< FileSize
        /\ p \in Nat /\ p < Size[t]
    BY LayoutAssumption DEF Positions
  <2>2. b \in 1..FileSize
    BY <1>3, <2>1
  <2>3. InFile(t, p)' = file'[b] /\ InFile(t, p) = file[b]
    BY DEF InFile
  <2>4. CASE t = s
    <3>1. pos =< p /\ p < pos + n <=> Offset[s] + pos < b /\ b =< Offset[s] + pos + n
      BY <1>3, <1>4, <2>1, <2>4
    <3>2. b - Offset[s] = p + 1
      BY <1>3, <2>1, <2>4
    <3> HIDE DEF b
    <3> QED
      BY <1>10, <2>2, <2>3, <2>4, <3>1, <3>2 DEF InMemory
  <2>5. CASE t # s
    <3>1. Offset[s] + Size[s] =< Offset[t] \/ Offset[t] + Size[t] =< Offset[s]
      BY <1>1, <2>5, LayoutAssumption
    <3>2. ~(Offset[s] + pos < b /\ b =< Offset[s] + pos + n)
      BY <1>3, <1>4, <2>1, <3>1
    <3> HIDE DEF b
    <3> QED
      BY <1>10, <2>2, <2>3, <2>5, <3>2
  <2> QED
    BY <2>4, <2>5
<1> QED
  BY <1>1, <1>4, <1>9, <1>10, <1>11 DEF pos, r, s

LEMMA WriteRegionStep == ASSUME IInv, NEW n \in 0..FileSize, WriteRegion(n) PROVE IInv'
<1> DEFINE s == at[1]
           r == regions[s][at[2]]
<1>1. /\ phase = "saving" /\ phase' = phase
      /\ data' = data /\ regions' = regions /\ editor' = editor
      /\ binaryModified' = binaryModified /\ at' = <<s, at[2] + 1>>
  BY DEF WriteRegion
<1>2. /\ s \in Sections /\ at[2] \in DOMAIN regions[s]
      /\ file' \in Seq(Byte) /\ Len(file') = FileSize
      /\ \A t \in Sections : \A p \in Positions(t) :
           InFile(t, p)' = IF t = s /\ r.position =< p /\ p < r.position + n
                           THEN InMemory(s, p) ELSE InFile(t, p)
      /\ r.position + n =< EndOf(r)
      /\ ~WritesMayFail => r.position + n = EndOf(r)
  BY WriteEffect
<1>9. r.position \in Nat /\ EndOf(r) \in Int /\ n \in Nat
  <2>1. r \in RegionOf(Byte)
    BY <1>2 DEF IInv, TypeOK
  <2>2. r.position \in Nat /\ Len(r.bytes) \in Nat
    BY <2>1 DEF RegionOf
  <2>3. FileSize \in Nat
    BY LayoutAssumption
  <2> QED
    BY <2>2, <2>3 DEF EndOf, SizeOf
<1>3. at \in (1..NSections + 1) \X (Nat \ {0})
  BY DEF IInv, TypeOK
<1>4. TypeOK'
  <2>1. at' \in (1..NSections + 1) \X (Nat \ {0})
    BY <1>1, <1>3
  <2> QED
    BY <1>1, <1>2, <2>1 DEF IInv, TypeOK
<1>5. RegionsInSection' /\ NoNestedRegion' /\ NewestRegionWins'
  BY <1>1 DEF IInv, RegionsInSection, NoNestedRegion, NewestRegionWins, InMemory
<1>6. DeadInv' /\ EditorInv' /\ FlagInv'
  BY <1>1 DEF DeadInv, EditorInv, FlagInv, FlagIsSound
<1>7. UncoveredIsOnFile'
  <2> SUFFICES ASSUME NEW t \in Sections, NEW p \in Positions(t), ~Covered(regions[t], p)
               PROVE  InMemory(t, p) = InFile(t, p)'
    BY <1>1 DEF UncoveredIsOnFile, InMemory
  <2>1. ~(t = s /\ r.position =< p /\ p < EndOf(r))
    BY <1>2 DEF Covered, Covers
  <2>2. ~(t = s /\ r.position =< p /\ p < r.position + n)
    <3>1. p \in Int
      BY LayoutAssumption DEF Positions
    <3> HIDE DEF r
    <3> QED
      BY <1>2, <1>9, <2>1, <3>1
  <2>3. InFile(t, p)' = InFile(t, p)
    BY <1>2, <2>2
  <2> QED
    BY <1>1, <2>3 DEF IInv, UncoveredIsOnFile
<1>8. SavingInv'
  <2> SUFFICES ASSUME ~WritesMayFail,
                      NEW t \in Sections, NEW i \in DOMAIN regions[t], NEW p \in Positions(t),
                      t < s \/ (t = s /\ i < at[2] + 1), Covers(regions[t][i], p)
               PROVE  InMemory(t, p) = InFile(t, p)'
    BY <1>1 DEF SavingInv, InMemory
  <2>1. CASE t = s /\ Covers(r, p)
    BY <1>2, <2>1 DEF Covers
  <2>2. CASE ~(t = s /\ Covers(r, p))
    <3>1. InFile(t, p)' = InFile(t, p)
      BY <1>2, <2>2 DEF Covers
    <3>2. i \in Int /\ at[2] \in Int
      <4>1. regions[t] \in Seq(RegionOf(Byte))
        BY DEF IInv, TypeOK
      <4>2. i \in 1..Len(regions[t])
        BY <4>1
      <4> QED
        BY <1>3, <4>2
    <3>3. t < s \/ (t = s /\ i < at[2])
      <4>1. ~(t = s /\ i = at[2])
        BY <2>2
      <4> HIDE DEF s
      <4> QED
        BY <3>2, <4>1
    <3> QED
      BY <1>1, <3>1, <3>3 DEF IInv, SavingInv
  <2> QED
    BY <2>1, <2>2
<1> QED
  BY <1>4, <1>5, <1>6, <1>7, <1>8 DEF IInv

LEMMA NextSectionStep == ASSUME IInv, NextSection PROVE IInv'
<1>1. /\ phase = "saving" /\ phase' = phase /\ binaryModified' = binaryModified
      /\ data' = data /\ regions' = regions /\ file' = file /\ editor' = editor
      /\ at[1] \in Sections /\ at[2] \notin DOMAIN regions[at[1]]
      /\ at' = <<at[1] + 1, 1>>
  BY DEF NextSection
<1>2. at \in (1..NSections + 1) \X (Nat \ {0})
  BY DEF IInv, TypeOK
<1>3. TypeOK'
  <2>1. at' \in (1..NSections + 1) \X (Nat \ {0})
    <3>1. NSections \in Nat
      BY LayoutAssumption
    <3>2. at[1] + 1 \in 1..NSections + 1
      BY <1>1, <3>1 DEF Sections
    <3> QED
      BY <1>1, <3>2
  <2> QED
    BY <1>1, <2>1 DEF IInv, TypeOK
<1>4. RegionsInSection' /\ NoNestedRegion' /\ NewestRegionWins' /\ UncoveredIsOnFile'
  BY <1>1 DEF IInv, RegionsInSection, NoNestedRegion, NewestRegionWins,
              UncoveredIsOnFile, InMemory, InFile
<1>5. DeadInv' /\ EditorInv' /\ FlagInv'
  BY <1>1 DEF DeadInv, EditorInv, FlagInv, FlagIsSound
<1>6. SavingInv'
  <2> SUFFICES ASSUME ~WritesMayFail,
                      NEW s \in Sections, NEW i \in DOMAIN regions[s], NEW p \in Positions(s),
                      s < at[1] + 1 \/ (s = at[1] + 1 /\ i < 1), Covers(regions[s][i], p)
               PROVE  InMemory(s, p) = InFile(s, p)
    BY <1>1 DEF SavingInv, InMemory, InFile
  <2>1. s \in Int /\ at[1] \in Int /\ at[2] \in Nat \ {0}
    BY <1>1, <1>2 DEF Sections
  <2>2. /\ regions[s] \in Seq(RegionOf(Byte))
        /\ DOMAIN regions[s] = 1..Len(regions[s]) /\ Len(regions[s]) \in Nat
    BY DEF IInv, TypeOK
  <2>3. i \in Int /\ ~(i < 1)
    BY <2>2
  <2>4. s < at[1] \/ (s = at[1] /\ i < at[2])
    <3>1. CASE s = at[1]
      <4>1. at[2] \notin 1..Len(regions[s])
        BY <1>1, <2>2, <3>1
      <4> QED
        BY <2>1, <2>2, <3>1, <4>1
    <3>2. CASE s # at[1]
      BY <2>1, <2>3, <3>2
    <3> QED
      BY <3>1, <3>2
  <2> QED
    BY <1>1, <2>4 DEF IInv, SavingInv
<1> QED
  BY <1>3, <1>4, <1>5, <1>6 DEF IInv

\* When the cursor has passed the last section, memory and file agree.
LEMMA SavedIsClean ==
  ASSUME IInv, ~WritesMayFail, phase = "saving", at[1] \notin Sections
  PROVE  Clean
<1> SUFFICES ASSUME NEW s \in Sections, NEW p \in Positions(s)
             PROVE  InMemory(s, p) = InFile(s, p)
  BY DEF Clean
<1>1. s < at[1]
  <2>1. at[1] \in 1..NSections + 1 /\ NSections \in Nat
    BY LayoutAssumption DEF IInv, TypeOK
  <2> QED
    BY <2>1 DEF Sections
<1>2. CASE Covered(regions[s], p)
  BY <1>1, <1>2 DEF IInv, SavingInv, Covered
<1>3. CASE ~Covered(regions[s], p)
  BY <1>3 DEF IInv, UncoveredIsOnFile
<1> QED
  BY <1>2, <1>3

LEMMA SaveDoneStep == ASSUME IInv, SaveDone PROVE IInv'
<1>1. /\ phase = "saving" /\ phase' = "idle" /\ binaryModified' = FALSE
      /\ data' = data /\ regions' = regions /\ file' = file /\ editor' = editor
      /\ at[1] \notin Sections /\ at' = Start
  BY DEF SaveDone
<1>2. TypeOK'
  <2>1. at' \in (1..NSections + 1) \X (Nat \ {0})
    BY <1>1, LayoutAssumption DEF Start
  <2> QED
    BY <1>1, <2>1 DEF IInv, TypeOK, Phases
<1>3. RegionsInSection' /\ NoNestedRegion' /\ NewestRegionWins' /\ UncoveredIsOnFile'
  BY <1>1 DEF IInv, RegionsInSection, NoNestedRegion, NewestRegionWins,
              UncoveredIsOnFile, InMemory, InFile
<1>4. DeadInv' /\ EditorInv' /\ SavingInv'
  BY <1>1 DEF DeadInv, EditorInv, SavingInv
<1>5. FlagInv'
  BY <1>1, SavedIsClean DEF FlagInv, FlagIsSound, Clean, InMemory, InFile
<1> QED
  BY <1>2, <1>3, <1>4, <1>5 DEF IInv

-----------------------------------------------------------------------------
(***************************************************************************)
(* The theorems                                                            *)
(***************************************************************************)

\* The members of SubsUpTo(n) are byte arrays.
LEMMA SubsAreSequences ==
  ASSUME NEW n, NEW sub \in SubsUpTo(n)
  PROVE  sub \in Seq(Byte)
<1>1. PICK m \in 0..n : sub \in [1..m -> Byte]
  BY DEF SubsUpTo
<1>2. m \in Nat
  BY <1>1
<1> QED
  BY <1>1, <1>2, IsASeq

\* So is a version, whether it was changed or not.
LEMMA VersionsAreSequences ==
  ASSUME NEW v \in {<<>>} \cup [1..VersionWidth -> Byte]
  PROVE  v \in Seq(Byte)
<1>1. VersionWidth \in Nat
  BY LayoutAssumption
<1>2. CASE v = <<>>
  BY <1>2
<1>3. CASE v \in [1..VersionWidth -> Byte]
  BY <1>1, <1>3, IsASeq
<1> QED
  BY <1>2, <1>3

LEMMA StepKeepsIInv == IInv /\ [Next]_vars => IInv'
<1> SUFFICES ASSUME IInv, [Next]_vars PROVE IInv'
  OBVIOUS
<1>1. CASE Load
  BY <1>1, LoadStep
<1>2. CASE Crash
  BY <1>2, CrashStep
<1>3. CASE \E s \in Sections : OpenEditor(s)
  BY <1>3, OpenEditorStep
<1>4. CASE EditSome
  BY <1>4, EditStep, SubsAreSequences DEF EditSome
<1>5. CASE CloseEditor
  BY <1>5, CloseEditorStep
<1>6. CASE PatchSome
  <2>1. PICK s \in VersionSections,
             target \in {<<>>} \cup [1..VersionWidth -> Byte],
             sdk \in {<<>>} \cup [1..VersionWidth -> Byte] :
          PatchVersions(s, target, sdk)
    BY <1>6 DEF PatchSome
  <2>2. target \in Seq(Byte) /\ sdk \in Seq(Byte)
    BY VersionsAreSequences
  <2> QED
    BY <2>1, <2>2, PatchVersionsStep
<1>7. CASE SaveBinary
  BY <1>7, SaveBinaryStep
<1>8. CASE WriteSome
  BY <1>8, WriteRegionStep DEF WriteSome
<1>9. CASE NextSection
  BY <1>9, NextSectionStep
<1>10. CASE SaveDone
  BY <1>10, SaveDoneStep
<1>11. CASE UNCHANGED vars
  BY <1>11 DEF vars, IInv, TypeOK, DeadInv, RegionsInSection, NoNestedRegion,
     NewestRegionWins, UncoveredIsOnFile, EditorInv, SavingInv, FlagInv, FlagIsSound,
     Clean, SectionClean, InMemory, InFile
<1> QED
  BY <1>1, <1>2, <1>3, <1>4, <1>5, <1>6, <1>7, <1>8, <1>9, <1>10, <1>11 DEF Next, SaveStep

\* The invariant behind everything else holds in every reachable state.
THEOREM Invariance == Spec => []IInv
BY InitIInv, StepKeepsIInv, PTL DEF Spec

\* Every variable keeps its type, and the data of a section its size.
THEOREM TypeCorrect == Spec => []TypeOK
<1>1. IInv => TypeOK
  BY DEF IInv
<1> QED
  BY <1>1, Invariance, PTL

\* No pruning of the region list ever loses track of a changed byte.
THEOREM EditsAreCovered == Spec => []UncoveredIsOnFile
<1>1. IInv => UncoveredIsOnFile
  BY DEF IInv
<1> QED
  BY <1>1, Invariance, PTL

\* The region list always describes the data it covers.
THEOREM RegionsDescribeData == Spec => []NewestRegionWins
<1>1. IInv => NewestRegionWins
  BY DEF IInv
<1> QED
  BY <1>1, Invariance, PTL

\* As long as writes do what they are told, memory and file agree whenever the
\* save action is disabled.
THEOREM SaveFlagIsSound == ASSUME ~WritesMayFail PROVE Spec => []FlagIsSound
<1>1. IInv => FlagIsSound
  BY DEF IInv, FlagInv
<1> QED
  BY <1>1, Invariance, PTL

\* Pruning leaves no region inside a newer one, however long the session.
THEOREM NoRegionIsRedundant == Spec => []NoNestedRegion
<1>1. IInv => NoNestedRegion
  BY DEF IInv
<1> QED
  BY <1>1, Invariance, PTL

-----------------------------------------------------------------------------
(***************************************************************************)
(* What a step may write                                                   *)
(***************************************************************************)

\* Only a region write touches the file.
LEMMA OnlyWriteRegionWrites ==
  ASSUME [Next]_vars, ~WriteSome
  PROVE  file' = file
BY DEF Next, SaveStep, vars, Load, Crash, OpenEditor, EditSome, Edit, CloseEditor, PatchSome,
       PatchVersions, SaveBinary, NextSection, SaveDone

\* The file only ever takes bytes of memory that a region covers, and only
\* while the write-back runs.
THEOREM WritesAreEdits == Spec => WritesOnlyEdits
<1> DEFINE A == \A b \in 1..FileSize :
                  file'[b] # file[b] =>
                    /\ phase = "saving"
                    /\ \E s \in Sections : \E p \in Positions(s) :
                         /\ b = Offset[s] + p + 1
                         /\ Covered(regions[s], p)
                         /\ file'[b] = InMemory(s, p)
<1>1. IInv /\ [Next]_vars => A
  <2> SUFFICES ASSUME IInv, [Next]_vars, NEW b \in 1..FileSize, file'[b] # file[b]
               PROVE  /\ phase = "saving"
                      /\ \E s \in Sections : \E p \in Positions(s) :
                           /\ b = Offset[s] + p + 1
                           /\ Covered(regions[s], p)
                           /\ file'[b] = InMemory(s, p)
    OBVIOUS
  <2>1. PICK n \in 0..FileSize : WriteRegion(n)
    BY OnlyWriteRegionWrites DEF WriteSome
  <2> DEFINE s == at[1]
             r == regions[s][at[2]]
             p == b - Offset[s] - 1
  <2>2. phase = "saving"
    BY <2>1 DEF WriteRegion
  <2>3. /\ s \in Sections /\ at[2] \in DOMAIN regions[s]
        /\ file'[b] = IF Offset[s] + r.position < b /\ b =< Offset[s] + r.position + n
                      THEN data[s][b - Offset[s]] ELSE file[b]
        /\ r.position + n =< EndOf(r)
    BY <2>1, WriteEffect
  <2>4. /\ Offset[s] + r.position < b /\ b =< Offset[s] + r.position + n
        /\ file'[b] = data[s][b - Offset[s]]
    BY <2>3
  <2>5. SectionInv(s, data[s], regions[s])
    BY <2>2, <2>3, LiveSections
  <2>6. Offset[s] \in Nat /\ Size[s] \in Nat /\ FileSize \in Nat
    BY <2>3, LayoutAssumption
  <2>7. r.position \in Nat /\ EndOf(r) \in Int /\ EndOf(r) =< Size[s]
    <3>1. r \in RegionOf(Byte) /\ EndOf(r) =< Size[s]
      BY <2>3, <2>5 DEF SectionInv
    <3>2. r.position \in Nat /\ Len(r.bytes) \in Nat
      BY <3>1 DEF RegionOf
    <3> QED
      BY <3>1, <3>2 DEF EndOf, SizeOf
  <2> HIDE DEF s, r
  <2>8. /\ p \in Positions(s) /\ b = Offset[s] + p + 1 /\ p + 1 = b - Offset[s]
        /\ r.position =< p /\ p < EndOf(r)
    BY <2>3, <2>4, <2>6, <2>7 DEF Positions
  <2> HIDE DEF p
  <2>9. Covered(regions[s], p)
    BY <2>3, <2>8 DEF Covered, Covers, r
  <2>10. file'[b] = InMemory(s, p)
    BY <2>4, <2>8 DEF InMemory
  <2> QED
    BY <2>2, <2>3, <2>8, <2>9, <2>10
<1>2. IInv /\ [Next]_vars => [A]_vars
  BY <1>1
<1>3. [][Next]_vars /\ []IInv => [][A]_vars
  BY <1>2, PTL
<1> QED
  BY <1>3, Invariance DEF Spec, WritesOnlyEdits

-----------------------------------------------------------------------------
(***************************************************************************)
(* BinaryEdit implements WriteBack                                         *)
(***************************************************************************)
Contents == DiskOf \in [Cells -> Byte] /\ DocOf \in [Cells -> Byte]

LEMMA ContentsAreBytes == IInv => Contents
<1> SUFFICES ASSUME IInv PROVE Contents
  OBVIOUS
<1>1. ASSUME NEW c \in Cells
      PROVE  /\ InFile(c[1], c[2]) \in Byte
             /\ phase # "dead" => InMemory(c[1], c[2]) \in Byte
  <2>1. c[1] \in Sections /\ c[2] \in Nat /\ c[2] < Size[c[1]]
    BY LayoutAssumption DEF Cells
  <2>2. /\ Offset[c[1]] \in Nat /\ Size[c[1]] \in Nat /\ FileSize \in Nat
        /\ Offset[c[1]] + Size[c[1]] =< FileSize
    BY <2>1, LayoutAssumption
  <2>3. Offset[c[1]] + c[2] + 1 \in 1..FileSize /\ c[2] + 1 \in 1..Size[c[1]]
    BY <2>1, <2>2
  <2>4. file \in Seq(Byte) /\ Len(file) = FileSize
    BY DEF IInv, TypeOK
  <2>5. phase # "dead" => data[c[1]] \in Seq(Byte) /\ Len(data[c[1]]) = Size[c[1]]
    BY <2>1 DEF IInv, TypeOK
  <2>6. InFile(c[1], c[2]) \in Byte
    BY <2>3, <2>4 DEF InFile
  <2> QED
    BY <2>3, <2>5, <2>6 DEF InMemory
<1> QED
  BY <1>1 DEF Contents, DiskOf, DocOf

\* Where memory and file agree, so do document and disk.
LEMMA CleanIsFlushed == Clean => DocOf = DiskOf
<1> SUFFICES ASSUME Clean PROVE DocOf = DiskOf
  OBVIOUS
<1>1. \A c \in Cells : InMemory(c[1], c[2]) = InFile(c[1], c[2])
  <2> SUFFICES ASSUME NEW c \in Cells PROVE InMemory(c[1], c[2]) = InFile(c[1], c[2])
    OBVIOUS
  <2>1. c[1] \in Sections /\ c[2] \in Nat /\ c[2] < Size[c[1]] /\ Size[c[1]] \in Nat
    BY LayoutAssumption DEF Cells
  <2>2. c[2] \in Positions(c[1])
    BY <2>1 DEF Positions
  <2> QED
    BY <2>1, <2>2 DEF Clean
<1> QED
  BY <1>1 DEF DocOf, DiskOf

\* A loaded section is clean.
LEMMA LoadedIsClean ==
  ASSUME file \in Seq(Byte), Len(file) = FileSize, data = Loaded(file)
  PROVE  Clean
BY LoadedBytes DEF Clean, InMemory

LEMMA InitRefines == Init => WB!Init
<1> SUFFICES ASSUME Init PROVE WB!Init
  OBVIOUS
<1>1. DiskOf \in [Cells -> Byte]
  BY InitIInv, ContentsAreBytes DEF Contents
<1>2. DocOf = DiskOf
  BY InitIInv, LoadedIsClean, CleanIsFlushed DEF Init, IInv, TypeOK
<1>3. SavedOf = TRUE
  BY DEF Init, SavedOf
<1> QED
  BY <1>1, <1>2, <1>3 DEF WB!Init

\* The abstract step that each action is.
LEMMA StepRefines ==
  ASSUME ~WritesMayFail, IInv, IInv', Contents, Contents', (Clean => DocOf = DiskOf)', [Next]_vars
  PROVE  [WB!Next]_(WB!vars)
<1>1. ASSUME Load \/ Crash PROVE WB!Reopen
  <2>1. /\ file' = file
        /\ phase' = "dead" \/ (phase' = "idle" /\ data' = Loaded(file))
    BY <1>1 DEF Load, Crash
  <2>2. DiskOf' = DiskOf
    BY <2>1 DEF DiskOf, InFile
  <2>3. DocOf' = DiskOf
    <3>1. CASE phase' = "dead"
      BY <2>1, <3>1 DEF DocOf, DiskOf, InFile
    <3>2. CASE phase' = "idle" /\ data' = Loaded(file)
      <4>1. file \in Seq(Byte) /\ Len(file) = FileSize
        BY DEF IInv, TypeOK
      <4>2. Clean'
        BY <2>1, <3>2, <4>1, LoadedBytes DEF Clean, InMemory, InFile
      <4> QED
        BY <2>2, <4>2
    <3> QED
      BY <2>1, <3>1, <3>2
  <2>4. SavedOf' \in BOOLEAN
    BY DEF SavedOf
  <2> QED
    BY <2>2, <2>3, <2>4 DEF WB!Reopen
<1>2. ASSUME file' = file, ~SavedOf' PROVE WB!Change
  <2>1. DiskOf' = DiskOf
    BY <1>2 DEF DiskOf, InFile
  <2>2. SavedOf' = FALSE
    BY <1>2 DEF SavedOf
  <2> QED
    BY <2>1, <2>2 DEF WB!Change, Contents
<1>3. ASSUME \E s \in Sections : OpenEditor(s) PROVE file' = file /\ ~SavedOf'
  BY <1>3 DEF OpenEditor, SavedOf
<1>4. ASSUME EditSome PROVE file' = file /\ ~SavedOf'
  BY <1>4 DEF EditSome, Edit, SavedOf
<1>5. ASSUME PatchSome PROVE file' = file /\ ~SavedOf'
  <2>1. PICK s \in VersionSections,
             target \in {<<>>} \cup [1..VersionWidth -> Byte],
             sdk \in {<<>>} \cup [1..VersionWidth -> Byte] :
          PatchVersions(s, target, sdk)
    BY <1>5 DEF PatchSome
  <2>2. target \in Seq(Byte) /\ sdk \in Seq(Byte)
    BY VersionsAreSequences
  <2>3. binaryModified'
    BY <2>1, <2>2, PatchVersionsStep
  <2> QED
    BY <2>1, <2>3 DEF PatchVersions, SavedOf
<1>6. ASSUME data' = data, regions' = regions, file' = file, phase # "dead", phase' # "dead"
      PROVE  DocOf' = DocOf /\ DiskOf' = DiskOf
  BY <1>6 DEF DocOf, DiskOf, InFile, InMemory
<1>7. ASSUME CloseEditor \/ SaveDone PROVE WB!Commit \/ UNCHANGED WB!vars
  <2>1. /\ data' = data /\ regions' = regions /\ file' = file
        /\ phase \in {"editing", "saving"} /\ phase' = "idle"
    BY <1>7 DEF CloseEditor, SaveDone
  <2>2. DocOf' = DocOf /\ DiskOf' = DiskOf /\ SavedOf = FALSE
    BY <1>6, <2>1 DEF SavedOf
  <2>3. CASE SavedOf'
    <3>1. Clean'
      BY <2>3 DEF IInv, FlagInv, FlagIsSound, SavedOf
    <3>2. DocOf = DiskOf /\ SavedOf' = TRUE
      BY <2>2, <2>3, <3>1 DEF SavedOf
    <3> QED
      BY <2>2, <3>2 DEF WB!Commit
  <2>4. CASE ~SavedOf'
    <3>1. SavedOf' = FALSE
      BY <2>4 DEF SavedOf
    <3> QED
      BY <2>2, <3>1 DEF WB!vars
  <2> QED
    BY <2>3, <2>4
<1>8. ASSUME SaveBinary \/ NextSection PROVE UNCHANGED WB!vars
  <2>1. /\ data' = data /\ regions' = regions /\ file' = file
        /\ phase # "dead" /\ phase' = "saving"
        /\ SavedOf = FALSE
    BY <1>8 DEF SaveBinary, NextSection, SavedOf
  <2>2. SavedOf' = FALSE
    BY <2>1 DEF SavedOf
  <2> QED
    BY <1>6, <2>1, <2>2 DEF WB!vars
<1>9. ASSUME NEW n \in 0..FileSize, WriteRegion(n) PROVE WB!Flush
  <2>1. /\ phase = "saving" /\ phase' = "saving" /\ data' = data
    BY <1>9 DEF WriteRegion
  <2>2. SavedOf = FALSE /\ SavedOf' = FALSE
    BY <2>1 DEF SavedOf
  <2>3. DocOf' = DocOf
    BY <2>1 DEF DocOf, InMemory
  <2>4. ASSUME NEW c \in Cells PROVE DiskOf'[c] \in {DiskOf[c], DocOf[c]}
    <3>1. c[1] \in Sections /\ c[2] \in Nat /\ c[2] < Size[c[1]] /\ Size[c[1]] \in Nat
      BY LayoutAssumption DEF Cells
    <3>2. c[2] \in Positions(c[1])
      BY <3>1 DEF Positions
    <3>3. InFile(c[1], c[2])' \in {InFile(c[1], c[2]), InMemory(c[1], c[2])}
      BY <1>9, <3>1, <3>2, WriteEffect
    <3> QED
      BY <2>1, <3>3 DEF DiskOf, DocOf
  <2> QED
    BY <2>2, <2>3, <2>4 DEF WB!Flush, Contents
<1>10. ASSUME UNCHANGED vars PROVE UNCHANGED WB!vars
  BY <1>10 DEF vars, WB!vars, DocOf, DiskOf, SavedOf, InFile, InMemory
<1> QED
  BY <1>1, <1>2, <1>3, <1>4, <1>5, <1>7, <1>8, <1>9, <1>10 DEF Next, SaveStep, WriteSome, WB!Next

\* Whatever the layout of the binary and the history of edits, saves, reloads
\* and crashes, the save action is disabled only when every edit is on disk;
\* again as long as writes do what they are told.
THEOREM ImplementsWriteBack == ASSUME ~WritesMayFail PROVE Spec => RefinesWriteBack
<1>1. Init => WB!Init
  BY InitRefines
<1>2. IInv /\ IInv' /\ Contents /\ Contents' /\ (Clean => DocOf = DiskOf)' /\ [Next]_vars
        => [WB!Next]_(WB!vars)
  BY StepRefines
<1> QED
  BY <1>1, <1>2, Invariance, ContentsAreBytes, CleanIsFlushed, PTL
     DEF Spec, RefinesWriteBack, WB!Spec
=============================================================================
