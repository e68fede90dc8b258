------------------------ MODULE ProjectRegions_proofs ------------------------
(***************************************************************************)
(* ProjectRegions for every layout of sections and objects, every set of   *)
(* bytes and lists of every length.  PInv says what the sections are while *)
(* they are on show and how far applyModifiedRegions has come; that what   *)
(* is attached is of one moment is part of it, for regions overlap and the *)
(* loop must not take back what it has restored.                           *)
(***************************************************************************)
EXTENDS ProjectRegions, Regions_proofs

\* What holds of a section outside "closed", for data d and regions rs: the
\* regions lie inside, and a byte none of them covers is that of the file.
SectionInv(s, d, rs) ==
  /\ d \in Seq(Byte) /\ Len(d) = Size[s]
  /\ rs \in Seq(RegionOf(Byte))
  /\ \A i \in DOMAIN rs : rs[i].position \in Positions(s) /\ EndOf(rs[i]) =< Size[s]
  /\ \A p \in Positions(s) : ~Covered(rs, p) => d[p + 1] = InFile(s, p)

SectionsInv == phase # "closed" => \A s \in Sections : SectionInv(s, data[s], regions[s])

\* The region at a is in section s.
Restored(s, a) == Mid(data[s], a - Offset[s], Len(attached.map[a])) = attached.map[a]

\* The rounds of the loop that are over have put back what fits, for good.
LoopInv ==
  /\ phase # "applying" => todo = {}
  /\ phase = "applying" =>
       \A s \in shown : \A a \in DOMAIN attached.map :
         <<s, a>> \notin todo /\ Fits(s, a) => Restored(s, a)

\* The inductive invariant.
PInv ==
  /\ TypeOK
  /\ SectionsInv
  /\ phase = "choosing" => ~Differs
  /\ AttachedIsSnapshot
  /\ RestoresOnlySaved
  /\ FlagIsSound
  /\ LoopInv

-----------------------------------------------------------------------------
(***************************************************************************)
(* Addresses and bytes                                                     *)
(***************************************************************************)

\* Sections lie apart: an address has one owner.
LEMMA OwnerIs ==
  ASSUME NEW s \in Sections, NEW a \in Int, Offset[s] =< a, a < Offset[s] + Size[s]
  PROVE  OwnerOf(a) = s /\ a \in Addresses /\ a - Offset[s] \in Positions(s)
<1>1. /\ Offset \in [Sections -> Nat] /\ Size \in [Sections -> Nat] /\ FileSize \in Nat
      /\ Offset[s] + Size[s] =< FileSize
  BY ProjectAssumption
<1>2. ASSUME NEW t \in Sections, Offset[t] =< a, a < Offset[t] + Size[t] PROVE t = s
  BY <1>1, <1>2, ProjectAssumption
<1>3. OwnerOf(a) = s
  BY <1>2 DEF OwnerOf
<1>4. a \in Addresses
  <2>1. a \in Offset[s]..Offset[s] + Size[s] - 1
    BY <1>1
  <2> QED BY <2>1 DEF Addresses
<1>5. a - Offset[s] \in Positions(s)
  BY <1>1 DEF Positions
<1> QED BY <1>3, <1>4, <1>5

\* A position of a section as an address.
LEMMA PositionOwner ==
  ASSUME NEW s \in Sections, NEW p \in Positions(s)
  PROVE  /\ Offset[s] + p \in Addresses
         /\ OwnerOf(Offset[s] + p) = s
         /\ Offset[s] \in Nat /\ Size[s] \in Nat /\ p \in Nat
         /\ p < Size[s] /\ Offset[s] + p + 1 \in 1..FileSize
<1>1. /\ Offset[s] \in Nat /\ Size[s] \in Nat /\ FileSize \in Nat
      /\ Offset[s] + Size[s] =< FileSize
  BY ProjectAssumption
<1>2. p \in Nat /\ p < Size[s]
  BY <1>1 DEF Positions
<1>3. Offset[s] + p \in Int /\ Offset[s] =< Offset[s] + p /\ Offset[s] + p < Offset[s] + Size[s]
  BY <1>1, <1>2
<1> QED BY <1>1, <1>2, <1>3, OwnerIs

\* An address belongs to a section.
LEMMA AddressOwner ==
  ASSUME NEW a \in Addresses
  PROVE  /\ a \in Nat
         /\ OwnerOf(a) \in Sections
         /\ a - Offset[OwnerOf(a)] \in Positions(OwnerOf(a))
<1>1. PICK s \in Sections : a \in Offset[s]..Offset[s] + Size[s] - 1
  BY DEF Addresses
<1>2. Offset[s] \in Nat /\ Size[s] \in Nat
  BY ProjectAssumption
<1>3. a \in Int /\ Offset[s] =< a /\ a < Offset[s] + Size[s]
  BY <1>1, <1>2
<1> QED BY <1>1, <1>2, <1>3, OwnerIs

\* A freshly loaded section holds the bytes of the file.
LEMMA LoadedBytes ==
  ASSUME file \in [1..FileSize -> Byte], NEW s \in Sections
  PROVE  SectionInv(s, Loaded(file)[s], <<>>)
<1>1. /\ Offset[s] \in Nat /\ Size[s] \in Nat /\ FileSize \in Nat
      /\ Offset[s] + Size[s] =< FileSize
  BY ProjectAssumption
<1>2. file \in Seq(Byte) /\ Len(file) = FileSize
  BY <1>1, IsASeq, LenProperties
<1>3. /\ Mid(file, Offset[s], Size[s]) \in Seq(Byte)
      /\ Len(Mid(file, Offset[s], Size[s])) = Size[s]
      /\ \A k \in 1..Size[s] : Mid(file, Offset[s], Size[s])[k] = file[Offset[s] + k]
  <2>1. Offset[s] \in Nat /\ Size[s] \in Nat /\ Offset[s] + Size[s] =< Len(file) /\ file \in Seq(Byte)
    BY <1>1, <1>2
  <2> QED BY ONLY <2>1, MidInside
<1>4. ASSUME NEW p \in Positions(s)
      PROVE  Mid(file, Offset[s], Size[s])[p + 1] = InFile(s, p)
  <2>1. p + 1 \in 1..Size[s] /\ Offset[s] + (p + 1) = Offset[s] + p + 1
    BY <1>1 DEF Positions
  <2> QED BY <1>3, <2>1 DEF InFile
<1>5. Loaded(file)[s] = Mid(file, Offset[s], Size[s])
  BY DEF Loaded
<1> QED BY <1>3, <1>4, <1>5 DEF SectionInv

\* The bytes at a position are those of a sequence exactly if each of them is.
LEMMA MidIs ==
  ASSUME NEW B, NEW d \in Seq(B), NEW pos \in Nat, NEW m \in Seq(B), pos + Len(m) =< Len(d)
  PROVE  Mid(d, pos, Len(m)) = m <=> \A k \in 1..Len(m) : d[pos + k] = m[k]
<1>1. /\ Mid(d, pos, Len(m)) \in Seq(B)
      /\ Len(Mid(d, pos, Len(m))) = Len(m)
      /\ \A k \in 1..Len(m) : Mid(d, pos, Len(m))[k] = d[pos + k]
  BY MidInside
<1> DEFINE n == Mid(d, pos, Len(m))
<1> HIDE DEF n
<1>2. n = m <=> \A k \in 1..Len(m) : n[k] = m[k]
  BY <1>1, SeqEqual DEF n
<1> QED BY <1>1, <1>2 DEF n

\* setSubData inside a section.
LEMMA SubDataKeepsSectionInv ==
  ASSUME NEW s \in Sections, NEW d, NEW rs, SectionInv(s, d, rs),
         NEW sub \in Seq(Byte), NEW pos \in Positions(s), pos + Len(sub) =< Size[s]
  PROVE  /\ SectionInv(s, SubDataData(d, sub, pos), SubDataRegions(d, rs, sub, pos))
         /\ \A p \in Positions(s) :
              SubDataData(d, sub, pos)[p + 1] =
                IF pos =< p /\ p < pos + Len(sub) THEN sub[p - pos + 1] ELSE d[p + 1]
<1> DEFINE d2 == SubDataData(d, sub, pos)
           rs2 == SubDataRegions(d, rs, sub, pos)
           new == [position |-> pos, bytes |-> sub]
<1>1. /\ d \in Seq(Byte) /\ Len(d) = Size[s] /\ rs \in Seq(RegionOf(Byte))
      /\ Size[s] \in Nat
  BY ProjectAssumption DEF SectionInv
<1>2. pos \in Nat /\ pos < Len(d) /\ pos + Len(sub) =< Len(d)
  BY <1>1 DEF Positions
<1>3. /\ d2 \in Seq(Byte) /\ Len(d2) = Len(d)
      /\ \A p \in 0..Len(d) - 1 :
           d2[p + 1] = IF Covers(new, p) THEN ByteAt(new, p) ELSE d[p + 1]
      /\ rs2 \in Seq(RegionOf(Byte)) /\ rs2 # <<>>
      /\ \A i \in DOMAIN rs2 : rs2[i] = new \/ \E j \in DOMAIN rs : rs2[i] = rs[j]
      /\ \A p \in Int : Covered(rs2, p) <=> Covered(rs, p) \/ Covers(new, p)
      /\ \A p \in Int : \A k \in DOMAIN rs2 : IsLastCover(rs2, k, p) =>
           IF Covers(new, p) THEN rs2[k] = new
           ELSE \E i \in DOMAIN rs : IsLastCover(rs, i, p) /\ rs[i] = rs2[k]
      /\ \A k, l \in DOMAIN rs2 : k < l => ~Contained(rs2[k], rs2[l])
  BY <1>1, <1>2, SetSubDataEffect
<1>4. /\ new.position \in Positions(s) /\ EndOf(new) =< Size[s]
      /\ \A p : Covers(new, p) <=> pos =< p /\ p < pos + Len(sub)
      /\ \A p : ByteAt(new, p) = sub[p - pos + 1]
  BY DEF EndOf, SizeOf, Covers, ByteAt
<1>5. \A p \in Positions(s) : p \in Int /\ p \in 0..Len(d) - 1
  BY <1>1 DEF Positions
<1> HIDE DEF d2, rs2, new
<1>6. \A i \in DOMAIN rs2 : rs2[i].position \in Positions(s) /\ EndOf(rs2[i]) =< Size[s]
  BY <1>3, <1>4 DEF SectionInv
<1>7. ASSUME NEW p \in Positions(s), ~Covered(rs2, p)
      PROVE  d2[p + 1] = InFile(s, p)
  <2>1. ~Covered(rs, p) /\ ~Covers(new, p)
    BY <1>3, <1>5, <1>7
  <2>2. d[p + 1] = InFile(s, p)
    BY <2>1 DEF SectionInv
  <2> QED BY <1>3, <1>5, <2>1, <2>2
<1>8. SectionInv(s, d2, rs2)
  BY <1>1, <1>3, <1>6, <1>7 DEF SectionInv
<1>9. ASSUME NEW p \in Positions(s)
      PROVE  d2[p + 1] = IF pos =< p /\ p < pos + Len(sub) THEN sub[p - pos + 1] ELSE d[p + 1]
  <2>1. d2[p + 1] = IF Covers(new, p) THEN ByteAt(new, p) ELSE d[p + 1]
    BY <1>3, <1>5
  <2> QED BY <1>4, <2>1
<1> QED BY <1>8, <1>9 DEF d2, rs2

-----------------------------------------------------------------------------
(***************************************************************************)
(* Loads, and regions on their way into the project                        *)
(***************************************************************************)

\* Sections that are sound are of the type of the state.
LEMMA SectionTypes ==
  ASSUME NEW d, NEW rs, d = [s \in Sections |-> d[s]], rs = [s \in Sections |-> rs[s]],
         \A s \in Sections : SectionInv(s, d[s], rs[s])
  PROVE  d \in [Sections -> Seq(Byte)] /\ rs \in [Sections -> Seq(RegionOf(Byte))]
BY DEF SectionInv

\* Sections without regions are as the file.
LEMMA UneditedIsOnFile ==
  ASSUME NEW s \in Sections, NEW d, SectionInv(s, d, <<>>), NEW p \in Positions(s)
  PROVE  d[p + 1] = InFile(s, p)
BY DEF SectionInv, Covered

\* A new Format is sound, and as the file is.
LEMMA FreshStep ==
  ASSUME PInv, FreshFormat, AttachedType(attached'), OfOneMoment(attached'),
         UNCHANGED <<file, project, stored>>, named' \in BOOLEAN
  PROVE  PInv'
<1>1. /\ phase' = "choosing" /\ shown' = {} /\ todo' = {} /\ match' = FALSE
      /\ data' = Loaded(file) /\ regions' = NoRegions /\ binaryModified' = FALSE
  BY DEF FreshFormat
<1>2. file \in [1..FileSize -> Byte]
  BY DEF PInv, TypeOK
<1>3. ASSUME NEW s \in Sections
      PROVE  regions'[s] = <<>> /\ SectionInv(s, data'[s], regions'[s])
  BY <1>1, <1>2, LoadedBytes DEF NoRegions
<1>4. SectionsInv'
  BY <1>3 DEF SectionsInv, SectionInv, InFile
<1>5. ~Differs'
  BY <1>3, UneditedIsOnFile DEF Differs, InMemory, InFile
<1>6. TypeOK'
  <2>1. data' \in [Sections -> Seq(Byte)] /\ regions' \in [Sections -> Seq(RegionOf(Byte))]
    BY <1>1, <1>3, SectionTypes DEF Loaded, NoRegions
  <2> QED BY <1>1, <2>1 DEF PInv, TypeOK, Phases, AttachedType
<1>7. AttachedIsSnapshot'
  BY DEF AttachedIsSnapshot, OfOneMoment, PInv
<1>8. RestoresOnlySaved' /\ FlagIsSound' /\ LoopInv'
  BY <1>1 DEF RestoresOnlySaved, FlagIsSound, LoopInv
<1> QED BY <1>4, <1>5, <1>6, <1>7, <1>8 DEF PInv

\* Nothing is attached.
LEMMA NoneAttached == AttachedType(None) /\ OfOneMoment(None)
<1>1. DOMAIN None.map = {} /\ DOMAIN None.origin = {}
  BY DEF None
<1> QED BY <1>1 DEF AttachedType, OfOneMoment

LEMMA OpenProjectStep == ASSUME PInv, OpenProject PROVE PInv'
<1>1. AttachedType(attached') /\ OfOneMoment(attached')
  BY DEF PInv, TypeOK, AttachedIsSnapshot, OpenProject
<1> QED BY <1>1, FreshStep DEF OpenProject

LEMMA LoadBinaryStep == ASSUME PInv, LoadBinary PROVE PInv'
<1>1. AttachedType(attached') /\ OfOneMoment(attached')
  BY NoneAttached DEF PInv, TypeOK, AttachedIsSnapshot, LoadBinary
<1> QED BY <1>1, FreshStep DEF LoadBinary, PInv, TypeOK

\* After the project or the process is gone nothing is on show.
LEMMA GoneStep ==
  ASSUME PInv, phase' = "closed", shown' = {}, todo' = {}, match' = FALSE,
         data' = [s \in Sections |-> <<>>], regions' = NoRegions,
         binaryModified' = FALSE, attached' = None, named' = FALSE,
         project' \in {project, "torn"}, stored' \in {stored, None}, file' = file
  PROVE  PInv'
<1>1. TypeOK'
  <2>1. AttachedType(attached') /\ AttachedType(stored')
    BY NoneAttached DEF PInv, TypeOK
  <2>2. todo' \subseteq shown' \X DOMAIN attached'.map
    OBVIOUS
  <2>3. regions' \in [Sections -> Seq(RegionOf(Byte))] /\ data' \in [Sections -> Seq(Byte)]
    BY DEF NoRegions
  <2>4. /\ phase' \in Phases /\ shown' \subseteq Sections /\ match' \in BOOLEAN
        /\ binaryModified' \in BOOLEAN /\ named' \in BOOLEAN
    BY DEF Phases
  <2>5. file' \in [1..FileSize -> Byte] /\ project' \in {"none", "torn", "whole"}
    BY DEF PInv, TypeOK
  <2> QED BY <2>1, <2>2, <2>3, <2>4, <2>5, Zenon DEF TypeOK, AttachedType
<1>2. AttachedIsSnapshot'
  BY NoneAttached DEF PInv, AttachedIsSnapshot, OfOneMoment
<1>3. SectionsInv' /\ RestoresOnlySaved' /\ FlagIsSound' /\ LoopInv' /\ phase' # "choosing"
  BY DEF SectionsInv, RestoresOnlySaved, FlagIsSound, LoopInv
<1> QED BY <1>1, <1>2, <1>3 DEF PInv

LEMMA LeaveStep == ASSUME PInv, Leave PROVE PInv'
BY GoneStep DEF Leave

LEMMA DieInSaveStep == ASSUME PInv, DieInSave PROVE PInv'
BY GoneStep DEF DieInSave

\* What saveProject collects is, for each address at which a region begins, the
\* bytes of a stretch of its section.
LEMMA CollectedSound ==
  ASSUME PInv, phase # "closed", NEW a \in DOMAIN Collected
  PROVE  \E s \in Sections, n \in Nat :
           /\ a \in Int /\ a - Offset[s] \in Positions(s) /\ OwnerOf(a) = s
           /\ a - Offset[s] + n =< Size[s]
           /\ Collected[a] = Mid(data[s], a - Offset[s], n)
<1> DEFINE starts(s) == {Offset[s] + regions[s][i].position : i \in DOMAIN regions[s]}
           last(s) == CHOOSE i \in DOMAIN regions[s] :
                        /\ Offset[s] + regions[s][i].position = a
                        /\ \A j \in DOMAIN regions[s] :
                             Offset[s] + regions[s][j].position = a => j =< i
<1>1. PICK s \in Sections : a \in starts(s)
  BY DEF Collected
<1>2. /\ regions[s] \in Seq(RegionOf(Byte))
      /\ \A i \in DOMAIN regions[s] :
           regions[s][i].position \in Positions(s) /\ EndOf(regions[s][i]) =< Size[s]
  BY DEF PInv, SectionsInv, SectionInv
<1>3. PICK m \in DOMAIN regions[s] : Offset[s] + regions[s][m].position = a
  BY <1>1
<1>4. OwnerOf(a) = s
  BY <1>2, <1>3, PositionOwner
<1>5. last(s) \in DOMAIN regions[s] /\ Offset[s] + regions[s][last(s)].position = a
  <2> DEFINE K == {i \in DOMAIN regions[s] : Offset[s] + regions[s][i].position = a}
  <2>1. Len(regions[s]) \in Nat /\ K \subseteq 1..Len(regions[s]) /\ K # {}
    BY <1>2, <1>3
  <2>2. \E i \in K : \A j \in K : j =< i
    BY <2>1, GreatestIndex
  <2> QED BY <2>2
<1> HIDE DEF last
<1> DEFINE r == regions[s][last(s)]
<1>6. r \in RegionOf(Byte) /\ r.position \in Positions(s) /\ EndOf(r) =< Size[s]
  BY <1>2, <1>5
<1>7. Collected[a] = Mid(data[s], a - Offset[s], SizeOf(r))
  BY <1>1, <1>4 DEF Collected, last
<1> HIDE DEF r
<1>8. /\ Offset[s] \in Nat /\ Size[s] \in Nat
      /\ r.position \in Int /\ SizeOf(r) \in Nat /\ r.position + SizeOf(r) =< Size[s]
      /\ a = Offset[s] + r.position
  BY <1>5, <1>6, PositionOwner DEF RegionOf, SizeOf, EndOf, r
<1>9. a \in Int /\ a - Offset[s] = r.position
  BY <1>8
<1> QED BY <1>4, <1>6, <1>7, <1>8, <1>9

\* Attached regions are well typed and hold the bytes of the image.
LEMMA AttachStep ==
  ASSUME PInv, Idle, Attach
  PROVE  AttachedType(attached') /\ OfOneMoment(attached')
<1>1. /\ attached'.map = Collected
      /\ attached'.origin = [a \in Reach(Collected) |-> Image(data)[a]]
  BY DEF Attach
<1>2. phase # "closed"
  BY DEF Idle
<1>3. \A s \in Sections : data[s] \in Seq(Byte) /\ Len(data[s]) = Size[s]
  BY <1>2 DEF PInv, SectionsInv, SectionInv
<1>4. ASSUME NEW a \in DOMAIN Collected
      PROVE  /\ a \in Addresses /\ Collected[a] \in Seq(Byte)
             /\ \A k \in DOMAIN Collected[a] :
                  /\ a + k - 1 \in Addresses /\ a + k - 1 \in Reach(Collected)
                  /\ Image(data)[a + k - 1] = Collected[a][k]
  <2>1. PICK s \in Sections, n \in Nat :
           /\ a \in Int /\ a - Offset[s] \in Positions(s) /\ OwnerOf(a) = s
           /\ a - Offset[s] + n =< Size[s]
           /\ Collected[a] = Mid(data[s], a - Offset[s], n)
    BY <1>2, <1>4, CollectedSound
  <2>2. Offset[s] \in Nat /\ Size[s] \in Nat /\ a - Offset[s] \in Nat
    BY <2>1, PositionOwner
  <2> DEFINE b == Collected[a]
             pos == a - Offset[s]
  <2>3. /\ b \in Seq(Byte) /\ Len(b) = n
        /\ \A k \in 1..n : b[k] = data[s][pos + k]
    <3>1. pos \in Nat /\ pos + n =< Len(data[s]) /\ data[s] \in Seq(Byte)
      BY <1>3, <2>1, <2>2
    <3>2. /\ Mid(data[s], pos, n) \in Seq(Byte) /\ Len(Mid(data[s], pos, n)) = n
          /\ \A k \in 1..n : Mid(data[s], pos, n)[k] = data[s][pos + k]
      BY <3>1, MidInside
    <3> QED BY <2>1, <3>2
  <2> HIDE DEF b
  <2>4. ASSUME NEW k \in DOMAIN b
        PROVE  /\ a + k - 1 \in Addresses /\ a + k - 1 \in Reach(Collected)
               /\ Image(data)[a + k - 1] = b[k]
    <3>1. k \in 1..n /\ k \in Int
      BY <2>3
    <3>2. a + k - 1 \in Int /\ Offset[s] =< a + k - 1 /\ a + k - 1 < Offset[s] + Size[s]
      BY <2>1, <2>2, <3>1
    <3>3. OwnerOf(a + k - 1) = s /\ a + k - 1 \in Addresses
      BY <3>2, OwnerIs
    <3>4. a + k - 1 - Offset[s] + 1 = pos + k
      BY <2>1, <2>2, <3>1
    <3>5. Image(data)[a + k - 1] = data[s][pos + k]
      <4> DEFINE c == a + k - 1
      <4> HIDE DEF c
      <4>1. Image(data)[c] = data[OwnerOf(c)][c - Offset[OwnerOf(c)] + 1]
        BY <3>3 DEF Image, c
      <4>2. OwnerOf(c) = s /\ c - Offset[s] + 1 = pos + k
        BY <2>1, <2>2, <3>1, <3>3 DEF c
      <4>3. Image(data)[c] = data[s][pos + k]
        BY <4>1, <4>2
      <4> QED BY <4>3 DEF c
    <3>6. a + k - 1 \in a..a + Len(Collected[a]) - 1
      BY <2>1, <2>3, <3>1 DEF b
    <3> QED BY <2>3, <3>1, <3>3, <3>5, <3>6 DEF Reach
  <2>5. a \in Addresses
    <3>1. a = Offset[s] + (a - Offset[s])
      BY <2>1, <2>2
    <3> QED BY <2>1, <3>1, PositionOwner
  <2> QED BY <2>3, <2>4, <2>5 DEF b
<1>5. ASSUME NEW c \in Reach(Collected)
      PROVE  c \in Addresses /\ Image(data)[c] \in Byte
  <2>1. PICK a \in DOMAIN Collected : c \in a..a + Len(Collected[a]) - 1
    BY DEF Reach
  <2>2. a \in Int /\ Collected[a] \in Seq(Byte)
    BY <1>4, AddressOwner
  <2>3. c - a + 1 \in DOMAIN Collected[a] /\ a + (c - a + 1) - 1 = c
    BY <2>1, <2>2
  <2> QED BY <1>4, <2>2, <2>3
<1>6. AttachedType(attached')
  BY <1>1, <1>4, <1>5 DEF AttachedType
<1>7. OfOneMoment(attached')
  BY <1>1, <1>4 DEF OfOneMoment
<1> QED BY <1>6, <1>7

\* A step that changes what is attached or stored, and nothing on show.
LEMMA AttachedStep ==
  ASSUME PInv, Idle, AttachedType(attached'), OfOneMoment(attached'),
         stored' \in {stored, attached'}, project' \in {project, "whole"}, named' \in BOOLEAN,
         UNCHANGED <<phase, shown, todo, match, data, regions, file, binaryModified>>
  PROVE  PInv'
<1>1. TypeOK'
  BY DEF PInv, TypeOK, AttachedType, LoopInv, Idle
<1>2. AttachedIsSnapshot'
  BY DEF PInv, AttachedIsSnapshot, OfOneMoment
<1>3. SectionsInv' /\ (phase' = "choosing" => ~Differs') /\ FlagIsSound'
  BY DEF PInv, SectionsInv, SectionInv, Differs, FlagIsSound, InMemory, InFile, Idle
<1>4. RestoresOnlySaved' /\ LoopInv'
  BY DEF RestoresOnlySaved, LoopInv, Idle, PInv
<1> QED BY <1>1, <1>2, <1>3, <1>4 DEF PInv

LEMMA SaveProjectStep == ASSUME PInv, SaveProject PROVE PInv'
<1>1. AttachedType(attached') /\ OfOneMoment(attached')
  BY AttachStep DEF SaveProject
<1> QED BY <1>1, AttachedStep DEF SaveProject

LEMMA SaveProjectFailsStep == ASSUME PInv, SaveProjectFails PROVE PInv'
<1>1. AttachedType(attached') /\ OfOneMoment(attached')
  BY AttachStep DEF SaveProjectFails
<1> QED BY <1>1, AttachedStep DEF SaveProjectFails, PInv, TypeOK

-----------------------------------------------------------------------------
(***************************************************************************)
(* Edits, and the binary                                                   *)
(***************************************************************************)

\* A step that leaves what is attached alone keeps it of one moment.
LEMMA SameAttached ==
  ASSUME PInv, UNCHANGED <<attached, stored>>
  PROVE  AttachedIsSnapshot' /\ AttachedType(attached') /\ AttachedType(stored')
<1>1. AttachedIsSnapshot'
  BY DEF PInv, AttachedIsSnapshot, OfOneMoment
<1>2. AttachedType(attached) /\ AttachedType(stored)
  BY DEF PInv, TypeOK
<1> QED BY <1>1, <1>2

\* Setting bytes of one section leaves every section sound.
LEMMA SubDataStep ==
  ASSUME PInv, phase # "closed", NEW s \in Sections, NEW sub \in Seq(Byte),
         NEW pos \in Positions(s), pos + Len(sub) =< Size[s],
         data' = [data EXCEPT ![s] = SubDataData(@, sub, pos)],
         regions' = [regions EXCEPT ![s] = SubDataRegions(data[s], @, sub, pos)],
         file' = file
  PROVE  /\ SectionsInv'
         /\ data' \in [Sections -> Seq(Byte)]
         /\ regions' \in [Sections -> Seq(RegionOf(Byte))]
         /\ \A p \in Positions(s) :
              data'[s][p + 1] =
                IF pos =< p /\ p < pos + Len(sub) THEN sub[p - pos + 1] ELSE data[s][p + 1]
         /\ \A t \in Sections : t # s => data'[t] = data[t]
<1>1. data \in [Sections -> Seq(Byte)] /\ regions \in [Sections -> Seq(RegionOf(Byte))]
  BY DEF PInv, TypeOK
<1>2. \A t \in Sections : SectionInv(t, data[t], regions[t])
  BY DEF PInv, SectionsInv
<1>3. /\ data'[s] = SubDataData(data[s], sub, pos)
      /\ regions'[s] = SubDataRegions(data[s], regions[s], sub, pos)
      /\ \A t \in Sections : t # s => data'[t] = data[t] /\ regions'[t] = regions[t]
  BY <1>1
<1>4. /\ SectionInv(s, data'[s], regions'[s])
      /\ \A p \in Positions(s) :
           data'[s][p + 1] =
             IF pos =< p /\ p < pos + Len(sub) THEN sub[p - pos + 1] ELSE data[s][p + 1]
  BY <1>2, <1>3, SubDataKeepsSectionInv
<1>5. \A t \in Sections : SectionInv(t, data'[t], regions'[t])
  BY <1>2, <1>3, <1>4
<1>6. SectionsInv'
  BY <1>5 DEF SectionsInv, SectionInv, InFile
<1>7. data' = [t \in Sections |-> data'[t]] /\ regions' = [t \in Sections |-> regions'[t]]
  BY <1>1
<1>8. data' \in [Sections -> Seq(Byte)] /\ regions' \in [Sections -> Seq(RegionOf(Byte))]
  <2>1. \A t \in Sections : data'[t] \in Seq(Byte) /\ regions'[t] \in Seq(RegionOf(Byte))
    BY <1>5 DEF SectionInv
  <2> QED BY <1>7, <2>1
<1> QED BY <1>3, <1>4, <1>6, <1>8

LEMMA EditStep ==
  ASSUME PInv, NEW s \in Sections, NEW pos \in Positions(s), NEW sub \in Seq(Byte),
         pos + Len(sub) =< Size[s], Edit(s, pos, sub)
  PROVE  PInv'
<1>1. /\ phase = "shown" /\ phase' = "shown" /\ binaryModified' = TRUE
      /\ data' = [data EXCEPT ![s] = SubDataData(@, sub, pos)]
      /\ regions' = [regions EXCEPT ![s] = SubDataRegions(data[s], @, sub, pos)]
      /\ UNCHANGED <<shown, todo, match, file, attached, named, project, stored>>
  BY DEF Edit
<1>2. /\ SectionsInv' /\ data' \in [Sections -> Seq(Byte)]
      /\ regions' \in [Sections -> Seq(RegionOf(Byte))]
  BY <1>1, SubDataStep
<1>3. TypeOK'
  BY <1>1, <1>2, SameAttached DEF PInv, TypeOK, AttachedType
<1>4. RestoresOnlySaved' /\ FlagIsSound' /\ LoopInv' /\ phase' # "choosing"
  BY <1>1 DEF RestoresOnlySaved, FlagIsSound, LoopInv, PInv
<1> QED BY <1>1, <1>2, <1>3, <1>4, SameAttached DEF PInv

\* After a save every section is as the file: a byte that no region covers was
\* before, and any other is written.
LEMMA SaveBinaryStep == ASSUME PInv, SaveBinary PROVE PInv'
<1>1. /\ Idle /\ binaryModified' = FALSE
      /\ file' = [b \in 1..FileSize |->
                   IF b - 1 \in Addresses /\ Covered(regions[OwnerOf(b - 1)], b - 1 - Offset[OwnerOf(b - 1)])
                   THEN Image(data)[b - 1] ELSE file[b]]
      /\ UNCHANGED <<phase, shown, todo, match, data, regions, attached, named, project, stored>>
  BY DEF SaveBinary
<1>2. \A s \in Sections : SectionInv(s, data[s], regions[s])
  BY <1>1 DEF Idle, PInv, SectionsInv
<1>3. file' \in [1..FileSize -> Byte]
  <2>1. ASSUME NEW a \in Addresses PROVE Image(data)[a] \in Byte
    <3>1. OwnerOf(a) \in Sections /\ a - Offset[OwnerOf(a)] \in Positions(OwnerOf(a))
      BY AddressOwner
    <3>2. a - Offset[OwnerOf(a)] + 1 \in DOMAIN data[OwnerOf(a)] /\ data[OwnerOf(a)] \in Seq(Byte)
      BY <1>2, <3>1, PositionOwner DEF SectionInv
    <3> QED BY <3>2 DEF Image
  <2>2. file \in [1..FileSize -> Byte]
    BY DEF PInv, TypeOK
  <2> QED BY <1>1, <2>1, <2>2
<1>4. ASSUME NEW s \in Sections, NEW p \in Positions(s)
      PROVE  data[s][p + 1] = InFile(s, p)'
  <2> DEFINE a == Offset[s] + p
  <2>1. /\ a \in Addresses /\ OwnerOf(a) = s /\ a + 1 \in 1..FileSize
        /\ a \in Int /\ (a + 1) - 1 = a /\ a - Offset[s] = p
    BY PositionOwner
  <2> HIDE DEF a
  <2>2. file'[a + 1] = IF Covered(regions[s], p) THEN Image(data)[a] ELSE file[a + 1]
    BY <1>1, <2>1
  <2>3. Image(data)[a] = data[s][p + 1]
    BY <2>1 DEF Image
  <2>4. ~Covered(regions[s], p) => data[s][p + 1] = file[a + 1]
    BY <1>2 DEF SectionInv, InFile, a
  <2>5. data[s][p + 1] = file'[a + 1]
    BY <2>2, <2>3, <2>4
  <2> QED BY <2>5 DEF InFile, a
<1>5. SectionsInv' /\ ~Differs'
  BY <1>1, <1>2, <1>4 DEF SectionsInv, SectionInv, Differs, InMemory, InFile
<1>6. TypeOK'
  BY <1>1, <1>3, SameAttached DEF PInv, TypeOK, AttachedType
<1>7. RestoresOnlySaved' /\ FlagIsSound' /\ LoopInv'
  BY <1>1, <1>5 DEF RestoresOnlySaved, FlagIsSound, LoopInv, PInv, Idle
<1> QED BY <1>1, <1>5, <1>6, <1>7, SameAttached DEF PInv

-----------------------------------------------------------------------------
(***************************************************************************)
(* applyModifiedRegions                                                    *)
(***************************************************************************)

LEMMA ChooseStep == ASSUME PInv, NEW o \in Objects, Choose(o) PROVE PInv'
<1>1. /\ phase = "choosing" /\ phase' = "applying"
      /\ shown' = {s \in Sections : ObjectOf[s] = o}
      /\ todo' = shown' \X DOMAIN attached.map
      /\ match' = FALSE
      /\ UNCHANGED <<data, regions, file, binaryModified, attached, named, project, stored>>
  BY DEF Choose
<1>2. ~Differs /\ ~Differs'
  BY <1>1 DEF PInv, Differs, InMemory, InFile
<1>3. SectionsInv'
  BY <1>1 DEF PInv, SectionsInv, SectionInv, InFile
<1>4. TypeOK'
  BY <1>1, SameAttached DEF PInv, TypeOK, AttachedType, Phases
<1>5. RestoresOnlySaved' /\ FlagIsSound'
  BY <1>1, <1>2 DEF RestoresOnlySaved, FlagIsSound, Differs
<1>6. LoopInv'
  BY <1>1 DEF LoopInv
<1> QED BY <1>1, <1>3, <1>4, <1>5, <1>6, SameAttached DEF PInv

LEMMA CancelChoiceStep == ASSUME PInv, CancelChoice PROVE PInv'
<1>1. /\ phase = "choosing" /\ phase' = "unchosen"
      /\ UNCHANGED <<shown, todo, match, data, regions, file, binaryModified, attached, named, project, stored>>
  BY DEF CancelChoice
<1>2. SectionsInv'
  BY <1>1 DEF PInv, SectionsInv, SectionInv, InFile
<1>3. TypeOK'
  BY <1>1, SameAttached DEF PInv, TypeOK, AttachedType, Phases
<1>4. RestoresOnlySaved' /\ FlagIsSound' /\ LoopInv'
  BY <1>1 DEF RestoresOnlySaved, FlagIsSound, LoopInv, PInv
<1> QED BY <1>1, <1>2, <1>3, <1>4, SameAttached DEF PInv

LEMMA ApplyDoneStep == ASSUME PInv, ApplyDone PROVE PInv'
<1>1. /\ phase = "applying" /\ todo = {} /\ phase' = "shown" /\ match' = FALSE
      /\ binaryModified' = (binaryModified \/ match)
      /\ attached' = None
      /\ UNCHANGED <<shown, todo, data, regions, file, named, project, stored>>
  BY DEF ApplyDone
<1>2. SectionsInv'
  BY <1>1 DEF PInv, SectionsInv, SectionInv, InFile
<1>3. AttachedIsSnapshot' /\ AttachedType(attached') /\ AttachedType(stored')
  BY <1>1, NoneAttached DEF PInv, TypeOK, AttachedIsSnapshot, OfOneMoment
<1>4. TypeOK'
  BY <1>1, <1>3 DEF PInv, TypeOK, AttachedType, Phases
<1>5. FlagIsSound'
  <2>1. match <=> Differs
    BY <1>1 DEF PInv, FlagIsSound
  <2>2. ~binaryModified' => ~Differs
    BY <1>1, <2>1
  <2> QED BY <1>1, <2>2 DEF FlagIsSound, Differs, InMemory, InFile
<1>6. RestoresOnlySaved' /\ LoopInv'
  BY <1>1 DEF RestoresOnlySaved, LoopInv
<1> QED BY <1>1, <1>2, <1>3, <1>4, <1>5, <1>6 DEF PInv

\* Where a region lies that fits, and whether it is restored.
LEMMA FitsMeans ==
  ASSUME PInv, NEW s \in Sections, NEW a \in DOMAIN attached.map, Fits(s, a),
         NEW d \in Seq(Byte), Len(d) = Size[s]
  PROVE  LET bytes == attached.map[a]
             pos == a - Offset[s]
         IN
         /\ bytes \in Seq(Byte) /\ Len(bytes) \in Nat
         /\ pos \in Positions(s) /\ pos \in Nat /\ pos + Len(bytes) < Size[s]
         /\ a = Offset[s] + pos /\ Offset[s] \in Nat /\ Size[s] \in Nat
         /\ Mid(d, pos, Len(bytes)) = bytes <=> \A k \in 1..Len(bytes) : d[pos + k] = bytes[k]
         /\ \A k \in 1..Len(bytes) :
              /\ Offset[s] + (pos + k - 1) \in DOMAIN attached.origin
              /\ bytes[k] = attached.origin[Offset[s] + (pos + k - 1)]
<1> DEFINE bytes == attached.map[a]
           pos == a - Offset[s]
<1>1. bytes \in Seq(Byte) /\ Len(bytes) \in Nat /\ a \in Addresses
  BY DEF PInv, TypeOK, AttachedType
<1>2. Offset[s] \in Nat /\ Size[s] \in Nat /\ a \in Nat
  BY <1>1, ProjectAssumption, AddressOwner
<1>3. a >= Offset[s] /\ a + Len(bytes) < Offset[s] + Size[s]
  BY DEF Fits
<1>4. /\ pos \in Positions(s) /\ pos \in Nat /\ pos + Len(bytes) < Size[s]
      /\ a = Offset[s] + pos
  BY <1>1, <1>2, <1>3 DEF Positions
<1>5. Mid(d, pos, Len(bytes)) = bytes <=> \A k \in 1..Len(bytes) : d[pos + k] = bytes[k]
  <2>1. d \in Seq(Byte) /\ pos + Len(bytes) =< Len(d) /\ pos \in Nat /\ bytes \in Seq(Byte)
    BY <1>1, <1>2, <1>4
  <2> HIDE DEF pos, bytes
  <2>2. PICK at, b : at = pos /\ b = bytes
    OBVIOUS
  <2>3. d \in Seq(Byte) /\ at + Len(b) =< Len(d) /\ at \in Nat /\ b \in Seq(Byte)
    BY ONLY <2>1, <2>2
  <2>4. Mid(d, at, Len(b)) = b <=> \A k \in 1..Len(b) : d[at + k] = b[k]
    BY ONLY <2>3, MidIs
  <2> QED BY ONLY <2>2, <2>4
<1>6. \A k \in DOMAIN bytes :
        a + k - 1 \in DOMAIN attached.origin /\ bytes[k] = attached.origin[a + k - 1]
  BY DEF PInv, AttachedIsSnapshot, OfOneMoment
<1>7. ASSUME NEW k \in 1..Len(bytes)
      PROVE  /\ Offset[s] + (pos + k - 1) \in DOMAIN attached.origin
             /\ bytes[k] = attached.origin[Offset[s] + (pos + k - 1)]
  <2>1. k \in DOMAIN bytes /\ Offset[s] + (pos + k - 1) = a + k - 1
    BY <1>1, <1>2
  <2> QED BY <1>6, <2>1
<1> QED BY <1>1, <1>2, <1>4, <1>5, <1>7

\* One round.  What is written is the origin of its address, so that a region
\* restored earlier stays restored where this one overlaps it, and a byte that
\* was not yet of the origin was that of the file.
LEMMA ApplyRegionStep ==
  ASSUME PInv, NEW x \in todo, ApplyRegion(x[1], x[2])
  PROVE  PInv'
<1> DEFINE s == x[1]
           a == x[2]
           bytes == attached.map[a]
           pos == a - Offset[s]
<1>1. /\ phase = "applying" /\ todo' = todo \ {<<s, a>>}
      /\ IF Fits(s, a) /\ bytes # Mid(data[s], pos, Len(bytes))
         THEN /\ data' = [data EXCEPT ![s] = SubDataData(@, bytes, pos)]
              /\ regions' = [regions EXCEPT ![s] = SubDataRegions(data[s], @, bytes, pos)]
              /\ match' = TRUE
         ELSE UNCHANGED <<data, regions, match>>
      /\ UNCHANGED <<phase, shown, file, binaryModified, attached, named, project, stored>>
  BY DEF ApplyRegion
<1>2. /\ s \in shown /\ s \in Sections /\ a \in DOMAIN attached.map /\ x = <<s, a>>
      /\ shown \subseteq Sections /\ todo \subseteq shown \X DOMAIN attached.map
  BY DEF PInv, TypeOK
<1>3. \A t \in Sections : data[t] \in Seq(Byte) /\ Len(data[t]) = Size[t]
  BY <1>1 DEF PInv, SectionsInv, SectionInv
<1>4. AttachedIsSnapshot' /\ AttachedType(attached') /\ AttachedType(stored')
  BY <1>1, SameAttached
<1> HIDE DEF s, a
<1>5. CASE ~(Fits(s, a) /\ bytes # Mid(data[s], pos, Len(bytes)))
  <2>1. UNCHANGED <<data, regions, match>>
    BY <1>1, <1>5
  <2>2. TypeOK'
    BY <1>1, <1>4, <2>1 DEF PInv, TypeOK, AttachedType
  <2>3. SectionsInv' /\ RestoresOnlySaved' /\ FlagIsSound'
    BY <1>1, <2>1 DEF PInv, SectionsInv, SectionInv, RestoresOnlySaved, FlagIsSound, Differs, InMemory, InFile
  <2>4. Fits(s, a) => Restored(s, a)
    BY <1>5 DEF Restored
  <2>5. ASSUME NEW t \in shown, NEW b \in DOMAIN attached.map, <<t, b>> \notin todo', Fits(t, b)
        PROVE  Restored(t, b)
    <3>1. CASE <<t, b>> \notin todo
      BY <1>1, <2>5, <3>1 DEF PInv, LoopInv
    <3>2. CASE <<t, b>> \in todo
      <4>1. t = s /\ b = a
        BY <1>1, <2>5, <3>2
      <4> QED BY <2>4, <2>5, <4>1
    <3> QED BY <3>1, <3>2
  <2>6. LoopInv'
    BY <1>1, <2>1, <2>5 DEF LoopInv, Fits, Restored
  <2> QED BY <1>1, <1>4, <2>2, <2>3, <2>6 DEF PInv
<1>6. CASE Fits(s, a) /\ bytes # Mid(data[s], pos, Len(bytes))
  <2>1. /\ data' = [data EXCEPT ![s] = SubDataData(@, bytes, pos)]
        /\ regions' = [regions EXCEPT ![s] = SubDataRegions(data[s], @, bytes, pos)]
        /\ match' = TRUE
    BY <1>1, <1>6
  <2>2. /\ bytes \in Seq(Byte) /\ Len(bytes) \in Nat
        /\ pos \in Positions(s) /\ pos \in Nat /\ pos + Len(bytes) < Size[s]
        /\ a = Offset[s] + pos /\ Offset[s] \in Nat /\ Size[s] \in Nat
        /\ Mid(data[s], pos, Len(bytes)) = bytes <=>
             \A k \in 1..Len(bytes) : data[s][pos + k] = bytes[k]
        /\ \A k \in 1..Len(bytes) :
             /\ Offset[s] + (pos + k - 1) \in DOMAIN attached.origin
             /\ bytes[k] = attached.origin[Offset[s] + (pos + k - 1)]
    BY <1>2, <1>3, <1>6, FitsMeans
  <2> HIDE DEF bytes, pos
  <2>3. /\ SectionsInv'
        /\ data' \in [Sections -> Seq(Byte)]
        /\ regions' \in [Sections -> Seq(RegionOf(Byte))]
        /\ \A p \in Positions(s) :
             data'[s][p + 1] =
               IF pos =< p /\ p < pos + Len(bytes) THEN bytes[p - pos + 1] ELSE data[s][p + 1]
        /\ \A t \in Sections : t # s => data'[t] = data[t]
    <3>1. pos + Len(bytes) =< Size[s] /\ phase # "closed" /\ file' = file
      BY <1>1, <2>2
    <3> QED BY <1>2, <2>1, <2>2, <3>1, SubDataStep
  <2>4. ASSUME NEW t \in Sections, NEW p \in Positions(t)
        PROVE  \/ data'[t][p + 1] = data[t][p + 1]
               \/ /\ Offset[t] + p \in DOMAIN attached.origin
                  /\ data'[t][p + 1] = attached.origin[Offset[t] + p]
    <3>1. CASE t = s /\ pos =< p /\ p < pos + Len(bytes)
      <4>0. p \in Nat /\ pos \in Nat /\ Len(bytes) \in Nat
        BY <2>2, PositionOwner
      <4>1. p - pos + 1 \in 1..Len(bytes) /\ pos + (p - pos + 1) - 1 = p
        BY <3>1, <4>0
      <4>2. data'[s][p + 1] = bytes[p - pos + 1]
        BY <2>3, <3>1
      <4> QED BY <2>2, <3>1, <4>1, <4>2
    <3>2. CASE ~(t = s /\ pos =< p /\ p < pos + Len(bytes))
      BY <2>3, <3>2
    <3> QED BY <3>1, <3>2
  <2>5. TypeOK'
    BY <1>1, <1>2, <1>4, <2>1, <2>3 DEF PInv, TypeOK, AttachedType
  <2>6. RestoresOnlySaved
    BY DEF PInv
  <2>7. RestoresOnlySaved'
    BY <1>1, <2>4, <2>6 DEF RestoresOnlySaved, InMemory, InFile
  <2>8. Differs'
    <3>1. PICK k \in 1..Len(bytes) : data[s][pos + k] # bytes[k]
      BY <1>6, <2>2
    <3> DEFINE p == pos + k - 1
    <3>2. /\ p \in Positions(s) /\ p + 1 = pos + k /\ pos =< p /\ p < pos + Len(bytes)
          /\ p - pos + 1 = k
      <4>1. pos \in Nat /\ Len(bytes) \in Nat /\ Size[s] \in Nat /\ pos + Len(bytes) < Size[s] /\ k \in 1..Len(bytes)
        BY <2>2
      <4> QED BY ONLY <4>1 DEF Positions
    <3>3. bytes[k] = attached.origin[Offset[s] + p]
      BY <2>2
    <3> HIDE DEF p
    <3>4. data'[s][p + 1] = bytes[k]
      BY <2>3, <3>2
    <3>5. data[s][p + 1] = InFile(s, p)
      BY <1>1, <1>2, <2>6, <3>1, <3>2, <3>3 DEF RestoresOnlySaved, InMemory
    <3>6. data'[s][p + 1] # InFile(s, p)
      BY <3>1, <3>2, <3>4, <3>5
    <3> QED BY <1>1, <1>2, <3>2, <3>6 DEF Differs, InMemory, InFile
  <2>9. FlagIsSound'
    BY <1>1, <2>1, <2>8 DEF FlagIsSound
  <2>10. ASSUME NEW t \in shown, NEW b \in DOMAIN attached.map, <<t, b>> \notin todo', Fits(t, b)
         PROVE  Mid(data'[t], b - Offset[t], Len(attached.map[b])) = attached.map[b]
    <3> DEFINE m == attached.map[b]
               q == b - Offset[t]
    <3>1. t \in Sections /\ data[t] \in Seq(Byte) /\ Len(data[t]) = Size[t]
      BY <1>2, <1>3
    <3>2. data'[t] \in Seq(Byte) /\ Len(data'[t]) = Size[t]
      BY <1>1, <2>3, <3>1 DEF SectionsInv, SectionInv
    <3>3. /\ m \in Seq(Byte) /\ Len(m) \in Nat
          /\ q \in Positions(t) /\ q \in Nat /\ q + Len(m) < Size[t]
          /\ b = Offset[t] + q /\ Offset[t] \in Nat /\ Size[t] \in Nat
          /\ Mid(data[t], q, Len(m)) = m <=> \A k \in 1..Len(m) : data[t][q + k] = m[k]
          /\ \A k \in 1..Len(m) :
               /\ Offset[t] + (q + k - 1) \in DOMAIN attached.origin
               /\ m[k] = attached.origin[Offset[t] + (q + k - 1)]
      BY <2>10, <3>1, FitsMeans
    <3>4. Mid(data'[t], q, Len(m)) = m <=> \A k \in 1..Len(m) : data'[t][q + k] = m[k]
      <4> HIDE DEF m, q
      <4>1. PICK d : d = data'[t]
        OBVIOUS
      <4>2. d \in Seq(Byte) /\ q \in Nat /\ m \in Seq(Byte) /\ q + Len(m) =< Len(d)
        BY <3>2, <3>3, <4>1
      <4>3. Mid(d, q, Len(m)) = m <=> \A k \in 1..Len(m) : d[q + k] = m[k]
        BY ONLY <4>2, MidIs
      <4> QED BY ONLY <4>1, <4>3
    <3>5. <<t, b>> \notin todo => \A k \in 1..Len(m) : data[t][q + k] = m[k]
      BY <1>1, <2>10, <3>3 DEF PInv, LoopInv, Restored
    <3> HIDE DEF m, q
    <3>6. ASSUME NEW k \in 1..Len(m) PROVE data'[t][q + k] = m[k]
      <4> DEFINE p == q + k - 1
      <4>0. q \in Nat /\ Len(m) \in Nat /\ Size[t] \in Nat /\ q + Len(m) < Size[t]
        BY <3>3
      <4>1. p \in Positions(t) /\ p + 1 = q + k
        BY <4>0 DEF Positions
      <4>2. m[k] = attached.origin[Offset[t] + p]
        BY <3>3
      <4> HIDE DEF p
      <4>3. CASE <<t, b>> \notin todo
        <5>1. data[t][p + 1] = m[k]
          BY <3>5, <4>1, <4>3
        <5>2. data'[t][p + 1] = m[k]
          BY <2>4, <3>1, <4>1, <4>2, <5>1
        <5> QED BY <4>1, <5>2
      <4>4. CASE <<t, b>> \in todo
        <5>1. t = s /\ b = a
          BY <1>1, <2>10, <4>4
        <5>2. m = bytes /\ q = pos
          BY <5>1 DEF m, q, bytes, pos
        <5>3. pos =< p /\ p < pos + Len(bytes) /\ p - pos + 1 = k
          BY <3>3, <5>2 DEF p
        <5> QED BY <2>3, <4>1, <5>1, <5>2, <5>3
      <4> QED BY <4>3, <4>4
    <3> QED BY <3>4, <3>6 DEF m, q
  <2>11. LoopInv'
    BY <1>1, <2>10 DEF LoopInv, Fits, Restored
  <2> QED BY <1>1, <1>4, <2>3, <2>5, <2>7, <2>9, <2>11 DEF PInv
<1> QED BY <1>5, <1>6

-----------------------------------------------------------------------------
(***************************************************************************)
(* The invariant, and what follows from it                                 *)
(***************************************************************************)

LEMMA InitPInv == Init => PInv
<1> SUFFICES ASSUME Init PROVE PInv
  OBVIOUS
<1>1. AttachedType(attached) /\ AttachedType(stored) /\ AttachedIsSnapshot
  BY NoneAttached DEF Init, AttachedIsSnapshot
<1>2. data \in [Sections -> Seq(Byte)] /\ regions \in [Sections -> Seq(RegionOf(Byte))]
  BY DEF Init, NoRegions
<1>3. TypeOK
  BY <1>1, <1>2 DEF Init, TypeOK, Phases
<1>4. SectionsInv /\ RestoresOnlySaved /\ FlagIsSound /\ LoopInv /\ phase # "choosing"
  BY DEF Init, SectionsInv, RestoresOnlySaved, FlagIsSound, LoopInv
<1> QED BY <1>1, <1>3, <1>4 DEF PInv

LEMMA StepKeepsPInv == PInv /\ [Next]_vars => PInv'
<1> SUFFICES ASSUME PInv, [Next]_vars PROVE PInv'
  OBVIOUS
<1>1. CASE ChooseSome
  BY <1>1, ChooseStep DEF ChooseSome
<1>2. CASE ApplySome
  BY <1>2, ApplyRegionStep DEF ApplySome
<1>3. CASE EditSome
  <2>0. PICK s \in Sections : \E p \in Positions(s) : \E k \in 1..MaxSub :
          p + k =< Size[s] /\ \E sub \in [1..k -> Byte] : Edit(s, p, sub)
    BY <1>3 DEF EditSome
  <2>1. PICK pos \in Positions(s), n \in 1..MaxSub :
          pos + n =< Size[s] /\ \E sub \in [1..n -> Byte] : Edit(s, pos, sub)
    BY <2>0
  <2>2. PICK sub \in [1..n -> Byte] : Edit(s, pos, sub)
    BY <2>1
  <2>3. n \in Nat
    BY ProjectAssumption
  <2>4. sub \in Seq(Byte) /\ Len(sub) = n
    BY <2>3, IsASeq, LenProperties
  <2> QED BY <2>1, <2>2, <2>4, EditStep
<1>4. CASE UNCHANGED vars
  <2>1. UNCHANGED <<attached, stored>>
    BY <1>4 DEF vars
  <2>2. AttachedIsSnapshot' /\ AttachedType(attached') /\ AttachedType(stored')
    BY <2>1, SameAttached
  <2> QED
    BY <1>4, <2>2 DEF vars, PInv, TypeOK, AttachedType, SectionsInv, SectionInv, RestoresOnlySaved,
       FlagIsSound, LoopInv, Restored, Fits, Differs, InMemory, InFile
<1> QED
  BY <1>1, <1>2, <1>3, <1>4, OpenProjectStep, LoadBinaryStep, LeaveStep, ApplyDoneStep,
     CancelChoiceStep, SaveBinaryStep, SaveProjectStep, SaveProjectFailsStep, DieInSaveStep DEF Next

\* The inductive invariant holds in every reachable state.
THEOREM ProjectInvariant == Spec => []PInv
<1> QED BY InitPInv, StepKeepsPInv, PTL DEF Spec

\* Types of the sections, the loop of applyModifiedRegions and the project.
THEOREM ProjectTyped == Spec => []TypeOK
<1>1. PInv => TypeOK
  BY DEF PInv
<1> QED BY <1>1, ProjectInvariant, PTL

\* Project::modifiedRegions_ and the project file hold bytes of one moment,
\* although saveProject looks them up region by region and regions overlap.
THEOREM AttachedSnapshot == Spec => []AttachedIsSnapshot
<1>1. PInv => AttachedIsSnapshot
  BY DEF PInv
<1> QED BY <1>1, ProjectInvariant, PTL

\* applyModifiedRegions leaves in every byte what was saved or what the file has,
\* whatever became of the file since.
THEOREM OnlySavedRestored == Spec => []RestoresOnlySaved
<1>1. PInv => RestoresOnlySaved
  BY DEF PInv
<1> QED BY <1>1, ProjectInvariant, PTL

\* binaryModified after restoring tells whether some byte differs from the file,
\* and a binary not reported as modified agrees with the file from then on.
THEOREM RestoreFlagIsSound == Spec => []FlagIsSound
<1>1. PInv => FlagIsSound
  BY DEF PInv
<1> QED BY <1>1, ProjectInvariant, PTL

\* When the loop is over, each region that ends before the end of a section on
\* show is in it, although later rounds wrote over parts of it.
THEOREM InnerRegionsRestored == Spec => RestoresInnerRegions
<1>1. ASSUME PInv, ApplyDone
      PROVE  \A s \in shown : \A a \in DOMAIN attached.map :
               Fits(s, a) => Mid(data[s], a - Offset[s], Len(attached.map[a])) = attached.map[a]
  BY <1>1 DEF PInv, LoopInv, ApplyDone, Restored
<1>2. PInv /\ [Next]_vars =>
        [ApplyDone =>
           \A s \in shown : \A a \in DOMAIN attached.map :
             Fits(s, a) => Mid(data[s], a - Offset[s], Len(attached.map[a])) = attached.map[a]]_vars
  BY <1>1
<1> QED BY <1>2, ProjectInvariant, PTL DEF Spec, RestoresInnerRegions
=============================================================================
