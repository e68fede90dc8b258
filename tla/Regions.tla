------------------------------ MODULE Regions ------------------------------
(***************************************************************************)
(* The data side of a Section (src/src/Section.cc): its byte array and the *)
(* list of regions in which that array was changed.  Only operators; the   *)
(* state machines that use them are BinaryEdit and ProjectRegions.         *)
(*                                                                         *)
(* A byte array is a sequence, so the byte at C++ position p is d[p + 1].  *)
(* A ModifiedRegion keeps a position, a size and the SHA-1 of the bytes it *)
(* was made from; the hash is abstracted to the bytes themselves, which is *)
(* exact as long as no two byte arrays of one run collide.                 *)
(***************************************************************************)
EXTENDS Selection

\* All regions over the bytes B.
RegionOf(B) == [position : Nat, bytes : Seq(B)]

SizeOf(r) == Len(r.bytes)

\* The first position after the region.
EndOf(r) == r.position + SizeOf(r)

\* Position p lies in region r.
Covers(r, p) == r.position =< p /\ p < EndOf(r)

\* The byte that region r put at a position p it covers.
ByteAt(r, p) == r.bytes[p - r.position + 1]

\* Some region of the list changed position p.
Covered(rs, p) == \E i \in DOMAIN rs : Covers(rs[i], p)

\* Region i of the list is the newest one that changed position p.
IsLastCover(rs, i, p) ==
  /\ Covers(rs[i], p)
  /\ \A j \in DOMAIN rs : j > i => ~Covers(rs[j], p)

(***************************************************************************)
(* QByteArray::replace(pos, sub.size(), sub), which keeps the size unless  *)
(* sub runs over the end, and QByteArray::mid(pos, n).                     *)
(***************************************************************************)
Replace(d, pos, sub) ==
  LET n == IF pos + Len(sub) > Len(d) THEN pos + Len(sub) ELSE Len(d)
  IN  [k \in 1..n |-> IF pos < k /\ k =< pos + Len(sub) THEN sub[k - pos] ELSE d[k]]

Mid(d, pos, n) ==
  SubSeq(d, pos + 1, IF pos + n > Len(d) THEN Len(d) ELSE pos + n)

(***************************************************************************)
(* The pruning loop at the end of setSubData: drop every region that lies  *)
(* inside a newer one and keep the others in their order.                  *)
(***************************************************************************)
\* Mutant: a newer region that starts before an older one swallows it.
ContainedByStart(r, r2) == r.position >= r2.position

Contained(r, r2) == r.position >= r2.position /\ EndOf(r) =< EndOf(r2)

\* Mutant: the older region wins.
KeptOlder(rs) == {i \in DOMAIN rs : \A j \in DOMAIN rs : j < i => ~Contained(rs[i], rs[j])}

Kept(rs) == {i \in DOMAIN rs : \A j \in DOMAIN rs : j > i => ~Contained(rs[i], rs[j])}

Prune(rs) == Selected(rs, Kept(rs))

(***************************************************************************)
(* Section::setSubData: the early return, and what it leaves in data_ and  *)
(* modifiedRegions_.                                                       *)
(***************************************************************************)
AcceptsSub(d, sub, pos) == pos >= 0 /\ pos =< Len(d) - 1 /\ Len(sub) =< Len(d)

SubDataData(d, sub, pos) ==
  IF AcceptsSub(d, sub, pos) THEN Replace(d, pos, sub) ELSE d

SubDataRegions(d, rs, sub, pos) ==
  IF AcceptsSub(d, sub, pos)
  THEN Prune(Append(rs, [position |-> pos, bytes |-> sub]))
  ELSE rs

\* Section::isModified
IsModified(rs) == rs # <<>>
=============================================================================
