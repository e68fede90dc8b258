------------------------- MODULE Standalone_proofs -------------------------
(***************************************************************************)
(* The components that share no state with the others: three modules in    *)
(* three parts.                                                            *)
(*                                                                         *)
(* Backups, for every width of the numbers, every amount and any number of *)
(* saves.  The order of names is total even where it is not that of the    *)
(* numbers, so every entry has a place of its own; and BInv says where     *)
(* numbers still tell the age of copies.                                   *)
(*                                                                         *)
(* AddrHexAsciiEncoder, for data of every size and any number of threads.  *)
(* Rows cut between two of them join again; EncoderInv numbers the chunks  *)
(* whose results came, in the order in which they came.                    *)
(*                                                                         *)
(* PatchSdk and the MachO below it, for files of any words and length.     *)
(* ParserInv holds in all of them.  Progress says of a file of commands    *)
(* that are read in full where the reader is and what it has found, so it  *)
(* meets the definition of the format when the last command is read.       *)
(***************************************************************************)
EXTENDS Backups, AddrHexAsciiEncoder, PatchSdk, Regions_proofs

Backup == [number : Nat \ {0}, version : Nat]
Unique(bs) == \A b, c \in bs : b.number = c.number => b = c
\* What sorting needs to know of the copies.
Sortable(bs) == bs \subseteq Backup /\ IsFiniteSet(bs) /\ Unique(bs)

\* Among narrow numbers, a greater one is younger.
ByAge(bs) == \A b, c \in bs : b.number < c.number /\ c.number < Wide => b.version < c.version

\* The inductive invariant.
BInv ==
  /\ version \in Nat /\ version =< MaxSaves
  /\ amount \in Amounts /\ enabled \in BOOLEAN
  /\ Sortable(backups)
  /\ \A b \in backups : b.number =< version /\ b.version < version
  /\ ByAge(backups)

-----------------------------------------------------------------------------
(***************************************************************************)
(* The order of names                                                      *)
(***************************************************************************)

\* The widest of padded numbers is a number.
LEMMA WideInt == Wide \in Int
BY BackupsAssumption DEF Wide

\* The first digits of a greater number are not a smaller one.
LEMMA DivMonotone ==
  ASSUME NEW m \in Int, NEW n \in Int, NEW b \in Int, b > 0, m =< n
  PROVE  m \div b =< n \div b
BY Z3T(30)

\* Sorting by name is a strict order, and it decides between any two numbers.
LEMMA NamesOrdered ==
  ASSUME NEW m \in Nat, NEW n \in Nat, NEW p \in Nat
  PROVE  /\ ~NamedBefore(m, m)
         /\ m # n => NamedBefore(m, n) \/ NamedBefore(n, m)
         /\ NamedBefore(m, n) /\ NamedBefore(n, p) => NamedBefore(m, p)
         /\ m < Wide /\ n < Wide => (NamedBefore(m, n) <=> m < n)
<1>1. Wide \in Int /\ Base \in Int /\ Base > 0
  BY WideInt, BackupsAssumption
<1>2. PICK dm \in Int, dn \in Int, dp \in Int : dm = m \div Base /\ dn = n \div Base /\ dp = p \div Base
  BY <1>1
<1>3. /\ m =< n => dm =< dn
      /\ n =< m => dn =< dm
      /\ m =< p => dm =< dp
      /\ p =< m => dp =< dm
      /\ n =< p => dn =< dp
      /\ p =< n => dp =< dn
  BY <1>1, <1>2, DivMonotone
<1>4. PICK w \in Int : w = Wide
  BY <1>1
<1>5. /\ NamedBefore(m, n) <=> \/ m < w /\ n < w /\ m < n
                               \/ w =< m /\ w =< n /\ m < n
                               \/ m < w /\ w =< n /\ m =< dn
                               \/ n < w /\ w =< m /\ dm < n
      /\ NamedBefore(n, m) <=> \/ m < w /\ n < w /\ n < m
                               \/ w =< m /\ w =< n /\ n < m
                               \/ n < w /\ w =< m /\ n =< dm
                               \/ m < w /\ w =< n /\ dn < m
      /\ NamedBefore(n, p) <=> \/ n < w /\ p < w /\ n < p
                               \/ w =< n /\ w =< p /\ n < p
                               \/ n < w /\ w =< p /\ n =< dp
                               \/ p < w /\ w =< n /\ dn < p
      /\ NamedBefore(m, p) <=> \/ m < w /\ p < w /\ m < p
                               \/ w =< m /\ w =< p /\ m < p
                               \/ m < w /\ w =< p /\ m =< dp
                               \/ p < w /\ w =< m /\ dm < p
  <2>1. (m < Wide <=> m < w) /\ (n < Wide <=> n < w) /\ (p < Wide <=> p < w)
    BY <1>4
  <2>2. (Wide =< m <=> ~(m < w)) /\ (Wide =< n <=> ~(n < w)) /\ (Wide =< p <=> ~(p < w))
    BY <1>4
  <2>3. (w =< m <=> ~(m < w)) /\ (w =< n <=> ~(n < w)) /\ (w =< p <=> ~(p < w))
    BY <1>4
  <2> QED BY <1>2, <2>1, <2>2, <2>3 DEF NamedBefore
<1>6. ~NamedBefore(m, m)
  BY <1>4 DEF NamedBefore
<1>7. m # n => NamedBefore(m, n) \/ NamedBefore(n, m)
  BY <1>2, <1>4, <1>5
<1>8. NamedBefore(m, n) /\ NamedBefore(n, p) => NamedBefore(m, p)
  BY <1>2, <1>3, <1>4, <1>5
<1>9. m < Wide /\ n < Wide => (NamedBefore(m, n) <=> m < n)
  BY <1>4, <1>5
<1> QED BY <1>6, <1>7, <1>8, <1>9

-----------------------------------------------------------------------------
(***************************************************************************)
(* The entries, sorted by name                                             *)
(***************************************************************************)

\* Comes before or is the same.
UpTo(bs, b) == {c \in bs : c = b \/ NamedBefore(c.number, b.number)}

\* The place of an entry counts it and those that sort before it.
LEMMA PlaceIs ==
  ASSUME NEW bs, Sortable(bs), NEW b \in bs
  PROVE  /\ UpTo(bs, b) \in SUBSET bs /\ IsFiniteSet(UpTo(bs, b))
         /\ Place(bs, b) = Cardinality(UpTo(bs, b))
         /\ Cardinality(bs) \in Nat /\ Place(bs, b) \in 1..Cardinality(bs)
<1>1. IsFiniteSet(bs) /\ UpTo(bs, b) \in SUBSET bs /\ b \in UpTo(bs, b)
  BY DEF Sortable, UpTo
<1>2. IsFiniteSet(UpTo(bs, b)) /\ Cardinality(UpTo(bs, b)) =< Cardinality(bs)
  BY <1>1, FS_Subset
<1>3. /\ Cardinality(bs) \in Nat /\ Cardinality(UpTo(bs, b)) \in Nat
      /\ Cardinality(UpTo(bs, b)) # 0
  BY <1>1, <1>2, FS_CardinalityType, FS_EmptySet
<1>4. Place(bs, b) = Cardinality(UpTo(bs, b))
  BY DEF Place, UpTo
<1> QED BY <1>1, <1>2, <1>3, <1>4

\* An entry with a name before another one's has a place before it.
LEMMA PlaceGrows ==
  ASSUME NEW bs, Sortable(bs), NEW b \in bs, NEW c \in bs, NamedBefore(b.number, c.number)
  PROVE  Place(bs, b) < Place(bs, c)
<1>1. bs \subseteq Backup /\ \A x \in bs : x.number \in Nat
  BY DEF Sortable, Backup
<1>2. UpTo(bs, b) \in SUBSET UpTo(bs, c)
  <2>1. ASSUME NEW x \in bs, NamedBefore(x.number, b.number) PROVE NamedBefore(x.number, c.number)
    BY <1>1, <2>1, NamesOrdered
  <2> QED BY <2>1 DEF UpTo
<1>3. c \in UpTo(bs, c) /\ c \notin UpTo(bs, b)
  <2>1. ~NamedBefore(c.number, b.number)
    BY <1>1, NamesOrdered
  <2>2. c # b
    BY <1>1, NamesOrdered
  <2> QED BY <2>1, <2>2 DEF UpTo
<1>4. /\ IsFiniteSet(UpTo(bs, c))
      /\ Place(bs, b) = Cardinality(UpTo(bs, b)) /\ Place(bs, c) = Cardinality(UpTo(bs, c))
      /\ Cardinality(bs) \in Nat
      /\ Place(bs, b) \in 1..Cardinality(bs) /\ Place(bs, c) \in 1..Cardinality(bs)
  BY PlaceIs
<1>5. /\ Cardinality(UpTo(bs, b)) =< Cardinality(UpTo(bs, c))
      /\ Cardinality(UpTo(bs, c)) = Cardinality(UpTo(bs, b)) => UpTo(bs, c) = UpTo(bs, b)
  BY <1>2, <1>4, FS_Subset
<1> QED BY <1>3, <1>4, <1>5

\* Places are in the order of names, and no two entries have one place.
LEMMA PlaceOrder ==
  ASSUME NEW bs, Sortable(bs), NEW b \in bs, NEW c \in bs
  PROVE  /\ Place(bs, b) = Place(bs, c) => b = c
         /\ Place(bs, b) < Place(bs, c) => NamedBefore(b.number, c.number)
<1>1. b.number \in Nat /\ c.number \in Nat /\ (b.number = c.number => b = c)
  BY DEF Sortable, Backup, Unique
<1>2. Cardinality(bs) \in Nat /\ Place(bs, b) \in 1..Cardinality(bs) /\ Place(bs, c) \in 1..Cardinality(bs)
  BY PlaceIs
<1>3. b = c \/ NamedBefore(b.number, c.number) \/ NamedBefore(c.number, b.number)
  BY <1>1, NamesOrdered
<1>4. /\ NamedBefore(b.number, c.number) => Place(bs, b) < Place(bs, c)
      /\ NamedBefore(c.number, b.number) => Place(bs, c) < Place(bs, b)
  BY PlaceGrows
<1> QED BY <1>2, <1>3, <1>4

\* If there are entries, one is the last.
LEMMA LastEntryIs ==
  ASSUME NEW bs, Sortable(bs), bs # {}
  PROVE  LastEntry(bs) \in bs /\ \A c \in bs : c = LastEntry(bs) \/ NamedBefore(c.number, LastEntry(bs).number)
<1> DEFINE K == {Place(bs, b) : b \in bs}
           n == Cardinality(bs)
<1>1. n \in Nat /\ K \subseteq 1..n /\ K # {}
  BY PlaceIs
<1> HIDE DEF n
<1>2. PICK k \in K : \A i \in K : i =< k
  BY <1>1, GreatestIndex
<1>3. PICK b \in bs : k = Place(bs, b)
  OBVIOUS
<1>4. ASSUME NEW c \in bs, c # b PROVE NamedBefore(c.number, b.number)
  <2>1. Place(bs, c) =< Place(bs, b)
    BY <1>2, <1>3
  <2>2. Place(bs, c) # Place(bs, b)
    BY <1>4, PlaceOrder
  <2>3. Place(bs, c) \in Int /\ Place(bs, b) \in Int
    BY PlaceIs
  <2>4. Place(bs, c) < Place(bs, b)
    BY <2>1, <2>2, <2>3
  <2> QED BY <2>4, PlaceOrder
<1>5. \E x \in bs : \A c \in bs : c = x \/ NamedBefore(c.number, x.number)
  BY <1>4
<1> QED BY <1>5 DEF LastEntry

-----------------------------------------------------------------------------
(***************************************************************************)
(* What a save keeps                                                       *)
(***************************************************************************)

\* What stays is a part of what was there.
LEMMA KeptIsPart ==
  ASSUME NEW bs
  PROVE  Remaining(bs) \in SUBSET bs
BY DEF Remaining

\* After room was made there are fewer than the amount.
LEMMA KeptIsFewer ==
  ASSUME NEW bs, Sortable(bs), amount \in Nat, amount > 0
  PROVE  IsFiniteSet(Remaining(bs)) /\ Cardinality(Remaining(bs)) =< amount - 1
<1> DEFINE n == Cardinality(bs)
           excess == n - (amount - 1)
           K == Remaining(bs)
<1>1. IsFiniteSet(bs) /\ n \in Nat /\ IsFiniteSet(K)
  BY KeptIsPart, FS_Subset, FS_CardinalityType DEF Sortable
<1>2. CASE excess =< 0
  <2>1. Cardinality(K) =< n
    BY <1>1, KeptIsPart, FS_Subset
  <2>2. Cardinality(K) \in Nat
    BY <1>1, FS_CardinalityType
  <2> HIDE DEF K, n
  <2> QED BY <1>1, <1>2, <2>1, <2>2 DEF K
<1>3. CASE excess > 0
  <2> DEFINE f == [b \in K |-> Place(bs, b)]
             T == excess + 1..n
  <2>1. K = {b \in bs : Place(bs, b) > excess}
    BY DEF Remaining
  <2>2. \A b \in K : b \in bs /\ Place(bs, b) \in T
    <3>1. ASSUME NEW b \in bs, Place(bs, b) > excess PROVE Place(bs, b) \in T
      <4>1. Place(bs, b) \in 1..n
        BY PlaceIs
      <4> HIDE DEF n
      <4> QED BY <1>1, <3>1, <4>1
    <3> QED BY <2>1, <3>1
  <2>3. \A a, b \in K : f[a] = f[b] => a = b
    BY <2>2, PlaceOrder
  <2>4. f \in Injection(K, T)
    <3>1. f \in [K -> T]
      BY <2>2
    <3> HIDE DEF f, K, T
    <3> QED BY <2>3, <3>1, Fun_IsInj
  <2>5. IsFiniteSet(T) /\ Cardinality(T) = IF excess + 1 > n THEN 0 ELSE n - (excess + 1) + 1
    <3>1. excess + 1 \in Int /\ n \in Int
      BY <1>1
    <3> HIDE DEF n, excess
    <3> QED BY <3>1, FS_Interval
  <2>6. Cardinality(K) =< Cardinality(T)
    <3> HIDE DEF f, K, T
    <3> QED BY <2>4, <2>5, FS_Injection
  <2>7. Cardinality(T) =< amount - 1
    <3> HIDE DEF T, n
    <3> QED BY <1>1, <2>5
  <2>8. Cardinality(K) \in Nat /\ Cardinality(T) \in Nat
    BY <1>1, <2>5, FS_CardinalityType
  <2> HIDE DEF K, T
  <2> QED BY <1>1, <2>6, <2>7, <2>8 DEF K
<1>4. excess \in Int
  BY <1>1
<1> HIDE DEF excess, K
<1> QED BY <1>2, <1>3, <1>4

\* What goes has names before all that stays.
LEMMA GoneIsFirst ==
  ASSUME NEW bs, Sortable(bs), amount \in Nat, NEW g \in bs, g \notin Remaining(bs), NEW b \in Remaining(bs)
  PROVE  NamedBefore(g.number, b.number)
<1>1. b \in bs
  BY KeptIsPart
<1>2. amount > 0
  BY DEF Remaining
<1>3. Cardinality(bs) \in Nat /\ Place(bs, g) \in Int /\ Place(bs, b) \in Int
  BY <1>1, PlaceIs
<1>4. PICK excess \in Int : excess = Cardinality(bs) - (amount - 1)
  BY <1>3
<1>5. Place(bs, b) > excess /\ ~(Place(bs, g) > excess)
  BY <1>1, <1>2, <1>4 DEF Remaining
<1>6. Place(bs, g) < Place(bs, b)
  BY <1>3, <1>4, <1>5
<1> QED BY <1>1, <1>6, PlaceOrder

-----------------------------------------------------------------------------
(***************************************************************************)
(* The copy that is made                                                   *)
(***************************************************************************)

\* Its number is none of a narrow entry, and greater than all of these if it is
\* narrow itself.
LEMMA NextNumberIs ==
  ASSUME NEW bs, Sortable(bs)
  PROVE  /\ NextNumber(bs) \in Nat \ {0}
         /\ \A v \in Nat : (\A b \in bs : b.number =< v) => NextNumber(bs) =< v + 1
         /\ NextNumber(bs) < Wide => \A b \in bs : b.number < Wide => b.number < NextNumber(bs)
<1>1. CASE bs = {}
  BY <1>1 DEF NextNumber
<1>2. CASE bs # {}
  <2>1. PICK e \in bs : e = LastEntry(bs) /\ \A c \in bs : c = e \/ NamedBefore(c.number, e.number)
    BY <1>2, LastEntryIs
  <2>2. e.number \in Nat /\ NextNumber(bs) = e.number + 1
    BY <1>2, <2>1 DEF NextNumber, Sortable, Backup
  <2>3. ASSUME NextNumber(bs) < Wide, NEW b \in bs, b.number < Wide
        PROVE  b.number < NextNumber(bs)
    <3>1. b.number \in Nat /\ e.number < Wide
      BY <2>2, <2>3, WideInt DEF Sortable, Backup
    <3>2. b = e \/ b.number < e.number
      BY <2>1, <2>2, <2>3, <3>1, NamesOrdered
    <3> QED BY <2>2, <3>1, <3>2
  <2>4. NextNumber(bs) \in Nat \ {0} /\ \A v \in Nat : (\A b \in bs : b.number =< v) => NextNumber(bs) =< v + 1
    BY <2>1, <2>2
  <2> QED BY <2>3, <2>4
<1> QED BY <1>1, <1>2

\* Part of a sortable set is one, and as ordered by age.
LEMMA PartIsSortable ==
  ASSUME NEW bs, Sortable(bs), NEW part \in SUBSET bs
  PROVE  Sortable(part) /\ (ByAge(bs) => ByAge(part))
<1>1. IsFiniteSet(part)
  BY FS_Subset DEF Sortable
<1> QED BY <1>1 DEF Sortable, Unique, ByAge

\* A copy is younger than all others and has a number of its own.
LEMMA CopiedIs ==
  ASSUME BInv, NEW rest \in SUBSET backups
  PROVE  LET copied == Copied(rest, NextNumber(backups)) IN
         /\ Sortable(copied) /\ ByAge(copied)
         /\ \A b \in copied : b.number =< version + 1 /\ b.version < version + 1
         /\ rest \subseteq copied /\ \A b \in copied \ rest : b.version = version
         /\ Cardinality(copied) =< Cardinality(rest) + 1
<1> DEFINE n == NextNumber(backups)
           new == [number |-> n, version |-> version]
<1>1. /\ version \in Nat /\ Sortable(backups) /\ ByAge(backups)
      /\ \A b \in backups : b.number =< version /\ b.version < version
  BY DEF BInv
<1>2. /\ n \in Nat \ {0} /\ n =< version + 1
      /\ n < Wide => \A b \in backups : b.number < Wide => b.number < n
  BY <1>1, NextNumberIs
<1>3. Sortable(rest) /\ ByAge(rest) /\ rest \subseteq backups
  BY <1>1, PartIsSortable
<1>4. \A b \in rest : /\ b \in Backup /\ b.number \in Nat /\ b.version \in Nat
                      /\ b.number =< version /\ b.version < version
  BY <1>1, <1>3 DEF Sortable, Backup
<1>5. IsFiniteSet(rest) /\ Cardinality(rest) \in Nat
  BY <1>3, FS_CardinalityType DEF Sortable
<1> HIDE DEF n
<1>6. CASE \E b \in rest : b.number = n
  <2>1. Copied(rest, n) = rest
    BY <1>6 DEF Copied
  <2>2. \A b \in rest : b.number =< version + 1 /\ b.version < version + 1
    BY <1>1, <1>4
  <2> QED BY <1>3, <1>5, <2>1, <2>2 DEF n
<1>7. CASE ~\E b \in rest : b.number = n
  <2>1. Copied(rest, n) = rest \union {new}
    BY <1>7 DEF Copied
  <2>2. new \in Backup /\ new.number = n /\ new.version = version
    BY <1>1, <1>2 DEF Backup
  <2>3. IsFiniteSet(rest \union {new}) /\ Cardinality(rest \union {new}) =< Cardinality(rest) + 1
    <3> HIDE DEF new
    <3>1. /\ IsFiniteSet(rest \union {new})
          /\ Cardinality(rest \union {new}) =
               IF new \in rest THEN Cardinality(rest) ELSE Cardinality(rest) + 1
      BY ONLY <1>5, FS_AddElement
    <3> QED BY <1>5, <3>1
  <2>4. Unique(rest \union {new})
    BY <1>3, <1>7, <2>2 DEF Sortable, Unique
  <2>5. ByAge(rest \union {new})
    <3>1. ASSUME NEW b \in rest \union {new}, NEW c \in rest \union {new}, b.number < c.number, c.number < Wide
          PROVE  b.version < c.version
      <4>1. CASE b \in rest /\ c \in rest
        BY <1>3, <3>1, <4>1 DEF ByAge
      <4>2. CASE b \in rest /\ c = new
        BY <1>4, <2>2, <4>2
      <4>3. CASE b = new /\ c = new
        BY <1>2, <2>2, <3>1, <4>3
      <4>4. CASE b = new /\ c \in rest
        <5>1. n < c.number /\ c.number < Wide /\ c.number \in Nat /\ n \in Nat /\ Wide \in Int
          BY <1>2, <1>4, <2>2, <3>1, <4>4, WideInt
        <5>2. c.number < n
          BY <1>2, <1>3, <4>4, <5>1
        <5> QED BY <5>1, <5>2
      <4> QED BY <4>1, <4>2, <4>3, <4>4
    <3> QED BY <3>1 DEF ByAge
  <2>6. Sortable(rest \union {new})
    BY <1>3, <2>2, <2>3, <2>4 DEF Sortable
  <2>7. \A b \in rest \union {new} : b.number =< version + 1 /\ b.version < version + 1
    BY <1>1, <1>2, <1>4, <2>2
  <2>8. rest \subseteq rest \union {new} /\ \A b \in (rest \union {new}) \ rest : b.version = version
    BY <2>2
  <2> HIDE DEF new
  <2> QED BY <2>1, <2>3, <2>5, <2>6, <2>7, <2>8 DEF n
<1> QED BY <1>6, <1>7

-----------------------------------------------------------------------------
(***************************************************************************)
(* The state machine                                                       *)
(***************************************************************************)

\* No copies, no demands on them.
LEMMA InitBInv == Init => BInv
<1>1. Sortable({}) /\ ByAge({})
  BY FS_EmptySet DEF Sortable, ByAge, Unique
<1> QED BY <1>1, BackupsAssumption DEF Init, BInv

\* A save: the new content makes every copy older.
LEMMA SaveStep == ASSUME BInv, Save PROVE BInv'
<1>1. /\ version \in Nat /\ version =< MaxSaves /\ version < MaxSaves /\ version' = version + 1
      /\ amount' = amount /\ enabled' = enabled /\ amount \in Amounts /\ enabled \in BOOLEAN
      /\ Sortable(backups) /\ ByAge(backups)
      /\ \A b \in backups : b.number =< version /\ b.version < version
  BY DEF BInv, Save
<1>2. Remaining(backups) \in SUBSET backups
  BY KeptIsPart
<1>3. \A b \in backups : b.number =< version + 1 /\ b.version < version + 1
  <2>1. \A b \in backups : b.number \in Nat /\ b.version \in Nat
    BY <1>1 DEF Sortable, Backup
  <2> QED BY <1>1, <2>1
<1>4. /\ Sortable(backups') /\ ByAge(backups')
      /\ \A b \in backups' : b.number =< version + 1 /\ b.version < version + 1
  <2>1. CASE backups' = Copied(Remaining(backups), NextNumber(backups))
    BY <1>2, <2>1, CopiedIs
  <2>2. CASE backups' = Remaining(backups)
    BY <1>1, <1>2, <1>3, <2>2, PartIsSortable
  <2>3. CASE backups' = backups
    BY <1>1, <1>3, <2>3
  <2> QED BY <2>1, <2>2, <2>3 DEF Save
<1>5. version' \in Nat /\ version' =< MaxSaves
  BY <1>1, BackupsAssumption
<1> QED BY <1>1, <1>4, <1>5 DEF BInv, Sortable, Unique, ByAge

\* Every step keeps the copies in order.
LEMMA StepBInv == BInv /\ [Next]_vars => BInv'
<1> SUFFICES ASSUME BInv, [Next]_vars PROVE BInv'
  OBVIOUS
<1>1. CASE Save
  BY <1>1, SaveStep
<1>2. CASE (\E n \in Amounts : SetAmount(n)) \/ (\E on \in BOOLEAN : SetEnabled(on)) \/ UNCHANGED vars
  <2>1. version' = version /\ backups' = backups /\ amount' \in Amounts /\ enabled' \in BOOLEAN
    BY <1>2 DEF BInv, SetAmount, SetEnabled, vars
  <2> QED BY <2>1 DEF BInv, Sortable, Unique, ByAge
<1>3. CASE \E b \in backups : Delete(b)
  <2>1. PICK b \in backups : Delete(b)
    BY <1>3
  <2>2. /\ version' = version /\ amount' = amount /\ enabled' = enabled
        /\ backups' \in SUBSET backups
    BY <2>1 DEF Delete
  <2>3. Sortable(backups') /\ ByAge(backups')
    BY <2>2, PartIsSortable DEF BInv
  <2> QED BY <2>2, <2>3 DEF BInv, Sortable, Unique, ByAge
<1> QED BY <1>1, <1>2, <1>3 DEF Next

\* Copies have numbers of their own that are no greater than the number of saves,
\* and as long as these are narrow they tell the age.
THEOREM BackupsInvariant == Spec => []BInv
<1> QED BY InitBInv, StepBInv, PTL DEF Spec

\* The state has the types it is said to have.
THEOREM BackupsTyped == Spec => []TypeOK
<1>1. BInv => TypeOK
  BY BackupsAssumption DEF BInv, TypeOK, Sortable, Backup
<1> QED BY <1>1, BackupsInvariant, PTL

\* A save never leaves more copies than the options allow, whichever were deleted
\* by hand and whatever the amount was before (MainWindow::saveBackup).
THEOREM AmountIsKept == Spec => KeepsAmount
<1>1. ASSUME BInv, Save, enabled, amount > 0 PROVE Cardinality(backups') =< amount
  <2>1. Sortable(backups) /\ amount \in Nat
    BY <1>1, BackupsAssumption DEF BInv
  <2>2. /\ Remaining(backups) \in SUBSET backups
        /\ IsFiniteSet(Remaining(backups)) /\ Cardinality(Remaining(backups)) =< amount - 1
    BY <1>1, <2>1, KeptIsPart, KeptIsFewer
  <2>3. Cardinality(Remaining(backups)) \in Nat
    BY <2>2, FS_CardinalityType
  <2>4. CASE backups' = Copied(Remaining(backups), NextNumber(backups))
    <3>1. /\ Cardinality(backups') =< Cardinality(Remaining(backups)) + 1
          /\ Sortable(backups')
      BY <1>1, <2>2, <2>4, CopiedIs
    <3>2. Cardinality(backups') \in Nat
      BY <3>1, FS_CardinalityType DEF Sortable
    <3> QED BY <2>1, <2>2, <2>3, <3>1, <3>2
  <2>5. CASE backups' = Remaining(backups)
    BY <2>1, <2>2, <2>3, <2>5
  <2> QED BY <1>1, <2>4, <2>5 DEF Save
<1>2. BInv /\ [Next]_vars => [Save /\ enabled /\ amount > 0 => Cardinality(backups') =< amount]_vars
  BY <1>1
<1> QED BY <1>2, BackupsInvariant, PTL DEF Spec, KeepsAmount

\* Until numbers outgrow their padding, what goes is older than all that stays:
\* names are sorted as the copies were made (MainWindow::saveBackup).
THEOREM NewestAreKept == Spec => KeepsNewest
<1>1. ASSUME BInv, Save, enabled, Narrow(backups), NEW gone \in backups \ backups', NEW b \in backups'
      PROVE  gone.version < b.version
  <2>1. Sortable(backups) /\ amount \in Nat /\ ByAge(backups) /\ gone.version < version
    BY <1>1, BackupsAssumption DEF BInv
  <2>2. Remaining(backups) \in SUBSET backups
    BY KeptIsPart
  <2>3. Remaining(backups) \subseteq backups' /\ \A x \in backups' \ Remaining(backups) : x.version = version
    <3>1. CASE backups' = Copied(Remaining(backups), NextNumber(backups))
      BY <1>1, <2>2, <3>1, CopiedIs
    <3>2. CASE backups' = Remaining(backups)
      BY <3>2
    <3> QED BY <1>1, <3>1, <3>2 DEF Save
  <2>4. CASE b \notin Remaining(backups)
    BY <2>1, <2>3, <2>4
  <2>5. CASE b \in Remaining(backups)
    <3>1. NamedBefore(gone.number, b.number)
      BY <2>1, <2>3, <2>5, GoneIsFirst
    <3>2. gone \in backups /\ b \in backups
      BY <2>2, <2>5
    <3>3. gone.number \in Nat /\ b.number \in Nat /\ gone.number < Wide /\ b.number < Wide
      <4>1. gone.number \in Nat /\ b.number \in Nat
        BY <2>1, <3>2 DEF Sortable, Backup
      <4>2. gone.number < Wide - 1 /\ b.number < Wide - 1
        BY <1>1, <3>2 DEF Narrow
      <4> QED BY <4>1, <4>2, WideInt
    <3>4. gone.number < b.number
      BY <3>1, <3>3, NamesOrdered
    <3> QED BY <2>1, <3>2, <3>3, <3>4 DEF ByAge
  <2> QED BY <2>4, <2>5
<1>2. BInv /\ [Next]_vars =>
        [Save /\ enabled /\ Narrow(backups) =>
           \A gone \in backups \ backups' : \A b \in backups' : gone.version < b.version]_vars
  BY <1>1
<1> QED BY <1>2, BackupsInvariant, PTL DEF Spec, KeepsNewest

-----------------------------------------------------------------------------
(***************************************************************************)
(* The rows of the hex dump                                                *)
(***************************************************************************)

\* The k-th row of the dump of some bytes.
RowAt(from, to, k) ==
  LET first == from + (k - 1) * Row IN
  [address |-> first, bytes |-> [i \in 1..Less(Row, to - first) |-> first + i - 1]]
AnyRow == {RowAt(from, to, k) : from \in Nat, to \in Nat, k \in Nat}

\* n pieces of b, the last one cut or not, are d.
Pieces(n, b, d) == n \in Nat /\ n > 0 /\ (n - 1) * b < d /\ d =< n * b

\* A rounded-up quotient counts the pieces.
LEMMA Quotient ==
  ASSUME NEW d \in Nat, NEW b \in Nat, b > 0, d > 0
  PROVE  Pieces((d + b - 1) \div b, b, d)
<1>1. PICK a \in Nat : a = d + b - 1
  OBVIOUS
<1>2. PICK q \in Int : q = a \div b
  OBVIOUS
<1>3. b * q =< a /\ a < b * q + b
  BY <1>2, Z3T(30)
<1>4. (q - 1) * b = b * q - b /\ q * b = b * q
  BY Z3T(30)
<1>5. (q - 1) * b < d /\ d =< q * b
  BY <1>1, <1>3, <1>4
<1>6. q > 0
  <2>1. ASSUME q =< 0 PROVE FALSE
    <3>1. q * b =< 0
      BY <2>1, Z3T(30)
    <3> QED BY <1>5, <3>1
  <2> QED BY <2>1
<1> QED BY <1>1, <1>2, <1>5, <1>6 DEF Pieces

\* More pieces are longer.
LEMMA TimesMonotone ==
  ASSUME NEW m \in Int, NEW n \in Int, NEW b \in Nat, m =< n
  PROVE  m * b =< n * b
BY Z3T(30)

\* There is one number of pieces.
LEMMA PiecesUnique ==
  ASSUME NEW m, NEW n, NEW b \in Nat, NEW d \in Nat, Pieces(m, b, d), Pieces(n, b, d)
  PROVE  m = n
<1>1. m \in Nat /\ n \in Nat /\ (m - 1) * b < d /\ d =< m * b /\ (n - 1) * b < d /\ d =< n * b
  BY DEF Pieces
<1>2. ~(m =< n - 1)
  <2>1. m =< n - 1 => m * b =< (n - 1) * b
    BY <1>1, TimesMonotone
  <2>2. m * b \in Int /\ (n - 1) * b \in Int
    BY <1>1
  <2> QED BY <1>1, <2>1, <2>2
<1>3. ~(n =< m - 1)
  <2>1. n =< m - 1 => n * b =< (m - 1) * b
    BY <1>1, TimesMonotone
  <2>2. n * b \in Int /\ (m - 1) * b \in Int
    BY <1>1
  <2> QED BY <1>1, <2>1, <2>2
<1> QED BY <1>1, <1>2, <1>3

\* Without a rest, the quotient gives back the dividend.
LEMMA WholeQuotient ==
  ASSUME NEW a \in Int, NEW b \in Int, b > 0, a % b = 0
  PROVE  a = (a \div b) * b
BY Z3T(30)

\* A chunk is made of whole rows.
LEMMA ChunkType ==
  /\ Row \in Nat /\ Row > 0 /\ Chunk \in Nat /\ Chunk > 0
  /\ \E q \in Nat : q > 0 /\ Chunk = q * Row
<1>1. /\ Threads \in Nat /\ Threads > 0 /\ PerChunk \in Nat /\ PerChunk > 0 /\ Row \in Nat /\ Row > 0
      /\ PerChunk % Row = 0
  BY EncoderAssumption
<1>2. PICK p \in Int : p = PerChunk \div Row
  BY <1>1
<1>3. PerChunk = p * Row
  BY <1>1, <1>2, WholeQuotient
<1>4. p > 0
  <2>1. ASSUME p =< 0 PROVE FALSE
    <3>1. p * Row =< 0
      BY <1>1, <2>1, Z3T(30)
    <3> QED BY <1>1, <1>3, <3>1
  <2> QED BY <2>1
<1>5. Chunk = Threads * (p * Row)
  BY <1>3 DEF Chunk
<1>6. PICK q \in Int : q = Threads * p
  BY <1>1
<1>7. q > 0
  BY <1>1, <1>4, <1>6, Z3T(30)
<1>8. Chunk = q * Row
  BY <1>1, <1>5, <1>6, Z3T(30)
<1>9. Chunk \in Int /\ Chunk > 0
  BY <1>1, <1>7, <1>8, Z3T(30)
<1> QED BY <1>1, <1>7, <1>8, <1>9

\* The rows of some bytes.
LEMMA RowsAre ==
  ASSUME NEW from \in Nat, NEW to \in Nat, from < to
  PROVE  \E n \in Nat : Pieces(n, Row, to - from) /\ Rows(from, to) = [k \in 1..n |-> RowAt(from, to, k)]
<1>1. PICK n : n = (to - from + Row - 1) \div Row
  OBVIOUS
<1>2. Pieces(n, Row, to - from)
  BY <1>1, ChunkType, Quotient
<1>3. Rows(from, to) = [k \in 1..n |-> RowAt(from, to, k)]
  BY <1>1 DEF Rows, RowAt
<1> QED BY <1>2, <1>3 DEF Pieces

\* Some bytes have rows, of the kind rows are.
LEMMA RowsType ==
  ASSUME NEW from \in Nat, NEW to \in Nat, from < to
  PROVE  Rows(from, to) \in Seq(AnyRow) /\ Rows(from, to) # <<>>
<1>1. PICK n \in Nat : Pieces(n, Row, to - from) /\ Rows(from, to) = [k \in 1..n |-> RowAt(from, to, k)]
  BY RowsAre
<1>2. n > 0
  BY <1>1 DEF Pieces
<1>3. \A k \in 1..n : RowAt(from, to, k) \in AnyRow
  BY DEF AnyRow
<1>4. Rows(from, to) \in Seq(AnyRow) /\ Len(Rows(from, to)) = n
  BY <1>1, <1>3
<1> QED BY <1>2, <1>4

\* Where a row is whole, it does not matter how many bytes follow it.
LEMMA RowsBeforeCut ==
  ASSUME NEW k \in Nat, NEW x \in Nat, NEW to \in Nat, k > 0, k =< x, x * Row < to
  PROVE  RowAt(0, x * Row, k) = RowAt(0, to, k)
<1>1. PICK cut \in Int, first \in Int : cut = x * Row /\ first = (k - 1) * Row /\ 0 + (k - 1) * Row = first
  BY ChunkType
<1>2. k * Row =< cut /\ k * Row = first + Row
  <2>1. k * Row =< x * Row
    BY ChunkType, TimesMonotone
  <2>2. k * Row = (k - 1) * Row + Row
    BY ChunkType, Z3T(30)
  <2> QED BY <1>1, <2>1, <2>2
<1>3. Row =< cut - first /\ Row =< to - first
  BY <1>1, <1>2, ChunkType
<1>4. Less(Row, cut - first) = Row /\ Less(Row, to - first) = Row
  BY <1>1, <1>3, ChunkType DEF Less
<1> QED BY <1>1, <1>4 DEF RowAt

\* The rows from a row on are those that follow it in the whole.
LEMMA RowsAfterCut ==
  ASSUME NEW j \in Nat, NEW x \in Nat, NEW to \in Nat
  PROVE  RowAt(x * Row, to, j) = RowAt(0, to, x + j)
<1>1. x * Row + (j - 1) * Row = 0 + ((x + j) - 1) * Row
  BY ChunkType, Z3T(30)
<1>2. PICK first : first = x * Row + (j - 1) * Row
  OBVIOUS
<1> QED BY <1>1, <1>2 DEF RowAt

\* Cut between two rows, the rows of both parts are the rows of the whole.
LEMMA RowsJoin ==
  ASSUME NEW x \in Nat, NEW to \in Nat, x > 0, x * Row < to
  PROVE  Rows(0, x * Row) \o Rows(x * Row, to) = Rows(0, to)
<1>1. PICK cut \in Nat : cut = x * Row /\ 0 < cut /\ cut < to
  BY ChunkType, Z3T(30)
<1>2. PICK a \in Nat : Pieces(a, Row, cut - 0) /\ Rows(0, cut) = [k \in 1..a |-> RowAt(0, cut, k)]
  BY <1>1, RowsAre
<1>3. PICK b \in Nat : Pieces(b, Row, to - cut) /\ Rows(cut, to) = [k \in 1..b |-> RowAt(cut, to, k)]
  BY <1>1, RowsAre
<1>4. PICK n \in Nat : Pieces(n, Row, to - 0) /\ Rows(0, to) = [k \in 1..n |-> RowAt(0, to, k)]
  BY <1>1, RowsAre
<1>5. a = x
  <2>1. (x - 1) * Row = x * Row - Row
    BY ChunkType, Z3T(30)
  <2>2. Pieces(x, Row, cut - 0)
    BY <1>1, <2>1, ChunkType DEF Pieces
  <2>3. cut - 0 \in Nat
    BY <1>1
  <2> QED BY <1>2, <2>2, <2>3, ChunkType, PiecesUnique
<1>6. n = x + b
  <2>1. (x + b) * Row = x * Row + b * Row /\ ((x + b) - 1) * Row = x * Row + (b - 1) * Row
    BY ChunkType, Z3T(30)
  <2>2. (b - 1) * Row \in Int /\ b * Row \in Int
    BY ChunkType
  <2>3. (b - 1) * Row < to - cut /\ to - cut =< b * Row
    BY <1>3 DEF Pieces
  <2>4. ((x + b) - 1) * Row < to - 0 /\ to - 0 =< (x + b) * Row
    BY <1>1, <2>1, <2>2, <2>3
  <2>5. Pieces(x + b, Row, to - 0)
    BY <2>4 DEF Pieces
  <2> QED BY <1>4, <2>5, ChunkType, PiecesUnique
<1>7. Rows(0, cut) \o Rows(cut, to) = [k \in 1..(x + b) |->
        IF k =< x THEN RowAt(0, cut, k) ELSE RowAt(cut, to, k - x)]
  <2>1. PICK p : p = Rows(0, cut) /\ p = [k \in 1..x |-> RowAt(0, cut, k)]
    BY <1>2, <1>5
  <2>2. PICK r : r = Rows(cut, to) /\ r = [k \in 1..b |-> RowAt(cut, to, k)]
    BY <1>3
  <2>3. p \o r = [k \in 1..(x + b) |-> IF k =< x THEN RowAt(0, cut, k) ELSE RowAt(cut, to, k - x)]
    <3>1. p \in Seq(AnyRow) /\ Len(p) = x
      <4>1. p \in Seq(AnyRow)
        BY <1>1, <2>1, RowsType
      <4> QED BY <2>1, <4>1
    <3>2. r \in Seq(AnyRow) /\ Len(r) = b
      <4>1. r \in Seq(AnyRow)
        BY <1>1, <2>2, RowsType
      <4> QED BY <2>2, <4>1
    <3>3. p \o r = [k \in 1..(x + b) |-> IF k =< x THEN p[k] ELSE r[k - x]]
      <4>1. /\ p \o r \in Seq(AnyRow)
            /\ Len(p \o r) = Len(p) + Len(r)
            /\ \A k \in 1..Len(p) + Len(r) : (p \o r)[k] = IF k <= Len(p) THEN p[k] ELSE r[k - Len(p)]
        BY <3>1, <3>2, ConcatProperties
      <4>2. PICK t \in Seq(AnyRow) : t = p \o r
        BY <4>1
      <4>3. Len(t) = x + b /\ \A k \in 1..(x + b) : t[k] = IF k =< x THEN p[k] ELSE r[k - x]
        BY <3>1, <3>2, <4>1, <4>2
      <4>4. t = [k \in 1..(x + b) |-> t[k]]
        BY ONLY <4>3, t \in Seq(AnyRow)
      <4> QED BY ONLY <4>2, <4>3, <4>4
    <3>4. \A k \in 1..(x + b) : k =< x => p[k] = RowAt(0, cut, k)
      BY ONLY <2>1, x \in Nat
    <3>5. \A k \in 1..(x + b) : ~(k =< x) => r[k - x] = RowAt(cut, to, k - x)
      BY ONLY <2>2, x \in Nat, b \in Nat
    <3> QED BY <3>3, <3>4, <3>5
  <2> QED BY <2>1, <2>2, <2>3
<1>8. ASSUME NEW k \in 1..(x + b)
      PROVE  (IF k =< x THEN RowAt(0, cut, k) ELSE RowAt(cut, to, k - x)) = RowAt(0, to, k)
  <2>1. CASE k =< x
    BY <1>1, <2>1, RowsBeforeCut
  <2>2. CASE k > x
    <3>1. PICK j \in Nat : j = k - x /\ x + j = k
      BY <2>2
    <3> QED BY <1>1, <2>2, <3>1, RowsAfterCut
  <2> QED BY <2>1, <2>2
<1> QED BY <1>1, <1>4, <1>6, <1>7, <1>8

-----------------------------------------------------------------------------
(***************************************************************************)
(* Chunks                                                                  *)
(***************************************************************************)

\* What the k-th chunk's task signals.
ResultAt(k) == [index |-> (k - 1) * Chunk, rows |-> Rows((k - 1) * Chunk, Less(size, k * Chunk))]

\* There are data, and chunks enough for them.
Sized == size \in Nat /\ size > 0

\* The chunks before the last are whole.
LEMMA ChunksFit ==
  ASSUME Sized
  PROVE  /\ ChunkCount \in Nat /\ ChunkCount > 0
         /\ Less(size, ChunkCount * Chunk) = size
         /\ \A k \in 1..ChunkCount :
              /\ (k - 1) * Chunk \in Nat /\ k * Chunk \in Nat /\ k * Chunk > 0
              /\ (k - 1) * Chunk < size
              /\ (k - 1) * Chunk < Less(size, k * Chunk)
              /\ Less(size, k * Chunk) \in Nat
              /\ k < ChunkCount => k * Chunk < size /\ Less(size, k * Chunk) = k * Chunk
<1>1. Pieces(ChunkCount, Chunk, size)
  BY ChunkType, Quotient DEF Sized, ChunkCount
<1>2. PICK n \in Nat : n = ChunkCount /\ n > 0 /\ (n - 1) * Chunk < size /\ size =< n * Chunk
  BY <1>1 DEF Pieces
<1>3. (n - 1) * Chunk \in Int /\ n * Chunk \in Int
  BY <1>2, ChunkType
<1>4. Less(size, n * Chunk) = size
  BY <1>2, <1>3 DEF Less, Sized
<1>5. ASSUME NEW k \in 1..n
      PROVE  /\ (k - 1) * Chunk \in Nat /\ k * Chunk \in Nat /\ k * Chunk > 0
             /\ (k - 1) * Chunk < size
             /\ (k - 1) * Chunk < Less(size, k * Chunk)
             /\ Less(size, k * Chunk) \in Nat
             /\ k < n => k * Chunk < size /\ Less(size, k * Chunk) = k * Chunk
  <2>1. PICK c \in Int, e \in Int : c = (k - 1) * Chunk /\ e = k * Chunk
    BY ChunkType
  <2>2. e = c + Chunk
    BY <2>1, ChunkType, Z3T(30)
  <2>3. c >= 0
    BY <2>1, ChunkType, Z3T(30)
  <2>4. c =< (n - 1) * Chunk
    BY <2>1, ChunkType, TimesMonotone
  <2>a. PICK last \in Int : last = (n - 1) * Chunk /\ last < size
    BY <1>2, <1>3
  <2>b. size \in Int
    BY DEF Sized
  <2>5. c < size
    BY ONLY <2>1, <2>4, <2>a, <2>b
  <2>6. k < n => e =< (n - 1) * Chunk
    BY <2>1, ChunkType, TimesMonotone
  <2>7. k < n => e < size
    BY ONLY <2>1, <2>6, <2>a, <2>b
  <2>8. size \in Nat
    BY DEF Sized
  <2>9. Less(size, e) = IF size < e THEN size ELSE e
    BY DEF Less
  <2>10. c < Less(size, e) /\ Less(size, e) \in Nat /\ (k < n => Less(size, e) = e)
    BY <2>2, <2>3, <2>5, <2>7, <2>8, <2>9, ChunkType
  <2> QED BY <2>1, <2>2, <2>3, <2>5, <2>7, <2>10, ChunkType
<1> QED BY <1>2, <1>4, <1>5

\* The results in order, joined, are the dump of the data in one piece.
LEMMA DumpJoins ==
  ASSUME Sized, NEW ss,
         ss = [k \in 1..ChunkCount |-> Rows((k - 1) * Chunk, Less(size, k * Chunk))]
  PROVE  FlattenSeq(ss) = Rows(0, size)
<1>1. PICK n \in Nat : n = ChunkCount /\ n > 0
  BY ChunksFit
<1>2. ss \in Seq(Seq(AnyRow)) /\ Len(ss) = n
  <2>1. ASSUME NEW k \in 1..n PROVE Rows((k - 1) * Chunk, Less(size, k * Chunk)) \in Seq(AnyRow)
    BY <1>1, ChunksFit, RowsType
  <2> QED BY <1>1, <2>1
<1>3. PICK f \in [1..n -> Seq(AnyRow)] :
        FlattenSeq(ss) = f[n] /\ f[1] = ss[1] /\ \A i \in 1..n : i > 1 => f[i] = f[i - 1] \o ss[i]
  <2>1. Len(ss) > 0
    BY <1>1, <1>2
  <2>2. SoFar(ss, AnyRow) # {}
    BY ONLY <1>2, <2>1, JoinedSoFar
  <2> QED BY <1>2, <2>2 DEF SoFar
<1> DEFINE P == {i \in 1..n : f[i] = Rows(0, Less(size, i * Chunk))}
<1>4. 1 \in P
  <2>1. 1 \in 1..n /\ (1 - 1) * Chunk = 0
    BY <1>1, ChunkType
  <2>2. ss[1] = Rows((1 - 1) * Chunk, Less(size, 1 * Chunk))
    BY <1>1, <2>1
  <2> QED BY <1>3, <2>1, <2>2
<1>5. ASSUME NEW k \in 1..n, k < n, k \in P PROVE k + 1 \in P
  <2>1. PICK i \in 1..n : i = k + 1 /\ i > 1 /\ i - 1 = k
    BY <1>1, <1>5
  <2>2. f[i] = f[k] \o ss[i] /\ f[k] = Rows(0, Less(size, k * Chunk))
    BY <1>3, <1>5, <2>1
  <2>3. ss[i] = Rows(k * Chunk, Less(size, i * Chunk))
    BY <1>1, <2>1
  <2>4. Less(size, k * Chunk) = k * Chunk
    BY <1>1, <1>5, ChunksFit
  <2>5. k * Chunk < Less(size, i * Chunk) /\ Less(size, i * Chunk) \in Nat
    <3>1. (i - 1) * Chunk < Less(size, i * Chunk) /\ Less(size, i * Chunk) \in Nat
      BY <1>1, ChunksFit
    <3> QED BY <2>1, <3>1
  <2>6. PICK x \in Nat : x > 0 /\ k * Chunk = x * Row
    <3>1. PICK q \in Nat : q > 0 /\ Chunk = q * Row
      BY ChunkType
    <3>2. k * (q * Row) = (k * q) * Row /\ k * q \in Nat /\ k * q > 0
      BY <3>1, ChunkType, Z3T(30)
    <3> QED BY <3>1, <3>2
  <2>7. PICK to \in Nat : to = Less(size, i * Chunk)
    BY <2>5
  <2>8. Rows(0, x * Row) \o Rows(x * Row, to) = Rows(0, to)
    BY <2>5, <2>6, <2>7, RowsJoin
  <2>9. f[i] = Rows(0, to)
    BY <2>2, <2>3, <2>4, <2>6, <2>7, <2>8
  <2> QED BY <2>1, <2>7, <2>9
<1>6. \A k \in 1..n : k \in P
  <2> HIDE DEF P
  <2> QED BY <1>1, <1>4, <1>5, Climb
<1>7. f[n] = Rows(0, Less(size, n * Chunk))
  BY <1>1, <1>6
<1> QED BY <1>1, <1>3, <1>7, ChunksFit

-----------------------------------------------------------------------------
(***************************************************************************)
(* Sorting                                                                 *)
(***************************************************************************)

OneToOne(num) == \A i, j \in DOMAIN num : num[i] = num[j] => i = j
\* The results of the chunks with these numbers.
ResultsOf(num, rs) == DOMAIN rs = DOMAIN num /\ \A i \in DOMAIN num : rs[i] = ResultAt(num[i])

\* Chunks begin in the order of their numbers.
LEMMA IndicesOrdered ==
  ASSUME NEW k \in Nat, NEW l \in Nat
  PROVE  (k - 1) * Chunk < (l - 1) * Chunk <=> k < l
<1>1. k < l => (k - 1) * Chunk < (l - 1) * Chunk
  BY ChunkType, Z3T(30)
<1>2. l =< k => (l - 1) * Chunk =< (k - 1) * Chunk
  BY ChunkType, Z3T(30)
<1>3. (k - 1) * Chunk \in Int /\ (l - 1) * Chunk \in Int
  BY ChunkType
<1> QED BY <1>1, <1>2, <1>3

\* The results of all chunks, sorted.
LEMMA SortedIs ==
  ASSUME NEW n \in Nat, NEW num \in [1..n -> 1..n], OneToOne(num), NEW rs, ResultsOf(num, rs)
  PROVE  Sorted(rs) = [k \in 1..n |-> ResultAt(k)]
<1>1. DOMAIN rs = 1..n /\ \A i \in 1..n : num[i] \in 1..n /\ rs[i] = ResultAt(num[i])
  BY DEF ResultsOf
<1>2. num \in Bijection(1..n, 1..n)
  <2>1. num \in Injection(1..n, 1..n)
    BY DEF OneToOne, Injection, IsInjective
  <2>2. IsFiniteSet(1..n) /\ Cardinality(1..n) = n
    BY FS_Interval
  <2>3. num \in Surjection(1..n, 1..n)
    BY <2>1, <2>2, FS_Injection
  <2> QED BY <2>1, <2>3 DEF Bijection
<1> DEFINE smaller(i) == {j \in DOMAIN rs : rs[j].index < rs[i].index}
<1>3. ASSUME NEW i \in 1..n PROVE Cardinality(smaller(i)) = num[i] - 1
  <2>1. PICK m \in 1..n : m = num[i]
    BY <1>1
  <2>2. smaller(i) = {j \in 1..n : num[j] < m}
    <3>1. \A j \in 1..n : rs[j].index < rs[i].index <=> num[j] < m
      <4>1. ASSUME NEW j \in 1..n PROVE rs[j].index < rs[i].index <=> num[j] < m
        <5>1. rs[j].index = (num[j] - 1) * Chunk /\ rs[i].index = (m - 1) * Chunk
          <6>1. rs[j] = ResultAt(num[j]) /\ rs[i] = ResultAt(m)
            BY <1>1, <2>1
          <6> QED BY ONLY <6>1 DEF ResultAt
        <5>2. num[j] \in Nat /\ m \in Nat
          BY <1>1
        <5>3. (num[j] - 1) * Chunk < (m - 1) * Chunk <=> num[j] < m
          BY ONLY <5>2, IndicesOrdered
        <5> QED BY <5>1, <5>3
      <4> QED BY <4>1
    <3> QED BY <1>1, <3>1
  <2> DEFINE below == {j \in 1..n : num[j] < m}
             g == [j \in below |-> num[j]]
  <2>3. g \in Bijection(below, 1..(m - 1))
    <3>1. g \in [below -> 1..(m - 1)]
      BY <1>1
    <3>2. \A a, b \in below : g[a] = g[b] => a = b
      BY DEF OneToOne
    <3>3. \A y \in 1..(m - 1) : \E x \in below : g[x] = y
      <4>1. ASSUME NEW y \in 1..(m - 1) PROVE \E x \in below : g[x] = y
        <5>1. y \in 1..n /\ y < m
          OBVIOUS
        <5>2. PICK x \in 1..n : num[x] = y
          BY <1>2, <5>1 DEF Bijection, Surjection
        <5> QED BY <5>1, <5>2
      <4> QED BY <4>1
    <3> HIDE DEF g, below
    <3> QED BY <3>1, <3>2, <3>3 DEF Bijection, Injection, Surjection, IsInjective
  <2>4. Cardinality(below) = m - 1
    <3>1. IsFiniteSet(1..(m - 1)) /\ Cardinality(1..(m - 1)) = m - 1
      BY FS_Interval
    <3>2. IsFiniteSet(below)
      <4>1. below \subseteq 1..n /\ IsFiniteSet(1..n)
        BY FS_Interval
      <4> HIDE DEF below
      <4> QED BY <4>1, FS_Subset
    <3> HIDE DEF g, below
    <3>3. ExistsBijection(below, 1..(m - 1))
      BY <2>3 DEF ExistsBijection
    <3> QED BY <3>1, <3>2, <3>3, FS_Bijection
  <2> QED BY <2>1, <2>2, <2>4
<1>4. ASSUME NEW k \in 1..n PROVE rs[CHOOSE i \in DOMAIN rs : Cardinality(smaller(i)) = k - 1] = ResultAt(k)
  <2>1. PICK x \in 1..n : num[x] = k
    BY <1>2 DEF Bijection, Surjection
  <2> HIDE DEF smaller
  <2>2. PICK i : i = CHOOSE j \in DOMAIN rs : Cardinality(smaller(j)) = k - 1
    OBVIOUS
  <2>3. i \in DOMAIN rs /\ Cardinality(smaller(i)) = k - 1
    BY <1>1, <1>3, <2>1, <2>2
  <2>4. num[i] = k
    BY <1>1, <1>3, <2>3
  <2> QED BY <1>1, <2>2, <2>3, <2>4
<1> QED BY <1>1, <1>4 DEF Sorted

-----------------------------------------------------------------------------
(***************************************************************************)
(* The invariant of the encoder                                            *)
(***************************************************************************)

\* The tasks from the taken-th on wait, in order.
Waiting(taken) == pool = [j \in 1..(ChunkCount - taken) |-> TaskAt(taken + j)]

\* What the taken tasks came to: num numbers the chunks whose results are there
\* or on their way, in the order in which they came; the others are in threads.
Unnumbered(taken, num) == {k \in 1..taken : \A i \in DOMAIN num : num[i] # k}
Numbers(taken, num) ==
  /\ num \in [1..(Len(results) + Len(signals)) -> 1..taken]
  /\ OneToOne(num)
  /\ running = {TaskAt(k) : k \in Unnumbered(taken, num)}
  /\ \A i \in 1..Len(results) : results[i] = ResultAt(num[i])
  /\ \A i \in 1..Len(signals) : signals[i] = ResultAt(num[Len(results) + i])

BeforeStart == /\ caller = "before" /\ tasks = 0 /\ result = <<>>
          /\ pool = <<>> /\ running = {} /\ signals = <<>> /\ results = <<>>
InStart == /\ caller = "waiting" /\ tasks = ChunkCount /\ result = <<>>
          /\ \E s : results \in Seq(s) /\ signals \in Seq(s)
          /\ \E taken \in 0..ChunkCount : Waiting(taken) /\ \E num : Numbers(taken, num)
AfterStart ==  /\ caller = "after" /\ tasks = ChunkCount /\ result = Rows(0, size) /\ size > 0
          /\ pool = <<>> /\ running = {} /\ signals = <<>>
          /\ results = [k \in 1..ChunkCount |-> ResultAt(k)]

\* The inductive invariant.
EncoderInv == size \in Sizes /\ (BeforeStart \/ InStart \/ AfterStart)

\* Chunks are counted, and no data have none.
LEMMA ChunkCountType ==
  ASSUME size \in Nat
  PROVE  ChunkCount \in Nat /\ (size = 0 => ChunkCount = 0)
<1>1. CASE size > 0
  BY <1>1, ChunksFit DEF Sized
<1>2. CASE size = 0
  <2>1. PICK c \in Nat : c = Chunk /\ c > 0
    BY ChunkType
  <2>2. (0 + c - 1) \div c = 0
    BY <2>1, Z3T(30)
  <2> QED BY <1>2, <2>1, <2>2 DEF ChunkCount
<1> QED BY <1>1, <1>2

\* Sizes are numbers.
LEMMA SizeType == size \in Sizes => size \in Nat
BY EncoderAssumption

\* Two chunks have two tasks.
LEMMA TasksDiffer ==
  ASSUME NEW k \in Nat, NEW l \in Nat, TaskAt(k) = TaskAt(l)
  PROVE  k = l
<1>1. (k - 1) * Chunk = (l - 1) * Chunk
  BY DEF TaskAt
<1>2. (k - 1) * Chunk \in Int /\ (l - 1) * Chunk \in Int
  BY ChunkType
<1>3. ~(k < l) /\ ~(l < k)
  BY <1>1, <1>2, IndicesOrdered
<1> QED BY <1>3

\* A task's rows are those of its chunk.
LEMMA TaskResult ==
  ASSUME size \in Nat, NEW k \in 1..ChunkCount
  PROVE  [index |-> TaskAt(k).index, rows |-> Rows(TaskAt(k).index, Less(size, TaskAt(k).index + TaskAt(k).size))]
         = ResultAt(k)
<1>1. Sized
  BY ChunkCountType DEF Sized
<1>2. PICK c \in Nat, e \in Nat : c = (k - 1) * Chunk /\ e = k * Chunk /\ c < size
  BY <1>1, ChunksFit
<1>3. e = c + Chunk
  BY <1>2, ChunkType, ChunkCountType, Z3T(30)
<1>4. Less(size, c + Less(Chunk, size - c)) = Less(size, e)
  BY <1>2, <1>3, ChunkType DEF Less
<1> QED BY <1>2, <1>4 DEF TaskAt, ResultAt

\* Start: every task waits.
LEMMA StartKeeps ==
  ASSUME EncoderInv, Start PROVE EncoderInv'
<1>1. /\ size \in Sizes /\ size' = size /\ BeforeStart
      /\ caller' = "waiting" /\ tasks' = ChunkCount /\ pool' = [k \in 1..ChunkCount |-> TaskAt(k)]
      /\ running' = {} /\ signals' = <<>> /\ results' = <<>> /\ result' = <<>>
  BY DEF EncoderInv, Start, BeforeStart, InStart, AfterStart
<1>2. ChunkCount \in Nat /\ ChunkCount' = ChunkCount
  BY <1>1, SizeType, ChunkCountType DEF ChunkCount
<1>3. Waiting(0)'
  BY <1>1, <1>2 DEF Waiting, TaskAt
<1>4. Numbers(0, <<>>)'
  BY <1>1, <1>2 DEF Numbers, Unnumbered, OneToOne
<1>5. InStart'
  BY <1>1, <1>2, <1>3, <1>4 DEF InStart
<1> QED BY <1>1, <1>5 DEF EncoderInv

\* A thread takes the oldest task.
LEMMA TakeTaskKeeps ==
  ASSUME EncoderInv, TakeTask PROVE EncoderInv'
<1>1. size \in Sizes /\ InStart /\ pool # <<>> /\ UNCHANGED <<size, caller, tasks, signals, results, result>>
  BY DEF EncoderInv, TakeTask, BeforeStart, AfterStart
<1>2. PICK taken, num : taken \in 0..ChunkCount /\ Waiting(taken) /\ Numbers(taken, num)
  BY <1>1 DEF InStart
<1>3. ChunkCount \in Nat /\ ChunkCount' = ChunkCount /\ \A k : TaskAt(k)' = TaskAt(k)
  BY <1>1, SizeType, ChunkCountType DEF ChunkCount, TaskAt
<1>4. taken < ChunkCount
  BY <1>1, <1>2, <1>3 DEF Waiting
<1>5. Head(pool) = TaskAt(taken + 1) /\ Tail(pool) = [j \in 1..(ChunkCount - (taken + 1)) |-> TaskAt(taken + 1 + j)]
  <2>1. PICK d \in Nat : d > 0 /\ d = ChunkCount - taken /\ ChunkCount - (taken + 1) = d - 1
    BY <1>2, <1>3, <1>4
  <2>2. pool = [j \in 1..d |-> TaskAt(taken + j)]
    BY <1>2, <2>1 DEF Waiting
  <2>3. Head(pool) = pool[1] /\ Tail(pool) = [j \in 1..(d - 1) |-> pool[j + 1]]
    BY <2>1, <2>2
  <2>4. 1 \in 1..d /\ \A j \in 1..(d - 1) : j + 1 \in 1..d /\ taken + (j + 1) = taken + 1 + j
    BY <1>2, <2>1
  <2> QED BY <2>1, <2>2, <2>3, <2>4
<1>6. Waiting(taken + 1)'
  BY <1>3, <1>5 DEF Waiting, TakeTask
<1>7. Numbers(taken + 1, num)'
  <2>1. Unnumbered(taken + 1, num) = Unnumbered(taken, num) \cup {taken + 1}
    BY <1>2, <1>3 DEF Unnumbered, Numbers
  <2>2. running' = {TaskAt(k) : k \in Unnumbered(taken + 1, num)}
    BY <1>2, <1>5, <2>1 DEF Numbers, TakeTask
  <2>3. num \in [1..(Len(results) + Len(signals)) -> 1..(taken + 1)]
    BY <1>2 DEF Numbers
  <2> QED BY <1>1, <1>2, <1>3, <2>2, <2>3 DEF Numbers, Unnumbered, ResultAt
<1>8. InStart'
  BY <1>1, <1>2, <1>3, <1>4, <1>6, <1>7 DEF InStart
<1> QED BY <1>1, <1>8 DEF EncoderInv

\* One more number.
WithNumber(num, n, k) == [i \in 1..(n + 1) |-> IF i = n + 1 THEN k ELSE num[i]]

\* The new chunk is the only one that gets a number.
LEMMA OneMore ==
  ASSUME NEW n \in Nat, NEW taken \in Nat, NEW num \in [1..n -> 1..taken], OneToOne(num),
         NEW k \in Unnumbered(taken, num)
  PROVE  /\ WithNumber(num, n, k) \in [1..(n + 1) -> 1..taken]
         /\ OneToOne(WithNumber(num, n, k))
         /\ Unnumbered(taken, WithNumber(num, n, k)) = Unnumbered(taken, num) \ {k}
         /\ WithNumber(num, n, k)[n + 1] = k
         /\ \A i \in 1..n : WithNumber(num, n, k)[i] = num[i]
<1> DEFINE g == WithNumber(num, n, k)
<1>1. k \in 1..taken /\ \A i \in 1..n : num[i] # k
  BY DEF Unnumbered
<1>2. g \in [1..(n + 1) -> 1..taken] /\ g[n + 1] = k /\ \A i \in 1..n : g[i] = num[i]
  BY <1>1 DEF WithNumber
<1>3. \A i \in 1..(n + 1) : i = n + 1 \/ i \in 1..n
  OBVIOUS
<1>4. n + 1 \in 1..(n + 1) /\ \A i \in 1..n : i \in 1..(n + 1)
  OBVIOUS
<1> HIDE DEF g
<1>5. OneToOne(g)
  <2>1. ASSUME NEW i \in 1..(n + 1), NEW j \in 1..(n + 1), g[i] = g[j] PROVE i = j
    <3>1. CASE i = n + 1 /\ j = n + 1
      BY <3>1
    <3>2. CASE i = n + 1 /\ j \in 1..n
      BY <1>1, <1>2, <2>1, <3>2
    <3>3. CASE j = n + 1 /\ i \in 1..n
      BY <1>1, <1>2, <2>1, <3>3
    <3>4. CASE i \in 1..n /\ j \in 1..n
      BY <1>2, <2>1, <3>4 DEF OneToOne
    <3> QED BY <1>3, <3>1, <3>2, <3>3, <3>4
  <2>2. DOMAIN g = 1..(n + 1)
    BY <1>2
  <2> QED BY <2>1, <2>2 DEF OneToOne
<1>6. Unnumbered(taken, g) = Unnumbered(taken, num) \ {k}
  <2>1. DOMAIN g = 1..(n + 1) /\ DOMAIN num = 1..n
    BY <1>2
  <2>2. ASSUME NEW t PROVE (\A i \in 1..(n + 1) : g[i] # t) <=> (t # k /\ \A i \in 1..n : num[i] # t)
    BY <1>2, <1>3, <1>4
  <2> QED BY <2>1, <2>2 DEF Unnumbered
<1> QED BY <1>2, <1>5, <1>6 DEF g

\* A task signals its result: its chunk gets the next number.
LEMMA RunTaskKeeps ==
  ASSUME EncoderInv, NEW t \in running, RunTask(t) PROVE EncoderInv'
<1>1. size \in Sizes /\ InStart /\ UNCHANGED <<size, caller, tasks, pool, results, result>>
  BY DEF EncoderInv, RunTask, BeforeStart, AfterStart
<1>2. PICK taken, num : taken \in 0..ChunkCount /\ Waiting(taken) /\ Numbers(taken, num)
  BY <1>1 DEF InStart
<1>3. ChunkCount \in Nat /\ ChunkCount' = ChunkCount /\ \A k : TaskAt(k)' = TaskAt(k) /\ ResultAt(k)' = ResultAt(k)
  BY <1>1, SizeType, ChunkCountType DEF ChunkCount, TaskAt, ResultAt
<1>4. PICK s : results \in Seq(s) /\ signals \in Seq(s)
  BY <1>1 DEF InStart
<1>5. PICK k \in Unnumbered(taken, num) : t = TaskAt(k)
  BY <1>2 DEF Numbers
<1>6. k \in 1..taken /\ k \in 1..ChunkCount /\ \A i \in DOMAIN num : num[i] # k
  BY <1>2, <1>3 DEF Unnumbered
<1>7. signals' = Append(signals, ResultAt(k))
  BY <1>1, <1>5, <1>6, SizeType, TaskResult DEF RunTask
<1> DEFINE n == Len(results) + Len(signals)
<1>8. n \in Nat /\ Len(results) \in Nat /\ Len(signals) \in Nat /\ Len(signals') = Len(signals) + 1
  BY <1>4, <1>7
<1>9. num \in [1..n -> 1..taken]
  BY <1>2 DEF Numbers
<1>10. Waiting(taken)'
  BY <1>1, <1>2, <1>3 DEF Waiting
<1>11. PICK num2 :
       /\ num2 \in [1..(n + 1) -> 1..taken]
       /\ OneToOne(num2)
       /\ Unnumbered(taken, num2) = Unnumbered(taken, num) \ {k}
       /\ num2[n + 1] = k
       /\ \A i \in 1..n : num2[i] = num[i]
  <2>1. OneToOne(num) /\ taken \in Nat
    BY <1>2, <1>3 DEF Numbers
  <2>2. k \in Unnumbered(taken, num)
    BY <1>5
  <2>4. n \in Nat
    BY <1>8
  <2> HIDE DEF n
  <2>3. /\ WithNumber(num, n, k) \in [1..(n + 1) -> 1..taken]
        /\ OneToOne(WithNumber(num, n, k))
        /\ Unnumbered(taken, WithNumber(num, n, k)) = Unnumbered(taken, num) \ {k}
        /\ WithNumber(num, n, k)[n + 1] = k
        /\ \A i \in 1..n : WithNumber(num, n, k)[i] = num[i]
    BY ONLY <1>9, <2>1, <2>2, <2>4, OneMore
  <2> QED BY <2>3
<1>12. running' = {TaskAt(l) : l \in Unnumbered(taken, num2)}
  <2>2. \A l \in Unnumbered(taken, num) : TaskAt(l) = TaskAt(k) => l = k
    BY <1>6, TasksDiffer DEF Unnumbered
  <2>3. running = {TaskAt(l) : l \in Unnumbered(taken, num)} /\ running' = running \ {TaskAt(k)}
    BY <1>2, <1>5 DEF Numbers, RunTask
  <2> QED BY <1>11, <2>2, <2>3
<1>13. \A i \in 1..Len(results) : results[i] = ResultAt(num2[i])
  <2>1. ASSUME NEW i \in 1..Len(results) PROVE results[i] = ResultAt(num2[i])
    <3>1. i \in 1..n
      BY <1>8
    <3>2. results[i] = ResultAt(num[i])
      BY <1>2 DEF Numbers
    <3> QED BY <1>11, <3>1, <3>2
  <2> QED BY <2>1
<1>14. \A i \in 1..Len(signals') : signals'[i] = ResultAt(num2[Len(results) + i])
  <2>1. ASSUME NEW i \in 1..(Len(signals) + 1) PROVE signals'[i] = ResultAt(num2[Len(results) + i])
    <3>1. CASE i = Len(signals) + 1
      <4>1. signals'[i] = ResultAt(k)
        BY <1>4, <1>7, <1>8, <3>1
      <4>2. Len(results) + i = n + 1
        BY <1>8, <3>1
      <4> QED BY <1>11, <4>1, <4>2
    <3>2. CASE i # Len(signals) + 1
      <4>1. i \in 1..Len(signals) /\ signals'[i] = signals[i]
        BY <1>4, <1>7, <1>8, <3>2
      <4>2. signals[i] = ResultAt(num[Len(results) + i])
        BY <1>2, <4>1 DEF Numbers
      <4>3. num2[Len(results) + i] = num[Len(results) + i]
        <5>1. Len(results) + i \in 1..n
          BY <1>8, <4>1
        <5> QED BY <1>11, <5>1
      <4> QED BY <4>1, <4>2, <4>3
    <3> QED BY <3>1, <3>2
  <2> QED BY <1>8, <2>1
<1>15. Numbers(taken, num2)'
  <2>1. Len(results') + Len(signals') = n + 1 /\ Len(results') = Len(results)
    BY <1>1, <1>8
  <2>2. num2 \in [1..(Len(results') + Len(signals')) -> 1..taken]
    BY <1>11, <2>1
  <2>3. \A i \in 1..Len(results') : results'[i] = ResultAt(num2[i])
    BY <1>1, <1>13
  <2>4. \A i \in 1..Len(signals') : signals'[i] = ResultAt(num2[Len(results') + i])
    BY <1>14, <2>1
  <2> HIDE DEF n
  <2> QED BY <1>3, <1>11, <1>12, <2>2, <2>3, <2>4 DEF Numbers, Unnumbered
<1>16. \E r : results' \in Seq(r) /\ signals' \in Seq(r)
  <2>1. results \in Seq(s \cup {ResultAt(k)}) /\ signals' \in Seq(s \cup {ResultAt(k)})
    BY <1>4, <1>7
  <2> QED BY <1>1, <2>1
<1>17. InStart'
  BY <1>1, <1>2, <1>3, <1>10, <1>15, <1>16 DEF InStart
<1> QED BY <1>1, <1>17 DEF EncoderInv

\* A result is delivered.  With the last one the numbers are all there are, once
\* each: nothing is left, and the results, sorted, are those of the first to the
\* last chunk.
LEMMA AddResultKeeps ==
  ASSUME EncoderInv, AddResult PROVE EncoderInv'
<1>1. /\ size \in Sizes /\ InStart /\ signals # <<>> /\ UNCHANGED <<size, tasks, pool, running>>
      /\ tasks = ChunkCount /\ signals' = Tail(signals)
  BY DEF EncoderInv, AddResult, BeforeStart, InStart, AfterStart
<1>2. PICK taken, num : taken \in 0..ChunkCount /\ Waiting(taken) /\ Numbers(taken, num)
  BY <1>1 DEF InStart
<1>3. ChunkCount \in Nat /\ ChunkCount' = ChunkCount /\ \A k : TaskAt(k)' = TaskAt(k) /\ ResultAt(k)' = ResultAt(k)
  BY <1>1, SizeType, ChunkCountType DEF ChunkCount, TaskAt, ResultAt
<1>4. PICK s : results \in Seq(s) /\ signals \in Seq(s)
  BY <1>1 DEF InStart
<1> DEFINE all == Append(results, Head(signals))
           n == Len(results) + Len(signals)
           m == Len(results)
<1>5. /\ n \in Nat /\ m \in Nat /\ Len(signals) \in Nat /\ Len(signals) > 0
      /\ all \in Seq(s) /\ Len(all) = m + 1
      /\ Tail(signals) \in Seq(s) /\ Len(Tail(signals)) = Len(signals) - 1
      /\ \A i \in 1..(Len(signals) - 1) : Tail(signals)[i] = signals[i + 1]
      /\ \A i \in 1..m : all[i] = results[i]
      /\ all[m + 1] = signals[1]
  BY <1>1, <1>4
<1>6. num \in [1..n -> 1..taken] /\ OneToOne(num)
  BY <1>2 DEF Numbers
<1>7. \A i \in 1..(m + 1) : all[i] = ResultAt(num[i])
  <2>1. signals[1] = ResultAt(num[m + 1])
    BY <1>2, <1>5 DEF Numbers
  <2>2. \A i \in 1..m : results[i] = ResultAt(num[i])
    BY <1>2 DEF Numbers
  <2> HIDE DEF all
  <2> QED BY <1>5, <2>1, <2>2
<1>8. CASE Len(all) = tasks
  <2>1. results' = Sorted(all) /\ result' = Joined(Sorted(all)) /\ caller' = "after"
    BY <1>8 DEF AddResult
  <2>2. m + 1 = ChunkCount /\ ChunkCount > 0
    BY <1>1, <1>5, <1>8
  <2>3. size \in Nat /\ Sized
    BY <1>1, <2>2, SizeType, ChunkCountType DEF Sized
  <2>4. n = ChunkCount /\ taken = ChunkCount
    <3>1. IsFiniteSet(1..taken) /\ Cardinality(1..taken) = taken /\ Cardinality(1..n) = n
      <4>1. ASSUME NEW c \in Nat PROVE IsFiniteSet(1..c) /\ Cardinality(1..c) = c
        <5>1. IsFiniteSet(1..c) /\ Cardinality(1..c) = IF 1 > c THEN 0 ELSE c - 1 + 1
          BY FS_Interval
        <5> QED BY <5>1
      <4>2. taken \in Nat /\ n \in Nat
        BY <1>2, <1>3, <1>5
      <4> HIDE DEF n
      <4> QED BY <4>1, <4>2
    <3>2. num \in Injection(1..n, 1..taken)
      BY <1>6 DEF OneToOne, Injection, IsInjective
    <3>3. Cardinality(1..n) =< Cardinality(1..taken)
      BY <3>1, <3>2, FS_Injection
    <3> QED BY <1>2, <1>3, <1>5, <2>2, <3>1, <3>3
  <2>5. num \in [1..ChunkCount -> 1..ChunkCount] /\ DOMAIN num = 1..ChunkCount
    BY <1>6, <2>4
  <2>6. ResultsOf(num, all)
    BY <1>5, <1>7, <2>2, <2>5 DEF ResultsOf
  <2>7. Sorted(all) = [k \in 1..ChunkCount |-> ResultAt(k)]
    <3> HIDE DEF all
    <3> QED BY <1>3, <1>6, <2>5, <2>6, SortedIs
  <2>8. Joined(Sorted(all)) = Rows(0, size)
    <3>1. PICK ss : ss = [k \in 1..ChunkCount |-> Rows((k - 1) * Chunk, Less(size, k * Chunk))]
      OBVIOUS
    <3>2. Joined(Sorted(all)) = FlattenSeq(ss)
      <4>1. \A k \in 1..ChunkCount : ResultAt(k).rows = ss[k]
        BY <3>1 DEF ResultAt
      <4>2. DOMAIN Sorted(all) = 1..ChunkCount /\ \A k \in 1..ChunkCount : Sorted(all)[k] = ResultAt(k)
        BY <2>7
      <4>3. [k \in DOMAIN Sorted(all) |-> Sorted(all)[k].rows] = ss
        BY <3>1, <4>1, <4>2
      <4> QED BY <4>3 DEF Joined
    <3> QED BY <2>3, <3>1, <3>2, DumpJoins
  <2>9. Tail(signals) = <<>>
    BY <1>4, <1>5, <2>2, <2>4
  <2>10. pool = <<>>
    BY <1>2, <1>3, <2>4 DEF Waiting
  <2>11. running = {}
    <3>1. num \in Surjection(1..n, 1..taken)
      <4>1. IsFiniteSet(1..taken) /\ Cardinality(1..taken) = Cardinality(1..n)
        BY <1>3, <2>4, FS_Interval
      <4>2. num \in Injection(1..n, 1..taken)
        BY <1>6 DEF OneToOne, Injection, IsInjective
      <4> QED BY <4>1, <4>2, FS_Injection
    <3>2. Unnumbered(taken, num) = {}
      BY <1>6, <3>1 DEF Unnumbered, Surjection
    <3> QED BY <1>2, <3>2 DEF Numbers
  <2> HIDE DEF all
  <2>12. AfterStart'
    BY <1>1, <1>3, <2>1, <2>3, <2>7, <2>8, <2>9, <2>10, <2>11 DEF AfterStart, Sized, Rows
  <2> QED BY <1>1, <2>12 DEF EncoderInv
<1>9. CASE Len(all) # tasks
  <2>1. results' = all /\ UNCHANGED <<result, caller>>
    BY <1>9 DEF AddResult
  <2> HIDE DEF all
  <2>2. Len(results') = m + 1 /\ Len(signals') = Len(signals) - 1
    BY <1>1, <1>5, <2>1
  <2>3. \A i \in 1..Len(results') : results'[i] = ResultAt(num[i])
    BY <1>7, <2>1, <2>2
  <2>4. \A i \in 1..Len(signals') : signals'[i] = ResultAt(num[Len(results') + i])
    <3>1. ASSUME NEW i \in 1..(Len(signals) - 1) PROVE signals'[i] = ResultAt(num[m + 1 + i])
      <4>1. PICK j \in 1..Len(signals) : j = i + 1 /\ m + j = m + 1 + i
        BY <1>5
      <4>2. signals'[i] = signals[j]
        BY <1>1, <1>5, <4>1
      <4>3. signals[j] = ResultAt(num[m + j])
        BY <1>2 DEF Numbers
      <4> QED BY <4>1, <4>2, <4>3
    <3> QED BY <2>2, <3>1
  <2>5. Len(results') + Len(signals') = n
    BY <1>5, <2>2
  <2>6. running' = {TaskAt(k) : k \in Unnumbered(taken, num)}
    BY <1>1, <1>2 DEF Numbers
  <2>7. Numbers(taken, num)'
    BY <1>3, <1>6, <2>3, <2>4, <2>5, <2>6 DEF Numbers, Unnumbered
  <2>8. Waiting(taken)'
    BY <1>1, <1>2, <1>3 DEF Waiting
  <2>9. \E r : results' \in Seq(r) /\ signals' \in Seq(r)
    BY <1>1, <1>5, <2>1
  <2>10. InStart'
    BY <1>1, <1>2, <1>3, <2>1, <2>7, <2>8, <2>9 DEF InStart
  <2> QED BY <1>1, <2>10 DEF EncoderInv
<1> QED BY <1>8, <1>9

\* Whatever order threads finish in, the results that came are those of different
\* chunks, and the chunks without one are in a thread or in the pool
\* (AddrHexAsciiEncoder::start, addResult and the task's run).
THEOREM EncoderInvariant == EncoderSpec => []EncoderInv
<1>1. EncoderInit => EncoderInv
  BY DEF EncoderInit, EncoderInv, BeforeStart
<1>2. EncoderInv /\ [EncoderNext]_encoderVars => EncoderInv'
  <2> SUFFICES ASSUME EncoderInv, [EncoderNext]_encoderVars PROVE EncoderInv'
    OBVIOUS
  <2>1. CASE Start
    BY <2>1, StartKeeps
  <2>2. CASE TakeTask
    BY <2>2, TakeTaskKeeps
  <2>3. CASE RunSome
    <3>1. PICK t \in running : RunTask(t)
      BY <2>3 DEF RunSome
    <3> QED BY <3>1, RunTaskKeeps
  <2>4. CASE AddResult
    BY <2>4, AddResultKeeps
  <2>5. CASE UNCHANGED encoderVars
    <3>1. UNCHANGED <<size, caller, tasks, pool, running, signals, results, result>>
      BY <2>5 DEF encoderVars
    <3>2. ChunkCount' = ChunkCount /\ \A k : TaskAt(k)' = TaskAt(k) /\ ResultAt(k)' = ResultAt(k)
      BY <3>1 DEF ChunkCount, TaskAt, ResultAt
    <3>3. \A taken, num : Waiting(taken) /\ Numbers(taken, num) => (Waiting(taken) /\ Numbers(taken, num))'
      BY <3>1, <3>2 DEF Waiting, Numbers, Unnumbered
    <3>4. BeforeStart => BeforeStart'
      BY <3>1 DEF BeforeStart
    <3>5. InStart => InStart'
      BY <3>1, <3>2, <3>3 DEF InStart
    <3>6. AfterStart => AfterStart'
      BY <3>1, <3>2 DEF AfterStart, Rows
    <3> QED BY <3>1, <3>4, <3>5, <3>6 DEF EncoderInv
  <2> QED BY <2>1, <2>2, <2>3, <2>4, <2>5 DEF EncoderNext
<1> QED BY <1>1, <1>2, PTL DEF EncoderSpec

\* The state has the types it is said to have.
THEOREM EncoderTypes == EncoderSpec => []EncoderTypeOK
<1>1. EncoderInv => EncoderTypeOK
  <2> SUFFICES ASSUME EncoderInv PROVE EncoderTypeOK
    OBVIOUS
  <2>1. size \in Sizes /\ size \in Nat
    BY SizeType DEF EncoderInv
  <2>2. ChunkCount \in Nat
    BY <2>1, ChunkCountType
  <2>3. ASSUME NEW k \in 1..ChunkCount
        PROVE  /\ TaskAt(k).index \in 0..(size - 1) /\ TaskAt(k).size \in 1..Chunk
               /\ ResultAt(k).index \in 0..(size - 1) /\ ResultAt(k).rows # <<>>
    <3>1. Sized
      BY <2>1, ChunkCountType DEF Sized
    <3>2. PICK c \in Nat, e \in Nat :
            c = (k - 1) * Chunk /\ e = Less(size, k * Chunk) /\ c < size /\ c < e
      BY <3>1, ChunksFit
    <3>3. TaskAt(k).index = c /\ TaskAt(k).size = Less(Chunk, size - c) /\ ResultAt(k).index = c
      BY <3>2 DEF TaskAt, ResultAt
    <3>4. Less(Chunk, size - c) \in 1..Chunk
      BY <2>1, <3>2, ChunkType DEF Less
    <3>5. ResultAt(k).rows = Rows(c, e)
      BY <3>2 DEF ResultAt
    <3> QED BY <2>1, <3>2, <3>3, <3>4, <3>5, RowsType
  <2>4. CASE BeforeStart
    BY <2>1, <2>4 DEF BeforeStart, EncoderTypeOK, ToSet
  <2>5. CASE InStart
    <3>1. PICK taken, num : taken \in 0..ChunkCount /\ Waiting(taken) /\ Numbers(taken, num)
      BY <2>5 DEF InStart
    <3>2. \A t \in running \cup ToSet(pool) : \E k \in 1..ChunkCount : t = TaskAt(k)
      <4>1. \A t \in running : \E k \in 1..ChunkCount : t = TaskAt(k)
        BY <2>2, <3>1 DEF Numbers, Unnumbered
      <4>2. \A t \in ToSet(pool) : \E k \in 1..ChunkCount : t = TaskAt(k)
        BY <2>2, <3>1 DEF Waiting, ToSet
      <4> QED BY <4>1, <4>2
    <3>3. \A r \in ToSet(signals) \cup ToSet(results) : \E k \in 1..ChunkCount : r = ResultAt(k)
      <4>1. PICK s : results \in Seq(s) /\ signals \in Seq(s)
        BY <2>5 DEF InStart
      <4>2. num \in [1..(Len(results) + Len(signals)) -> 1..taken]
        BY <3>1 DEF Numbers
      <4>3. ASSUME NEW i \in 1..Len(results) PROVE \E k \in 1..ChunkCount : results[i] = ResultAt(k)
        <5>1. results[i] = ResultAt(num[i])
          BY <3>1 DEF Numbers
        <5>2. num[i] \in 1..ChunkCount
          BY <2>2, <3>1, <4>1, <4>2
        <5> QED BY <5>1, <5>2
      <4>4. ASSUME NEW i \in 1..Len(signals) PROVE \E k \in 1..ChunkCount : signals[i] = ResultAt(k)
        <5>1. signals[i] = ResultAt(num[Len(results) + i])
          BY <3>1 DEF Numbers
        <5>2. num[Len(results) + i] \in 1..taken
          <6>1. Len(results) + i \in 1..(Len(results) + Len(signals))
            BY <4>1
          <6> QED BY <4>2, <6>1
        <5>3. num[Len(results) + i] \in 1..ChunkCount
          BY <2>2, <3>1, <5>2
        <5> QED BY <5>1, <5>3
      <4>5. DOMAIN results = 1..Len(results) /\ DOMAIN signals = 1..Len(signals)
        BY <4>1
      <4> QED BY <4>3, <4>4, <4>5 DEF ToSet
    <3>4. caller = "waiting" /\ tasks \in Nat /\ result = <<>>
      BY <2>2, <2>5 DEF InStart
    <3> QED BY <2>1, <2>3, <3>2, <3>3, <3>4 DEF EncoderTypeOK
  <2>6. CASE AfterStart
    <3>1. /\ caller = "after" /\ tasks \in Nat /\ running = {} /\ ToSet(pool) = {} /\ ToSet(signals) = {}
      BY <2>2, <2>6 DEF AfterStart, ToSet
    <3>2. \A r \in ToSet(results) : \E k \in 1..ChunkCount : r = ResultAt(k)
      BY <2>6 DEF AfterStart, ToSet
    <3>3. \A i \in DOMAIN result : DOMAIN result[i] = {"address", "bytes"}
      <4>1. 0 < size /\ result = Rows(0, size)
        BY <2>1, <2>6 DEF AfterStart
      <4>2. PICK n \in Nat : result = [k \in 1..n |-> RowAt(0, size, k)]
        BY <2>1, <4>1, RowsAre
      <4>3. \A k \in 1..n : DOMAIN RowAt(0, size, k) = {"address", "bytes"}
        BY DEF RowAt
      <4> QED BY <4>2, <4>3
    <3> QED BY <2>1, <2>3, <3>1, <3>2, <3>3 DEF EncoderTypeOK
  <2> QED BY <2>4, <2>5, <2>6 DEF EncoderInv
<1> QED BY <1>1, EncoderInvariant, PTL

\* What start returns with is the dump of the whole data in one piece, for every
\* size, chunk, number of threads and order of their results
\* (AddrHexAsciiEncoder::addResult).
THEOREM DumpIsWhole == EncoderSpec => []ResultIsWhole
<1>1. EncoderInv => ResultIsWhole
  BY DEF EncoderInv, BeforeStart, InStart, AfterStart, ResultIsWhole
<1> QED BY <1>1, EncoderInvariant, PTL

-----------------------------------------------------------------------------
(***************************************************************************)
(* What a file says                                                        *)
(***************************************************************************)

\* The types of commands are numbers.
CommandTypes == Segment \cup DyldInfo \cup Dylib \cup Path \cup LinkEdit \cup VersionMin \cup Thread
                \cup {Symtab, Dysymtab, Main, Uuid, SourceVersion, DataInCode}

\* The recursion of Starts has a solution.
LEMMA StartsAre ==
  ASSUME NEW f \in Seq(Int), NEW b \in Int, f[b + 5] \in Nat
  PROVE  /\ Commands(f, b) = 1..f[b + 5]
         /\ Starts(f, b) \in [1..f[b + 5] -> Int]
         /\ f[b + 5] > 0 => Starts(f, b)[1] = b + HeadWords(f, b)
         /\ \A i \in 1..f[b + 5] : i > 1 => Starts(f, b)[i] = Following(f, Starts(f, b)[i - 1])
<1>1. PICK n \in Nat : n = f[b + 5] /\ Commands(f, b) = 1..n
  BY DEF Commands
<1>2. PICK h \in Int : h = b + HeadWords(f, b)
  BY DEF HeadWords
<1>3. \A p \in Int : Following(f, p) \in Int
  BY DEF Following
<1> DEFINE back == [i \in 1..n |-> i - 1]
           take == [i \in 1..n |-> [p \in Int |-> IF i = 1 THEN h ELSE Following(f, p)]]
<1>4. back \in [1..n -> Nat] /\ \A i \in 1..n : back[i] < i
  BY <1>1
<1>5. take \in [1..n -> [Int -> Int]]
  BY <1>2, <1>3
<1>6. PICK g \in [1..n -> Int] : \A i \in 1..n : g[i] = take[i][IF back[i] = 0 THEN 0 ELSE g[back[i]]]
  <2> HIDE DEF back, take
  <2>1. 0 \in Int
    OBVIOUS
  <2>2. Solutions(n, Int, back, take, 0) # {}
    BY <1>4, <1>5, <2>1, LeapRecursion, Zenon
  <2> QED BY <2>2 DEF Solutions
<1>7. ASSUME NEW i \in 1..n PROVE g[i] = IF i = 1 THEN h ELSE Following(f, g[i - 1])
  <2>1. PICK x \in Int : x = IF back[i] = 0 THEN 0 ELSE g[back[i]]
    <3>1. back[i] = i - 1 /\ (i # 1 => i - 1 \in 1..n)
      BY <1>1
    <3> HIDE DEF back
    <3> QED BY <1>6, <3>1
  <2>2. g[i] = take[i][x]
    BY <1>6, <2>1
  <2>3. i # 1 => x = g[i - 1]
    BY <2>1
  <2> QED BY <2>2, <2>3
<1>8. g = [i \in Commands(f, b) |-> IF i = 1 THEN b + HeadWords(f, b) ELSE Following(f, g[i - 1])]
  BY <1>1, <1>2, <1>6, <1>7
<1>9. Starts(f, b) = [i \in Commands(f, b) |-> IF i = 1 THEN b + HeadWords(f, b) ELSE Following(f, Starts(f, b)[i - 1])]
  BY <1>8 DEF Starts
<1> DEFINE s == Starts(f, b)
           P == {i \in 1..n : s[i] \in Int}
<1>10. ASSUME NEW i \in 1..n PROVE s[i] = IF i = 1 THEN h ELSE Following(f, s[i - 1])
  BY <1>1, <1>2, <1>9
<1>11. n > 0 => 1 \in P
  BY <1>2, <1>10
<1>12. ASSUME NEW k \in 1..n, k < n, k \in P PROVE k + 1 \in P
  <2>1. k + 1 \in 1..n /\ k + 1 # 1 /\ (k + 1) - 1 = k
    BY <1>1, <1>12
  <2>2. s[k + 1] = Following(f, s[k])
    BY <1>10, <2>1
  <2> QED BY <1>3, <1>12, <2>1, <2>2
<1>13. \A k \in 1..n : k \in P
  <2> HIDE DEF P
  <2> QED BY <1>1, <1>11, <1>12, Climb
<1>14. s \in [1..n -> Int]
  <2>1. s = [i \in 1..n |-> s[i]]
    BY <1>1, <1>9
  <2> QED BY <1>13, <2>1
<1> QED BY <1>1, <1>2, <1>10, <1>14

\* Where the words of a command are that parseHeader reads in full.
LEMMA ReadInFullIs ==
  ASSUME NEW f \in Seq(Int), NEW b \in Int, NEW p \in Nat, ReadInFull(f, b, p)
  PROVE  /\ f[p + 1] \in CommandTypes /\ f[p + 2] \in Nat /\ f[p + 2] >= 4
         /\ p + f[p + 2] =< Len(f)
         /\ \A n \in 1..f[p + 2] : f[p + n] \in Int
<1>1. p + 4 =< Len(f) /\ p + f[p + 2] =< Len(f) /\ SizedAs(f, b, p) /\ Len(f) \in Nat
  BY DEF ReadInFull
<1>2. \A n \in Int : n >= 1 /\ p + n =< Len(f) => f[p + n] \in Int
  BY <1>1
<1>3. PICK extent \in Int : extent = f[p + 2]
  BY <1>1, <1>2
<1>4. f[p + 4] \in Int
  BY <1>1, <1>2
<1>5. f[p + 1] \in CommandTypes
  BY <1>1 DEF SizedAs, CommandTypes
<1>6. extent >= 4
  <2>1. \/ extent >= SegmentHead(f, b) \/ extent \in {12, 20, 6, 4} \/ extent >= 6 \/ extent >= 4
        \/ f[p + 4] >= 0 /\ extent = 4 + f[p + 4]
    BY <1>1, <1>3 DEF SizedAs
  <2>2. PICK h \in {14, 18} : h = SegmentHead(f, b)
    BY DEF SegmentHead
  <2>3. PICK v \in Int : v = f[p + 4]
    BY <1>4
  <2>4. extent >= h \/ extent \in {12, 20, 6, 4} \/ extent >= 6 \/ extent >= 4 \/ (v >= 0 /\ extent = 4 + v)
    BY <2>1, <2>2, <2>3
  <2> QED BY <2>4
<1>7. f[p + 2] \in Nat /\ f[p + 2] >= 4
  BY <1>3, <1>6
<1>8. \A n \in 1..f[p + 2] : f[p + n] \in Int
  BY <1>1, <1>2, <1>7
<1> QED BY <1>1, <1>5, <1>7, <1>8

\* The commands of an object lie one behind the other.
LEMMA CommandsFollow ==
  ASSUME NEW f \in Seq(Int), NEW b \in Int, Understood(f, b)
  PROVE  /\ f[b + 5] \in Nat /\ Commands(f, b) = 1..f[b + 5]
         /\ b \in Nat /\ b + 7 =< Len(f) /\ IsMachO(f, b)
         /\ f[b + 5] > 0 => Starts(f, b)[1] = b + HeadWords(f, b)
         /\ \A i \in 1..f[b + 5] :
              LET p == Starts(f, b)[i] IN
              /\ p \in Nat /\ p >= b + 7 /\ ReadInFull(f, b, p)
              /\ i < f[b + 5] => Starts(f, b)[i + 1] = p + f[p + 2]
<1>1. /\ b >= 0 /\ b + 7 =< Len(f) /\ IsMachO(f, b) /\ f[b + 5] >= 0
      /\ \A i \in Commands(f, b) : ReadInFull(f, b, Starts(f, b)[i])
  BY DEF Understood
<1>2. f[b + 5] \in Int
  BY <1>1
<1>3. PICK n \in Nat : n = f[b + 5]
  BY <1>1, <1>2
<1>4. PICK s : s = Starts(f, b)
  OBVIOUS
<1>5. /\ Commands(f, b) = 1..n /\ s \in [1..n -> Int]
      /\ n > 0 => s[1] = b + HeadWords(f, b)
      /\ \A i \in 1..n : i > 1 => s[i] = Following(f, s[i - 1])
  BY <1>3, <1>4, StartsAre
<1>6. ASSUME NEW i \in 1..n, s[i] \in Nat PROVE i < n => s[i + 1] = s[i] + f[s[i] + 2]
  <2>1. ReadInFull(f, b, s[i])
    BY <1>1, <1>4, <1>5
  <2>2. s[i] + 2 \in DOMAIN f
    <3>1. s[i] + 4 =< Len(f)
      BY <2>1 DEF ReadInFull
    <3> QED BY <1>6, <3>1
  <2>3. i < n => i + 1 \in 1..n /\ i + 1 > 1 /\ (i + 1) - 1 = i
    BY <1>3
  <2> QED BY <1>5, <2>2, <2>3 DEF Following
<1> DEFINE P == {i \in 1..n : s[i] \in Nat /\ s[i] >= b + 7}
<1>7. n > 0 => 1 \in P
  BY <1>1, <1>5 DEF HeadWords
<1>8. ASSUME NEW k \in 1..n, k < n, k \in P PROVE k + 1 \in P
  <2>1. k + 1 \in 1..n
    BY <1>8
  <2>2. f[s[k] + 2] \in Nat
    BY <1>1, <1>4, <1>5, <1>8, ReadInFullIs
  <2> QED BY <1>6, <1>8, <2>1, <2>2
<1>9. \A k \in 1..n : k \in P
  <2> HIDE DEF P
  <2> QED BY <1>7, <1>8, Climb
<1> QED BY <1>1, <1>3, <1>4, <1>5, <1>6, <1>9

\* A number of at least four takes one further.
LEMMA Beyond ==
  ASSUME NEW x \in Nat, NEW d \in Nat, d >= 4
  PROVE  x + d \in Nat /\ x < x + d
OBVIOUS

\* Later commands begin further on.
LEMMA StartsGrow ==
  ASSUME NEW f \in Seq(Int), NEW b \in Int, Understood(f, b),
         NEW i \in 1..f[b + 5], NEW j \in 1..f[b + 5], i < j
  PROVE  Starts(f, b)[i] < Starts(f, b)[j]
<1>1. PICK n \in Nat : n = f[b + 5]
  BY CommandsFollow
<1>2. PICK s : s = Starts(f, b)
  OBVIOUS
<1> DEFINE P == {k \in 1..n : i < k => s[i] < s[k]}
<1>3. n > 0 => 1 \in P
  BY <1>1
<1>4. ASSUME NEW k \in 1..n, k < n, k \in P PROVE k + 1 \in P
  <2>1. PICK x : x = s[k]
    OBVIOUS
  <2>2. x \in Nat /\ ReadInFull(f, b, x) /\ s[k + 1] = x + f[x + 2] /\ s[i] \in Nat
    BY <1>1, <1>2, <1>4, <2>1, CommandsFollow
  <2>3. PICK d \in Nat : d = f[x + 2] /\ d >= 4
    BY <2>2, ReadInFullIs
  <2>4. PICK y \in Nat : y = s[k + 1] /\ x < y
    <3>1. x \in Nat
      BY <2>2
    <3>2. x + d \in Nat /\ x < x + d
      BY <2>3, <3>1, Beyond
    <3>3. s[k + 1] = x + d
      BY <2>2, <2>3
    <3> QED BY <3>2, <3>3
  <2>5. i < k + 1 => s[i] < y
    <3>1. CASE i = k
      BY <2>1, <2>4, <3>1
    <3>2. CASE i < k
      <4>1. s[i] < x
        BY <1>4, <2>1, <3>2
      <4> QED BY <2>2, <2>4, <4>1
    <3> QED BY <1>4, <3>1, <3>2
  <2> QED BY <1>4, <2>4, <2>5
<1>5. \A k \in 1..n : k \in P
  <2> HIDE DEF P
  <2> QED BY <1>1, <1>3, <1>4, Climb
<1> QED BY <1>1, <1>2, <1>5

-----------------------------------------------------------------------------
(***************************************************************************)
(* What the parser keeps                                                   *)
(***************************************************************************)
\* The file is the beginning of the whole.
CutOff == Len(file) =< Len(whole) /\ \A k \in 1..Len(file) : file[k] = whole[k]

\* The versions among sections are two words before end, and in the order of the file.
VersionsBefore(sections, end) ==
  /\ \A j \in DOMAIN sections : sections[j].type \in Platforms =>
       sections[j].size = 2 /\ sections[j].offset \in Nat /\ sections[j].offset + 2 =< end
  /\ \A j, k \in DOMAIN sections :
       j < k /\ sections[j].type \in Platforms /\ sections[k].type \in Platforms =>
         sections[j].offset < sections[k].offset

-----------------------------------------------------------------------------
\* The kinds of sections with versions.
LEMMA PlatformsAre ==
  /\ Platforms = {"LC_VERSION_MIN_MACOSX", "LC_VERSION_MIN_IPHONEOS", "LC_VERSION_MIN_WATCHOS", "LC_VERSION_MIN_TVOS"}
  /\ \A t \in VersionMin : VersionSection[t] \in Platforms
<1>1. /\ VersionSection[36] = "LC_VERSION_MIN_MACOSX" /\ VersionSection[37] = "LC_VERSION_MIN_IPHONEOS"
      /\ VersionSection[47] = "LC_VERSION_MIN_WATCHOS" /\ VersionSection[48] = "LC_VERSION_MIN_TVOS"
  BY DEF VersionSection, VersionMin
<1> QED BY <1>1 DEF Platforms, VersionMin

\* The words that the reader has are numbers.
LEMMA WordType ==
  ASSUME ParserTypeOK, NEW n \in Nat, Has(n + 1)
  PROVE  Word(n) \in Int
<1>1. PICK L \in Nat, q \in Nat : L = Len(file) /\ q = pos /\ DOMAIN file = 1..L
  BY DEF ParserTypeOK
<1>2. q + n + 1 \in 1..L
  BY <1>1 DEF Has
<1>3. file[q + n + 1] \in Int
  BY <1>1, <1>2 DEF ParserTypeOK
<1> QED BY <1>1, <1>3 DEF Word

\* Wherever the reader goes, it stays in the file.
LEMMA AfterType ==
  ASSUME ParserTypeOK, NEW p \in Nat, NEW n \in Int
  PROVE  /\ After(p, n) \in 0..Len(file)
         /\ p =< Len(file) => After(p, n) >= p
<1>1. PICK L \in Nat : L = Len(file)
  BY DEF ParserTypeOK
<1> QED BY <1>1 DEF After, Least

\* What is read at a time are words, at most as many as wanted.
LEMMA WordsType ==
  ASSUME ParserTypeOK, NEW p \in Int, NEW n \in Int
  PROVE  Words(p, n) \in Seq(Int)
<1>1. PICK L \in Nat : L = Len(file) /\ file \in Seq(Int)
  BY DEF ParserTypeOK
<1>2. CASE p < 0
  BY <1>2 DEF Words
<1>3. CASE p >= 0
  <2>0. After(p, n) \in 0..Len(file)
    <3>1. p \in Nat
      BY <1>3
    <3> QED BY <3>1, AfterType
  <2>1. PICK e \in Nat : e = After(p, n) /\ e =< L
    BY <1>1, <2>0
  <2>2. \A i \in (p + 1)..e : file[i] \in Int
    BY <1>1, <1>3, <2>1
  <2>3. SubSeq(file, p + 1, e) \in Seq(Int)
    BY <2>2, <1>1, <1>3, <2>1, SubSeqProperties
  <2> QED BY <1>3, <2>1, <2>3 DEF Words
<1> QED BY <1>2, <1>3

\* A new section of the given kind.
LEMMA SectionOfType ==
  ASSUME NEW t \in SectionTypes, NEW a \in Int, NEW s \in Int, NEW o \in Int
  PROVE  SectionOf(t, a, s, o) \in SectionRecords
<1>1. <<>> \in Seq(Int)
  OBVIOUS
<1> QED BY <1>1 DEF SectionOf, SectionRecords

\* A section behind others.
LEMMA AppendVersions ==
  ASSUME NEW sections \in Seq(SectionRecords), NEW s \in SectionRecords, NEW end \in Nat, NEW new \in Nat, end =< new,
         VersionsBefore(sections, end),
         s.type \in Platforms => s.size = 2 /\ s.offset \in Nat /\ s.offset >= end /\ s.offset + 2 =< new
  PROVE  /\ Append(sections, s) \in Seq(SectionRecords)
         /\ VersionsBefore(Append(sections, s), new)
<1>1. PICK n \in Nat : n = Len(sections) /\ DOMAIN sections = 1..n
  OBVIOUS
<1>2. PICK r : r = Append(sections, s)
  OBVIOUS
<1>3. /\ r \in Seq(SectionRecords) /\ Len(r) = n + 1 /\ DOMAIN r = 1..(n + 1) /\ r[n + 1] = s
      /\ \A j \in 1..n : r[j] = sections[j]
  BY <1>1, <1>2, AppendProperties
<1>4. ASSUME NEW j \in DOMAIN r, r[j].type \in Platforms
      PROVE  r[j].size = 2 /\ r[j].offset \in Nat /\ r[j].offset + 2 =< new
  <2>1. CASE j = n + 1
    BY <1>3, <1>4, <2>1
  <2>2. CASE j # n + 1
    <3>1. j \in 1..n
      BY <1>3, <2>2
    <3> QED BY <1>1, <1>3, <1>4, <3>1 DEF VersionsBefore
  <2> QED BY <2>1, <2>2
<1>5. ASSUME NEW j \in DOMAIN r, NEW k \in DOMAIN r, j < k, r[j].type \in Platforms, r[k].type \in Platforms
      PROVE  r[j].offset < r[k].offset
  <2>1. j \in 1..n
    BY <1>3, <1>5
  <2>2. sections[j].offset \in Nat /\ sections[j].offset + 2 =< end
    BY <1>1, <1>3, <1>5, <2>1 DEF VersionsBefore
  <2>3. CASE k = n + 1
    BY <1>3, <1>5, <2>1, <2>2, <2>3
  <2>4. CASE k # n + 1
    <3>1. k \in 1..n
      BY <1>3, <2>4
    <3> QED BY <1>1, <1>3, <1>5, <2>1, <3>1 DEF VersionsBefore
  <2> QED BY <2>3, <2>4
<1> QED BY <1>2, <1>3, <1>4, <1>5 DEF VersionsBefore

\* Sections that hold no versions, behind others.
LEMMA JoinVersions ==
  ASSUME NEW sections \in Seq(SectionRecords), NEW more \in Seq(SectionRecords), NEW end \in Nat, NEW new \in Nat,
         end =< new, VersionsBefore(sections, end), \A j \in DOMAIN more : more[j].type \notin Platforms
  PROVE  /\ sections \o more \in Seq(SectionRecords)
         /\ VersionsBefore(sections \o more, new)
<1>1. PICK n \in Nat, m \in Nat : n = Len(sections) /\ DOMAIN sections = 1..n /\ m = Len(more) /\ DOMAIN more = 1..m
  OBVIOUS
<1>2. PICK r : r = sections \o more
  OBVIOUS
<1>3. /\ r \in Seq(SectionRecords) /\ Len(r) = n + m /\ DOMAIN r = 1..(n + m)
      /\ \A j \in 1..(n + m) : r[j] = IF j =< n THEN sections[j] ELSE more[j - n]
  BY <1>1, <1>2, ConcatProperties
<1>4. ASSUME NEW j \in DOMAIN r, r[j].type \in Platforms PROVE j \in 1..n /\ r[j] = sections[j]
  <2>1. CASE j =< n
    BY <1>3, <2>1
  <2>2. CASE ~(j =< n)
    <3>1. j - n \in 1..m
      BY <1>1, <1>3, <2>2
    <3> QED BY <1>1, <1>3, <1>4, <2>2, <3>1
  <2> QED BY <2>1, <2>2
<1>5. ASSUME NEW j \in DOMAIN r, r[j].type \in Platforms
      PROVE  r[j].size = 2 /\ r[j].offset \in Nat /\ r[j].offset + 2 =< new
  BY <1>1, <1>4, <1>5 DEF VersionsBefore
<1>6. ASSUME NEW j \in DOMAIN r, NEW k \in DOMAIN r, j < k, r[j].type \in Platforms, r[k].type \in Platforms
      PROVE  r[j].offset < r[k].offset
  BY <1>1, <1>4, <1>6 DEF VersionsBefore
<1> QED BY <1>2, <1>3, <1>5, <1>6 DEF VersionsBefore

\* The section that LoadSegment makes of the one with index j in its segment.
SectionFrom(j) == SectionOf(KindOf(j), FieldsOf(j).address, FieldsOf(j).size, object.base + FieldsOf(j).offset)
NeededIndices == Selected([j \in 1..SectionCount |-> j - 1], {j \in 1..SectionCount : IsNeeded(j - 1)})
NeededSections == [i \in DOMAIN NeededIndices |-> SectionFrom(NeededIndices[i])]

\* The widths of segments and sections.
LEMMA SegmentWidths ==
  ASSUME ParserTypeOK
  PROVE  \/ object.bits = 64 /\ SegmentWords = 18 /\ SectionWords = 20 /\ SectionChecked = 17
         \/ object.bits = 32 /\ SegmentWords = 14 /\ SectionWords = 17 /\ SectionChecked = 15
BY DEF ParserTypeOK, Opened, SegmentWords, SectionWords, SectionChecked

\* In a segment that is whole, the words of each section are in the file.
LEMMA SegmentWordsThere ==
  ASSUME ParserTypeOK, Has(2), SegmentIsWhole
  PROVE  /\ SectionCount \in Nat
         /\ \A j \in 0..SectionCount - 1 : At(j) \in Nat /\ Has(At(j) + SectionChecked)
<1>1. PICK L \in Nat, q \in Nat : L = Len(file) /\ q = pos
  BY DEF ParserTypeOK
<1> DEFINE S == SegmentWords
           W == SectionWords
           C == SectionChecked
<1>2. /\ S \in Nat /\ W \in Nat /\ C \in Nat
      /\ \/ S = 18 /\ W = 20 /\ C = 17
         \/ S = 14 /\ W = 17 /\ C = 15
  BY SegmentWidths
<1>9. SegmentWords = S /\ SectionWords = W /\ SectionChecked = C
  OBVIOUS
<1> HIDE DEF S, W, C
<1>3. PICK c \in Int : c = SectionCount
  <2>1. S - 2 \in Nat /\ Has((S - 2) + 1)
    BY <1>1, <1>2, <1>9 DEF SegmentIsWhole, Has
  <2>2. Word(S - 2) \in Int
    BY <2>1, WordType
  <2> QED BY <1>9, <2>2 DEF SectionCount
<1>4. c # 0 => S + (c - 1) * W + C >= 0 /\ q + (S + (c - 1) * W + C) =< L
  BY <1>1, <1>2, <1>3, <1>9 DEF SegmentIsWhole, Has, At
<1>5. c \in Nat
  BY <1>2, <1>3, <1>4
<1>6. ASSUME NEW j \in 0..(c - 1) PROVE At(j) \in Nat /\ Has(At(j) + C)
  <2>1. At(j) = S + j * W
    BY <1>9 DEF At
  <2>2. j \in Nat /\ c # 0 /\ j =< c - 1
    BY <1>5
  <2>3. S + j * W \in Nat /\ S + j * W + C >= 0 /\ S + j * W + C =< S + (c - 1) * W + C
    BY <1>2, <1>5, <2>2
  <2>4. q + (S + j * W + C) =< L
    BY <1>1, <1>2, <1>4, <1>5, <2>2, <2>3
  <2> QED BY <1>1, <2>1, <2>3, <2>4 DEF Has
<1> QED BY <1>9, <1>3, <1>5, <1>6

\* What becomes of a section that is needed.
LEMMA SectionFromType ==
  ASSUME ParserTypeOK, Has(2), SegmentIsWhole, NEW j \in 0..SectionCount - 1, IsNeeded(j)
  PROVE  /\ SectionFrom(j) \in SectionRecords
         /\ SectionFrom(j).type = KindOf(j)
         /\ KindOf(j) \in {"TEXT", "SYMBOL_STUBS", "CSTRING"}
         /\ KindOf(j) \notin Platforms
         /\ SectionFrom(j).size = FieldsOf(j).size
         /\ SectionFrom(j).offset = object.base + FieldsOf(j).offset
<1>1. PICK L \in Nat, q \in Nat : L = Len(file) /\ q = pos
  BY DEF ParserTypeOK
<1>2. PICK a \in Nat : a = At(j) /\ Has(a + SectionChecked)
  BY SegmentWordsThere
<1>3. \A n \in 8..12 : Word(a + n) \in Int
  <2> SUFFICES ASSUME NEW n \in 8..12 PROVE Word(a + n) \in Int
    OBVIOUS
  <2>1. a + n \in Nat /\ Has((a + n) + 1)
    <3>1. SectionChecked \in Nat /\ SectionChecked >= 15
      BY SegmentWidths
    <3> QED BY <1>1, <1>2, <3>1, SMTT(60) DEF Has
  <2> QED BY <2>1, WordType
<1>4. FieldsOf(j).address \in Int /\ FieldsOf(j).size \in Int /\ FieldsOf(j).offset \in Int
  BY <1>2, <1>3 DEF FieldsOf
<1>5. KindOf(j) \in {"TEXT", "SYMBOL_STUBS", "CSTRING"}
  BY DEF IsNeeded, KindOf
<1>6. KindOf(j) \in SectionTypes /\ KindOf(j) \notin Platforms
  BY <1>5, PlatformsAre DEF SectionTypes
<1>7. object.base + FieldsOf(j).offset \in Int
  BY <1>4 DEF ParserTypeOK, Opened
<1>8. SectionFrom(j) \in SectionRecords
  BY <1>4, <1>6, <1>7, SectionOfType DEF SectionFrom
<1> QED BY <1>5, <1>6, <1>8 DEF SectionFrom, SectionOf

\* The needed sections, in their order.
LEMMA NeededSectionsAre ==
  ASSUME ParserTypeOK, Has(2), SegmentIsWhole
  PROVE  /\ NeededSections \in Seq(SectionRecords)
         /\ \A k \in DOMAIN NeededSections : \E j \in 0..SectionCount - 1 :
              IsNeeded(j) /\ NeededSections[k] = SectionFrom(j)
         /\ \A j \in 0..SectionCount - 1 : IsNeeded(j) =>
              \E k \in DOMAIN NeededSections : NeededSections[k] = SectionFrom(j)
<1>1. PICK c \in Nat : c = SectionCount
  BY SegmentWordsThere
<1> DEFINE s == [j \in 1..SectionCount |-> j - 1]
           K == {j \in 1..SectionCount : IsNeeded(j - 1)}
<1>2. s \in Seq(Nat) /\ DOMAIN s = 1..c /\ \A j \in 1..c : s[j] = j - 1
  <2>1. s \in [1..c -> Nat]
    BY <1>1
  <2> QED BY <1>1, <2>1, IsASeq
<1>3. K \subseteq DOMAIN s /\ \A j \in 1..c : j \in K <=> IsNeeded(j - 1)
  BY <1>1, <1>2
<1>4. NeededIndices = Selected(s, K)
  BY DEF NeededIndices
<1> HIDE DEF s, K
<1>5. PICK m \in Nat : m = Cardinality(K)
  <2>1. K \subseteq 1..c
    BY <1>2, <1>3
  <2> QED BY <2>1, RankType
<1>6. /\ DOMAIN NeededIndices = 1..m
      /\ \A k \in 1..m : Nth(K, k) \in K /\ NeededIndices[k] = s[Nth(K, k)]
      /\ \A i \in K : Rank(K, i) \in 1..m /\ Nth(K, Rank(K, i)) = i
  BY <1>2, <1>3, <1>4, <1>5, SelectedEnumerates, SMTT(60)
<1>7. ASSUME NEW k \in 1..m
      PROVE  /\ NeededIndices[k] \in 0..c - 1 /\ IsNeeded(NeededIndices[k])
             /\ NeededSections[k] = SectionFrom(NeededIndices[k])
  <2>1. PICK i \in 1..c : i = Nth(K, k) /\ i \in K
    BY <1>2, <1>3, <1>6
  <2>2. NeededIndices[k] = i - 1 /\ IsNeeded(i - 1) /\ i - 1 \in 0..c - 1
    BY <1>2, <1>3, <1>6, <2>1
  <2> QED BY <1>6, <2>2 DEF NeededSections
<1>8. DOMAIN NeededSections = 1..m
  BY <1>6 DEF NeededSections
<1>9. NeededSections \in Seq(SectionRecords)
  <2>1. \A k \in 1..m : NeededSections[k] \in SectionRecords
    BY <1>1, <1>7, SectionFromType
  <2>2. NeededSections = [k \in 1..m |-> NeededSections[k]]
    BY <1>8 DEF NeededSections
  <2> QED BY <2>1, <2>2, IsASeq
<1>10. ASSUME NEW j \in 0..c - 1, IsNeeded(j) PROVE \E k \in 1..m : NeededSections[k] = SectionFrom(j)
  <2>1. j + 1 \in 1..c /\ (j + 1) - 1 = j
    OBVIOUS
  <2>2. j + 1 \in K
    BY <1>3, <1>10, <2>1
  <2>3. PICK k \in 1..m : Nth(K, k) = j + 1
    BY <1>6, <2>2
  <2>4. NeededIndices[k] = j
    BY <1>2, <1>6, <2>1, <2>3
  <2> QED BY <1>7, <2>4
<1> QED BY <1>1, <1>7, <1>8, <1>9, <1>10

\* What LoadSegment does.
LEMMA LoadSegmentIs ==
  ASSUME LoadSegment
  PROVE  /\ AtCommand /\ Has(2) /\ Type \in Segment /\ SegmentIsWhole
         /\ object' = [object EXCEPT !.sections = object.sections \o NeededSections]
         /\ TakeCommand(After(pos, At(SectionCount)))
BY DEF LoadSegment, NeededSections, NeededIndices, SectionFrom

\* What the versions of an object hold, where f is the file.
VersionData(sections, f) ==
  \A j \in DOMAIN sections : sections[j].type \in Platforms =>
    Len(sections[j].data) = 2 /\ sections[j].data[1] = f[sections[j].offset + 1]

\* Versions that were found lie before the reader, and have their data when done.
Versions ==
  /\ phase = "commands" => VersionsBefore(object.sections, pos)
  /\ phase \in {"symbols", "dynsymbols", "filling"} => VersionsBefore(object.sections, Len(file))
  /\ \A i \in DOMAIN objects :
       VersionsBefore(objects[i].sections, Len(file)) /\ VersionData(objects[i].sections, file)

\* The inductive invariant of the parser, for files of any words.
ParserInv == ParserTypeOK /\ Versions

-----------------------------------------------------------------------------
\* A later end is an end.
LEMMA LaterEnd ==
  ASSUME NEW sections, NEW end \in Nat, NEW new \in Nat, end =< new, VersionsBefore(sections, end)
  PROVE  VersionsBefore(sections, new)
BY DEF VersionsBefore

\* A refusal: the parser stays where it is.
LEMMA FailKeeps ==
  ASSUME ParserInv, Fail
  PROVE  ParserInv'
<1>1. ParserTypeOK'
  BY DEF ParserInv, ParserTypeOK, Fail, Phases
<1>2. Versions'
  BY DEF ParserInv, Versions, Fail
<1> QED BY <1>1, <1>2 DEF ParserInv

\* The beginning of a file.
LEMMA DetectKeeps ==
  ASSUME ParserInv, DetectThin \/ DetectFat
  PROVE  ParserInv'
<1>1. file # <<>> /\ pos' = 1 /\ UNCHANGED <<whole, file, left, object, objects>>
  BY DEF DetectThin, DetectFat
<1>2. Len(file) >= 1 /\ Len(file) \in Nat /\ file \in Seq(Int)
  BY <1>1 DEF ParserInv, ParserTypeOK
<1>3. phase' \in {"header", "archs"} /\ order' \in {"little", "big"} /\ archs' \in Seq(Int)
  <2>1. archs \in Seq(Int) /\ order \in {"little", "big"} /\ <<0>> \in Seq(Int)
    BY DEF ParserInv, ParserTypeOK
  <2>2. CASE DetectThin
    BY <2>1, <2>2 DEF DetectThin
  <2>3. CASE DetectFat
    BY <2>1, <2>3 DEF DetectFat
  <2> QED BY <2>2, <2>3
<1>4. ParserTypeOK'
  BY <1>1, <1>2, <1>3 DEF ParserInv, ParserTypeOK, Phases
<1>5. Versions'
  BY <1>1, <1>3 DEF ParserInv, Versions
<1> QED BY <1>4, <1>5 DEF ParserInv

\* MachO::parse, the header of a fat file: every count and offset was read within it.
LEMMA ReadArchsIs ==
  ASSUME ParserInv, ReadArchs
  PROVE  /\ Word(0) \in Nat /\ pos + 1 + 5 * Word(0) \in 0..Len(file)
         /\ archs' \in Seq(Int) /\ Len(archs') = Word(0)
         /\ \A i \in 1..Word(0) : archs'[i] = Word(5 * i - 2)
<1>1. PICK L \in Nat, q \in Nat : L = Len(file) /\ q = pos
  BY DEF ParserInv, ParserTypeOK
<1>2. Has(1) /\ Has(1 + 5 * Word(0)) /\ archs' = [i \in 1..Word(0) |-> Word(5 * i - 2)]
  BY DEF ReadArchs
<1>3. PICK n \in Int : n = Word(0)
  <2>1. 0 \in Nat /\ Has(0 + 1)
    BY <1>2
  <2> QED BY <2>1, WordType DEF ParserInv
<1>4. n \in Nat /\ q + (1 + 5 * n) =< L
  BY <1>1, <1>2, <1>3 DEF Has
<1>5. ASSUME NEW i \in 1..n PROVE Word(5 * i - 2) \in Int
  <2>1. 5 * i - 2 \in Nat /\ q + ((5 * i - 2) + 1) =< L
    BY <1>1, <1>4
  <2>2. Has((5 * i - 2) + 1)
    BY <1>1, <2>1 DEF Has
  <2> QED BY <2>1, <2>2, WordType DEF ParserInv
<1>6. archs' \in [1..n -> Int]
  BY <1>2, <1>3, <1>5
<1>7. archs' \in Seq(Int) /\ Len(archs') = n
  BY <1>4, <1>6, IsASeq, LenProperties
<1> QED BY <1>1, <1>2, <1>3, <1>4, <1>7

\* The header of a fat file leaves the parser at its first object.
LEMMA ReadArchsKeeps ==
  ASSUME ParserInv, ReadArchs
  PROVE  ParserInv'
<1>1. ParserTypeOK'
  BY ReadArchsIs DEF ParserInv, ParserTypeOK, ReadArchs, Phases
<1>2. Versions'
  BY DEF ParserInv, Versions, ReadArchs
<1> QED BY <1>1, <1>2 DEF ParserInv

\* What parseHeader finds in the header.
LEMMA ParseHeaderIs ==
  ASSUME ParserInv, ParseHeader
  PROVE  /\ archs # <<>> /\ archs[1] \in Nat /\ archs[1] + 7 =< Len(file)
         /\ left' = HeaderWord(archs[1], 4)
         /\ order' = IF file[archs[1] + 1] \in {BIG_MAGIC, BIG_MAGIC_64} THEN "big" ELSE "little"
         /\ pos' = After(archs[1], IF Is64(archs[1]) THEN 8 ELSE 7)
         /\ object' = [NoObject EXCEPT !.base = archs[1], !.bits = IF Is64(archs[1]) THEN 64 ELSE 32]
         /\ phase = "header" /\ phase' = "commands"
         /\ UNCHANGED <<whole, file, archs, objects>>
<1>1. archs # <<>> /\ archs \in Seq(Int)
  BY DEF ParserInv, ParserTypeOK, ParseHeader
<1>2. Head(archs) = archs[1] /\ archs[1] \in Int
  BY <1>1
<1>3. archs[1] >= 0 /\ archs[1] + 7 =< Len(file)
  BY <1>2 DEF ParseHeader, HeaderFails
<1> QED BY <1>1, <1>2, <1>3 DEF ParseHeader

\* No object has been begun.
LEMMA NoObjectIs ==
  ASSUME NEW b \in Int, NEW n \in {32, 64}
  PROVE  LET o == [NoObject EXCEPT !.base = b, !.bits = n] IN
         /\ o \in Opened /\ o.base = b /\ o.bits = n /\ o.sections = <<>>
         /\ o.symnum = 0 /\ o.indirsymnum = 0 /\ o.symbols = <<>> /\ o.dynsymbols = <<>>
<1>1. /\ <<>> \in Seq(SectionRecords) /\ <<>> \in Seq([index : Int, value : Int]) /\ <<>> \in Seq(Int)
  OBVIOUS
<1>2. NoObject \in Opened
  BY <1>1 DEF NoObject, Opened
<1> DEFINE o == [NoObject EXCEPT !.base = b, !.bits = n]
<1>3. o \in Opened
  BY <1>2 DEF Opened
<1>4. o.base = b /\ o.bits = n /\ o.sections = <<>> /\ o.symnum = 0 /\ o.indirsymnum = 0
  BY DEF NoObject
<1>5. o.symbols = <<>> /\ o.dynsymbols = <<>>
  BY DEF NoObject
<1> QED BY <1>3, <1>4, <1>5

\* MachO::parseHeader opens an object without sections.
LEMMA ParseHeaderKeeps ==
  ASSUME ParserInv, ParseHeader
  PROVE  ParserInv'
<1>1. PICK b \in Nat : b = archs[1] /\ b + 7 =< Len(file)
  BY ParseHeaderIs
<1>2. PICK L \in Nat : L = Len(file) /\ DOMAIN file = 1..L /\ file \in Seq(Int)
  BY DEF ParserInv, ParserTypeOK
<1>3. left' \in Int
  <2>1. file[b + 4 + 1] \in Int
    BY <1>1, <1>2, SMTT(60)
  <2> QED BY <1>1, <2>1, ParseHeaderIs DEF HeaderWord
<1>4. pos' \in 0..L
  BY <1>1, <1>2, ParseHeaderIs, AfterType DEF ParserInv
<1>5. object' \in Opened /\ object'.sections = <<>>
  <2>1. PICK n \in {32, 64} : n = IF Is64(b) THEN 64 ELSE 32
    OBVIOUS
  <2>2. object' = [NoObject EXCEPT !.base = b, !.bits = n]
    BY <1>1, <2>1, ParseHeaderIs, Zenon
  <2>3. b \in Int
    OBVIOUS
  <2> QED BY <2>2, <2>3, NoObjectIs
<1>6. ParserTypeOK'
  BY <1>2, <1>3, <1>4, <1>5, ParseHeaderIs DEF ParserInv, ParserTypeOK, Phases
<1>7. VersionsBefore(<<>>, pos')
  BY DEF VersionsBefore
<1>8. Versions'
  BY <1>5, <1>7, ParseHeaderIs DEF ParserInv, Versions
<1> QED BY <1>6, <1>8 DEF ParserInv

\* From one part of a header to the next, without anything else.
LEMMA TurnKeeps ==
  ASSUME ParserInv, ParseDone \/ CommandsDone \/ NoSymbols
  PROVE  ParserInv'
<1>1. UNCHANGED <<whole, file, pos, order, archs, left, object, objects>>
  BY DEF ParseDone, CommandsDone, NoSymbols
<1>2. /\ phase' \in {"parsed", "symbols", "dynsymbols", "filling"}
      /\ phase' # "parsed" => phase \in {"commands", "symbols", "dynsymbols"}
  BY DEF ParseDone, CommandsDone, NoSymbols
<1>3. ParserTypeOK'
  BY <1>1, <1>2 DEF ParserInv, ParserTypeOK, Phases
<1>4. phase' # "parsed" => VersionsBefore(object.sections, Len(file))
  <2>1. PICK L \in Nat, q \in Nat : L = Len(file) /\ q = pos /\ q =< L
    BY DEF ParserInv, ParserTypeOK
  <2>2. phase = "commands" => VersionsBefore(object.sections, L)
    <3>1. phase = "commands" => VersionsBefore(object.sections, q)
      BY <2>1 DEF ParserInv, Versions
    <3> QED BY <2>1, <3>1, LaterEnd
  <2> QED BY <1>2, <2>1, <2>2 DEF ParserInv, Versions
<1>5. Versions'
  BY <1>1, <1>2, <1>4 DEF ParserInv, Versions
<1> QED BY <1>3, <1>5 DEF ParserInv

-----------------------------------------------------------------------------
\* A command is read: the reader goes on, the object has what it brings.
LEMMA CommandKeeps ==
  ASSUME ParserInv, AtCommand, NEW n \in 0..Len(file), TakeCommand(n), object' \in Opened,
         VersionsBefore(object'.sections, n)
  PROVE  ParserInv'
<1>1. /\ phase = "commands" /\ phase' = phase /\ pos' = n /\ left' = left - 1
      /\ UNCHANGED <<whole, file, order, archs, objects>>
  BY DEF AtCommand, TakeCommand
<1>2. ParserTypeOK'
  BY <1>1 DEF ParserInv, ParserTypeOK
<1>3. Versions'
  BY <1>1 DEF ParserInv, Versions
<1> QED BY <1>2, <1>3 DEF ParserInv

\* Where the reader is at a command.
LEMMA AtCommandIs ==
  ASSUME ParserInv, AtCommand
  PROVE  /\ pos \in Nat /\ Len(file) \in Nat /\ pos =< Len(file)
         /\ VersionsBefore(object.sections, pos)
         /\ object \in Opened /\ object.sections \in Seq(SectionRecords) /\ object.base \in Int
BY DEF ParserInv, ParserTypeOK, Versions, AtCommand, Opened

\* The checked words of a command are words.
LEMMA CheckedWords ==
  ASSUME ParserInv, NEW c \in Nat, Has(2 + c)
  PROVE  /\ \A n \in 0..(c + 1) : Word(n) \in Int
         /\ pos + 2 + c \in 0..Len(file)
<1>1. PICK L \in Nat, q \in Nat : L = Len(file) /\ q = pos
  BY DEF ParserInv, ParserTypeOK
<1>2. q + (2 + c) =< L
  BY <1>1 DEF Has
<1>3. ASSUME NEW n \in 0..(c + 1) PROVE Word(n) \in Int
  <2>1. n \in Nat /\ q + (n + 1) =< L
    BY <1>1, <1>2
  <2>2. Has(n + 1)
    BY <1>1, <2>1 DEF Has
  <2> QED BY <2>1, <2>2, WordType DEF ParserInv
<1> QED BY <1>1, <1>2, <1>3

\* How many words each kind of load command reads one by one.
LEMMA CheckedIs ==
  ASSUME NEW t
  PROVE  /\ Checked(t) \in Nat
         /\ t \in DyldInfo => Checked(t) = 10
         /\ t = Dysymtab => Checked(t) = 18
         /\ t \in {Symtab, Main} \cup Dylib => Checked(t) = 4
         /\ t \in VersionMin \cup LinkEdit \cup Thread \cup {SourceVersion, DataInCode} => Checked(t) = 2
         /\ t \in Path => Checked(t) = 1
         /\ t \in Segment \cup {Uuid} => Checked(t) = 0
BY DEF Checked, DyldInfo, Dysymtab, Symtab, Main, Dylib, VersionMin, LinkEdit, FunctionStarts, CodeSignature, Thread,
       SourceVersion, DataInCode, Path, Segment, Uuid, High

\* How many more it reads as far as the file has them.
LEMMA UncheckedIs ==
  /\ Type \in Dylib \cup Path => Unchecked(Type) = CommandSize - Word(2)
  /\ Type = Uuid => Unchecked(Type) = 4
  /\ Type \in Thread => Unchecked(Type) = (Word(2) * Word(3)) \div 4
  /\ Type \in Skipped => Unchecked(Type) = CommandSize
  /\ Type \notin Dylib \cup Path \cup {Uuid} \cup Thread \cup Skipped => Unchecked(Type) = 0
BY DEF Unchecked, Dylib, Path, Uuid, Thread, Skipped, High

\* A load command of which nothing is kept.
LEMMA PassCommandKeeps ==
  ASSUME ParserInv, PassCommand
  PROVE  ParserInv'
<1>1. /\ AtCommand /\ Has(2 + Checked(Type)) /\ object' = object
      /\ TakeCommand(After(pos + 2 + Checked(Type), Unchecked(Type)))
  BY DEF PassCommand
<1>2. PICK c \in Nat : c = Checked(Type)
  BY CheckedIs
<1>3. /\ \A n \in 0..(c + 1) : Word(n) \in Int
      /\ pos + 2 + c \in 0..Len(file)
  BY <1>1, <1>2, CheckedWords
<1>4. Unchecked(Type) \in Int
  <2>1. CommandSize \in Int
    BY <1>3 DEF CommandSize
  <2>2. Type \in Dylib \cup Path => c >= 1
    BY <1>2, CheckedIs
  <2>3. Type \in Thread => c >= 2
    BY <1>2, CheckedIs
  <2>4. Type \in Dylib \cup Path => Word(2) \in Int
    BY <1>3, <2>2
  <2>5. Type \in Thread => Word(2) \in Int /\ Word(3) \in Int
    BY <1>3, <2>3
  <2>6. Type \in Thread => (Word(2) * Word(3)) \div 4 \in Int
    BY <2>5
  <2> QED BY <2>1, <2>4, <2>6, UncheckedIs
<1>5. PICK p \in Nat : p = pos + 2 + c /\ p =< Len(file) /\ pos =< p
  BY <1>3, AtCommandIs, <1>1
<1>6. PICK n \in 0..Len(file) : n = After(p, Unchecked(Type)) /\ p =< n
  BY <1>4, <1>5, AfterType DEF ParserInv
<1>7. VersionsBefore(object.sections, n)
  <2>1. n \in Nat /\ pos \in Nat /\ pos =< n
    BY <1>1, <1>5, <1>6, AtCommandIs
  <2> QED BY <1>1, <2>1, AtCommandIs, LaterEnd
<1> QED BY <1>1, <1>2, <1>5, <1>6, <1>7, AtCommandIs, CommandKeeps

\* A command with checked words that brings one section, or none.
LEMMA CheckedCommandKeeps ==
  ASSUME ParserInv, AtCommand, NEW c \in Nat, Has(2 + c), TakeCommand(pos + 2 + c), object' \in Opened,
         \/ object'.sections = object.sections
         \/ \E s \in SectionRecords :
              /\ object'.sections = Append(object.sections, s)
              /\ s.type \in Platforms => s.size = 2 /\ s.offset = pos + 2 /\ c >= 2
  PROVE  ParserInv'
<1>1. PICK n \in 0..Len(file) : n = pos + 2 + c
  BY CheckedWords
<1>2. pos \in Nat /\ n \in Nat /\ pos =< n
  BY <1>1, AtCommandIs
<1>3. VersionsBefore(object'.sections, n)
  <2>1. CASE object'.sections = object.sections
    BY <1>2, <2>1, AtCommandIs, LaterEnd
  <2>2. ASSUME NEW s \in SectionRecords, object'.sections = Append(object.sections, s),
               s.type \in Platforms => s.size = 2 /\ s.offset = pos + 2 /\ c >= 2
        PROVE  VersionsBefore(object'.sections, n)
    <3>1. s.type \in Platforms => s.size = 2 /\ s.offset \in Nat /\ s.offset >= pos /\ s.offset + 2 =< n
      BY <1>1, <1>2, <2>2
    <3> QED BY <1>2, <2>2, <3>1, AtCommandIs, AppendVersions
  <2> QED BY <2>1, <2>2
<1> QED BY <1>1, <1>3, CommandKeeps

\* LC_SYMTAB in terms of the words of the file: a string table, and where the symbols are.
LEMMA LoadSymtabIs ==
  ASSUME ParserInv, LoadSymtab
  PROVE  /\ AtCommand /\ Has(2) /\ Type = Symtab /\ Checked(Type) = 4 /\ Has(2 + 4) /\ TakeCommand(pos + 2 + 4)
         /\ object' \in Opened
         /\ object'.symoff = Word(2) /\ object'.symnum = Word(3)
         /\ SectionOf("STRING", Word(4), Word(5), object.base + Word(4)) \in SectionRecords
         /\ object'.sections = Append(object.sections, SectionOf("STRING", Word(4), Word(5), object.base + Word(4)))
         /\ object'.base = object.base /\ object'.bits = object.bits
         /\ object'.indirsymoff = object.indirsymoff /\ object'.indirsymnum = object.indirsymnum
         /\ object'.symbols = object.symbols /\ object'.dynsymbols = object.dynsymbols
<1>1. /\ AtCommand /\ Has(2) /\ Type = Symtab /\ Checked(Type) = 4 /\ Has(2 + 4) /\ TakeCommand(pos + 2 + 4)
  BY CheckedIs DEF LoadSymtab
<1>2. Word(2) \in Int /\ Word(3) \in Int /\ Word(4) \in Int /\ Word(5) \in Int
  BY <1>1, CheckedWords
<1>3. object \in Opened /\ object.sections \in Seq(SectionRecords) /\ object.base \in Int
  BY <1>1, AtCommandIs
<1> DEFINE s == SectionOf("STRING", Word(4), Word(5), object.base + Word(4))
<1>4. s \in SectionRecords
  <2>1. "STRING" \in SectionTypes /\ object.base + Word(4) \in Int
    BY <1>2, <1>3 DEF SectionTypes
  <2> QED BY <1>2, <2>1, SectionOfType
<1>5. object' = [object EXCEPT !.symoff = Word(2), !.symnum = Word(3), !.sections = Append(object.sections, s)]
  BY DEF LoadSymtab
<1> HIDE DEF s
<1>6. Append(object.sections, s) \in Seq(SectionRecords)
  BY <1>3, <1>4
<1>7. object' \in Opened
  BY <1>2, <1>3, <1>5, <1>6 DEF Opened
<1>8. /\ object'.symoff = Word(2) /\ object'.symnum = Word(3)
      /\ object'.sections = Append(object.sections, s)
      /\ object'.base = object.base /\ object'.bits = object.bits
      /\ object'.indirsymoff = object.indirsymoff /\ object'.indirsymnum = object.indirsymnum
      /\ object'.symbols = object.symbols /\ object'.dynsymbols = object.dynsymbols
  BY <1>3, <1>5 DEF Opened
<1> QED BY <1>1, <1>4, <1>7, <1>8 DEF s

\* LC_DYSYMTAB in terms of the words of the file: where the dynamic symbols are.
LEMMA LoadDysymtabIs ==
  ASSUME ParserInv, LoadDysymtab
  PROVE  /\ AtCommand /\ Has(2) /\ Type = Dysymtab /\ Checked(Type) = 18 /\ Has(2 + 18) /\ TakeCommand(pos + 2 + 18)
         /\ object' \in Opened
         /\ object'.indirsymoff = Word(14) /\ object'.indirsymnum = Word(15)
         /\ object'.sections = object.sections
         /\ object'.base = object.base /\ object'.bits = object.bits
         /\ object'.symoff = object.symoff /\ object'.symnum = object.symnum
         /\ object'.symbols = object.symbols /\ object'.dynsymbols = object.dynsymbols
<1>1. /\ AtCommand /\ Has(2) /\ Type = Dysymtab /\ Checked(Type) = 18 /\ Has(2 + 18) /\ TakeCommand(pos + 2 + 18)
  BY CheckedIs DEF LoadDysymtab
<1>2. Word(14) \in Int /\ Word(15) \in Int
  BY <1>1, CheckedWords
<1>3. object \in Opened
  BY <1>1, AtCommandIs
<1>4. object' = [object EXCEPT !.indirsymoff = Word(14), !.indirsymnum = Word(15)]
  BY DEF LoadDysymtab
<1>5. object' \in Opened
  BY <1>2, <1>3, <1>4 DEF Opened
<1>6. /\ object'.indirsymoff = Word(14) /\ object'.indirsymnum = Word(15)
      /\ object'.sections = object.sections
      /\ object'.base = object.base /\ object'.bits = object.bits
      /\ object'.symoff = object.symoff /\ object'.symnum = object.symnum
      /\ object'.symbols = object.symbols /\ object'.dynsymbols = object.dynsymbols
  BY <1>3, <1>4 DEF Opened
<1> QED BY <1>1, <1>5, <1>6

\* All that a command changes in an object are its sections.
OnlySections(o, new) ==
  /\ o.base = new.base /\ o.bits = new.bits /\ o.symoff = new.symoff /\ o.symnum = new.symnum
  /\ o.indirsymoff = new.indirsymoff /\ o.indirsymnum = new.indirsymnum
  /\ o.symbols = new.symbols /\ o.dynsymbols = new.dynsymbols

\* New sections leave the rest of an object as it is.
LEMMA SectionsChange ==
  ASSUME NEW o \in Opened, NEW s \in Seq(SectionRecords)
  PROVE  LET new == [o EXCEPT !.sections = s] IN
         new \in Opened /\ new.sections = s /\ OnlySections(o, new)
BY DEF Opened, OnlySections

\* LC_VERSION_MIN in terms of the words of the file: the two versions are a section.
LEMMA LoadVersionMinIs ==
  ASSUME ParserInv, LoadVersionMin
  PROVE  /\ AtCommand /\ Has(2) /\ Type \in VersionMin /\ Checked(Type) = 2 /\ Has(2 + 2) /\ TakeCommand(pos + 2 + 2)
         /\ object' \in Opened /\ OnlySections(object, object')
         /\ SectionOf(VersionSection[Type], pos + 2, 2, pos + 2) \in SectionRecords
         /\ object'.sections = Append(object.sections, SectionOf(VersionSection[Type], pos + 2, 2, pos + 2))
<1>1. /\ AtCommand /\ Has(2) /\ Type \in VersionMin /\ Checked(Type) = 2 /\ Has(2 + 2) /\ TakeCommand(pos + 2 + 2)
  BY CheckedIs DEF LoadVersionMin
<1>2. object \in Opened /\ object.sections \in Seq(SectionRecords) /\ pos + 2 \in Int
  BY <1>1, AtCommandIs
<1> DEFINE s == SectionOf(VersionSection[Type], pos + 2, 2, pos + 2)
<1>3. s \in SectionRecords
  BY <1>1, <1>2, SectionOfType, PlatformsAre DEF SectionTypes
<1>4. object' = [object EXCEPT !.sections = Append(object.sections, s)]
  BY DEF LoadVersionMin, Add
<1> HIDE DEF s
<1>5. Append(object.sections, s) \in Seq(SectionRecords)
  BY <1>2, <1>3
<1>6. object' \in Opened /\ object'.sections = Append(object.sections, s) /\ OnlySections(object, object')
  BY <1>2, <1>4, <1>5, SectionsChange
<1> QED BY <1>1, <1>3, <1>6 DEF s

\* The data in __LINKEDIT: only two kinds of it become sections.
LEMMA LoadLinkEditIs ==
  ASSUME ParserInv, LoadLinkEdit
  PROVE  /\ AtCommand /\ Has(2) /\ Type \in LinkEdit /\ Checked(Type) = 2 /\ Has(2 + 2) /\ TakeCommand(pos + 2 + 2)
         /\ object' \in Opened /\ OnlySections(object, object')
         /\ \/ /\ Type = FunctionStarts
               /\ SectionOf("FUNC_STARTS", Word(2), Word(3), object.base + Word(2)) \in SectionRecords
               /\ object'.sections = Append(object.sections, SectionOf("FUNC_STARTS", Word(2), Word(3), object.base + Word(2)))
            \/ /\ Type = CodeSignature
               /\ SectionOf("CODE_SIG", Word(2), Word(3), object.base + Word(2)) \in SectionRecords
               /\ object'.sections = Append(object.sections, SectionOf("CODE_SIG", Word(2), Word(3), object.base + Word(2)))
            \/ Type \notin {FunctionStarts, CodeSignature} /\ object'.sections = object.sections
<1>1. /\ AtCommand /\ Has(2) /\ Type \in LinkEdit /\ Checked(Type) = 2 /\ Has(2 + 2) /\ TakeCommand(pos + 2 + 2)
  BY CheckedIs DEF LoadLinkEdit
<1>2. object \in Opened /\ object.sections \in Seq(SectionRecords) /\ object.base \in Int
  BY <1>1, AtCommandIs
<1>3. Word(2) \in Int /\ Word(3) \in Int
  BY <1>1, CheckedWords
<1>4. ASSUME NEW t \in {"FUNC_STARTS", "CODE_SIG"}, Add(SectionOf(t, Word(2), Word(3), object.base + Word(2)))
      PROVE  LET s == SectionOf(t, Word(2), Word(3), object.base + Word(2)) IN
             /\ s \in SectionRecords /\ object' \in Opened /\ OnlySections(object, object')
             /\ object'.sections = Append(object.sections, s)
  <2> DEFINE s == SectionOf(t, Word(2), Word(3), object.base + Word(2))
  <2>1. s \in SectionRecords
    <3>1. t \in SectionTypes /\ object.base + Word(2) \in Int
      BY <1>2, <1>3 DEF SectionTypes
    <3> QED BY <1>3, <3>1, SectionOfType
  <2>2. object' = [object EXCEPT !.sections = Append(object.sections, s)]
    BY <1>4 DEF Add
  <2> HIDE DEF s
  <2>3. Append(object.sections, s) \in Seq(SectionRecords)
    BY <1>2, <2>1
  <2>4. object' \in Opened /\ object'.sections = Append(object.sections, s) /\ OnlySections(object, object')
    BY <1>2, <2>2, <2>3, SectionsChange
  <2> QED BY <2>1, <2>4 DEF s
<1>5. CASE Type = FunctionStarts
  <2>1. Add(SectionOf("FUNC_STARTS", Word(2), Word(3), object.base + Word(2)))
    BY <1>5 DEF LoadLinkEdit, FunctionStarts, CodeSignature
  <2> QED BY <1>1, <1>4, <1>5, <2>1
<1>6. CASE Type = CodeSignature
  <2>1. Add(SectionOf("CODE_SIG", Word(2), Word(3), object.base + Word(2)))
    BY <1>6 DEF LoadLinkEdit, FunctionStarts, CodeSignature
  <2> QED BY <1>1, <1>4, <1>6, <2>1
<1>7. CASE Type \notin {FunctionStarts, CodeSignature}
  <2>1. object' = object
    BY <1>7 DEF LoadLinkEdit
  <2> QED BY <1>1, <1>2, <1>7, <2>1 DEF OnlySections
<1> QED BY <1>5, <1>6, <1>7

-----------------------------------------------------------------------------
\* The sections of a type, and the first of them.
LEMMA FirstOfIs ==
  ASSUME NEW S, NEW sections \in Seq(S), NEW t, Having(sections, t) # {}
  PROVE  \E i \in DOMAIN sections :
           /\ i = Lowest(Having(sections, t)) /\ FirstOf(sections, t) = sections[i]
           /\ sections[i].type = t
           /\ \A j \in DOMAIN sections : sections[j].type = t => i =< j
<1>1. PICK n \in Nat : DOMAIN sections = 1..n
  OBVIOUS
<1>2. PICK K : K = Having(sections, t)
  OBVIOUS
<1>3. K \subseteq 1..n /\ K # {} /\ \A i \in 1..n : i \in K <=> sections[i].type = t
  BY <1>1, <1>2 DEF Having
<1>4. \E i \in K : \A j \in K : i =< j
  BY <1>3, LeastIndex
<1>5. Lowest(K) \in K /\ \A j \in K : Lowest(K) =< j
  BY <1>4 DEF Lowest
<1> QED BY <1>1, <1>2, <1>3, <1>5 DEF FirstOf

\* An entry of the symbol table has three or four words.
LEMMA EntryWidth ==
  ASSUME ParserTypeOK
  PROVE  \/ object.bits = 64 /\ EntryWords = 4
         \/ object.bits = 32 /\ EntryWords = 3
BY DEF ParserTypeOK, Opened, EntryWords

\* The words of an entry of the symbol table.
InTable(off, width, k, n) == off + (k - 1) * width + n

\* parseHeader reads the whole symbol table, within the file.
LEMMA ReadSymbolsIs ==
  ASSUME ParserInv, ReadSymbols
  PROVE  LET n == object.symnum
             extent == n * EntryWords
             s == SectionOf("SYMBOLS", object.symoff, extent, object.base + object.symoff)
             at(k) == InTable(object.symoff, EntryWords, k, 0)
         IN
         /\ phase = "symbols" /\ phase' = "dynsymbols"
         /\ n \in Nat \ {0} /\ object.symoff \in Nat /\ extent \in Nat /\ object.symoff + extent =< Len(file)
         /\ pos' = object.symoff + extent
         /\ s \in SectionRecords
         /\ object' \in Opened
         /\ object'.sections = Append(object.sections, s)
         /\ object'.base = object.base /\ object'.bits = object.bits
         /\ object'.symoff = object.symoff /\ object'.symnum = object.symnum
         /\ object'.indirsymoff = object.indirsymoff /\ object'.indirsymnum = object.indirsymnum
         /\ object'.dynsymbols = object.dynsymbols
         /\ Len(object'.symbols) = n
         /\ \A k \in 1..n :
              /\ at(k) \in Nat /\ at(k) + 3 =< Len(file)
              /\ order = "little" => object'.symbols[k] = [index |-> file[at(k) + 1], value |-> file[at(k) + 3]]
         /\ UNCHANGED <<whole, file, order, archs, left, objects>>
<1> DEFINE n == object.symnum
           w == EntryWords
           extent == n * w
           off == object.symoff
           s == SectionOf("SYMBOLS", off, extent, object.base + off)
           at(k) == InTable(off, w, k, 0)
<1>1. PICK L \in Nat : L = Len(file) /\ DOMAIN file = 1..L /\ \A i \in 1..L : file[i] \in Int
  BY DEF ParserInv, ParserTypeOK
<1>2. object \in Opened /\ n \in Int /\ off \in Int /\ object.base \in Int /\ object.sections \in Seq(SectionRecords)
  BY DEF ParserInv, ParserTypeOK, Opened
<1>3. w = 3 \/ w = 4
  BY EntryWidth DEF ParserInv
<1>4. n > 0 /\ off >= 0 /\ off + extent =< L
  BY <1>1 DEF ReadSymbols, SymbolsFit
<1>5. n \in Nat \ {0} /\ off \in Nat /\ extent \in Nat
  BY <1>2, <1>3, <1>4
<1>6. ASSUME NEW k \in 1..n PROVE at(k) = off + (k - 1) * w /\ at(k) \in Nat /\ at(k) + 3 =< L
  <2>1. at(k) = off + (k - 1) * w
    BY <1>2, <1>3 DEF InTable
  <2>2. (k - 1) * w \in Nat /\ (k - 1) * w + w =< extent
    <3>1. CASE w = 3
      BY <1>5, <3>1
    <3>2. CASE w = 4
      BY <1>5, <3>2
    <3> QED BY <1>3, <3>1, <3>2
  <2> QED BY <1>3, <1>4, <1>5, <2>1, <2>2
<1>7. ASSUME NEW k \in 1..n
      PROVE  /\ Entry(k) \in [index : Int, value : Int]
             /\ order = "little" => Entry(k) = [index |-> file[at(k) + 1], value |-> file[at(k) + 3]]
  <2>1. PICK a \in Nat : a = off + (k - 1) * w /\ a = at(k) /\ a + 3 =< L
    BY <1>6
  <2>2. a + 1 \in 1..L /\ a + 3 \in 1..L
    BY <2>1
  <2>3. file[a + 0 + 1] \in Int /\ file[a + 2 + 1] \in Int /\ a + 0 + 1 = a + 1 /\ a + 2 + 1 = a + 3
    BY <1>1, <2>1, <2>2
  <2>4. Entry(k) = [index |-> IF order = "big" THEN -file[a + 0 + 1] ELSE file[a + 0 + 1],
                    value |-> IF order = "big" THEN -file[a + 2 + 1] ELSE file[a + 2 + 1]]
    BY <2>1 DEF Entry
  <2> HIDE DEF at, off, w
  <2> QED BY <2>1, <2>3, <2>4
<1> DEFINE table == [k \in 1..n |-> Entry(k)]
<1>8. table \in Seq([index : Int, value : Int]) /\ Len(table) = n
  <2>1. PICK E : E = [index : Int, value : Int]
    OBVIOUS
  <2>2. table \in [1..n -> E]
    BY <1>7, <2>1
  <2>3. n \in Nat
    BY <1>5
  <2> HIDE DEF table, n
  <2>4. table \in Seq(E) /\ Len(table) = n
    BY <2>2, <2>3, IsASeq, LenProperties
  <2> QED BY <2>1, <2>4
<1>9. s \in SectionRecords
  <2>1. "SYMBOLS" \in SectionTypes /\ object.base + off \in Int
    BY <1>2 DEF SectionTypes
  <2> QED BY <1>2, <1>5, <2>1, SectionOfType
<1>10. object' = [object EXCEPT !.symbols = table, !.sections = Append(object.sections, s)]
  BY DEF ReadSymbols
<1>11. phase = "symbols" /\ phase' = "dynsymbols" /\ pos' = off + extent /\ UNCHANGED <<whole, file, order, archs, left, objects>>
  BY DEF ReadSymbols
<1>12. \A k \in 1..n : order = "little" => table[k] = [index |-> file[at(k) + 1], value |-> file[at(k) + 3]]
  BY <1>7
<1> HIDE DEF s, table
<1>13. Append(object.sections, s) \in Seq(SectionRecords)
  BY <1>2, <1>9
<1>14. object' \in Opened
  BY <1>2, <1>8, <1>10, <1>13 DEF Opened
<1>15. /\ object'.sections = Append(object.sections, s) /\ object'.symbols = table
       /\ object'.base = object.base /\ object'.bits = object.bits
       /\ object'.symoff = object.symoff /\ object'.symnum = object.symnum
       /\ object'.indirsymoff = object.indirsymoff /\ object'.indirsymnum = object.indirsymnum
       /\ object'.dynsymbols = object.dynsymbols
  BY <1>2, <1>10 DEF Opened
<1> QED BY <1>1, <1>4, <1>5, <1>6, <1>8, <1>9, <1>11, <1>12, <1>14, <1>15 DEF s

\* parseHeader reads the whole dynamic symbol table, within the file.
LEMMA ReadDynSymbolsIs ==
  ASSUME ParserInv, ReadDynSymbols
  PROVE  LET n == object.indirsymnum
             off == object.indirsymoff
             s == SectionOf("DYN_SYMBOLS", off, n, object.base + off)
         IN
         /\ phase = "dynsymbols" /\ phase' = "filling"
         /\ n \in Nat \ {0} /\ off \in Nat /\ off + n =< Len(file)
         /\ pos' = off + n
         /\ s \in SectionRecords
         /\ object' \in Opened
         /\ object'.sections = Append(object.sections, s)
         /\ object'.base = object.base /\ object'.bits = object.bits
         /\ object'.symoff = object.symoff /\ object'.symnum = object.symnum
         /\ object'.indirsymoff = object.indirsymoff /\ object'.indirsymnum = object.indirsymnum
         /\ object'.symbols = object.symbols
         /\ Len(object'.dynsymbols) = n
         /\ order = "little" => \A h \in 1..n : object'.dynsymbols[h] = file[off + h]
         /\ UNCHANGED <<whole, file, order, archs, left, objects>>
<1> DEFINE n == object.indirsymnum
           off == object.indirsymoff
           s == SectionOf("DYN_SYMBOLS", off, n, object.base + off)
           table == [h \in 1..n |-> DynEntry(h)]
<1>1. PICK L \in Nat : L = Len(file) /\ DOMAIN file = 1..L /\ \A i \in 1..L : file[i] \in Int
  BY DEF ParserInv, ParserTypeOK
<1>2. object \in Opened /\ n \in Int /\ off \in Int /\ object.base \in Int /\ object.sections \in Seq(SectionRecords)
  BY DEF ParserInv, ParserTypeOK, Opened
<1>3. n > 0 /\ off >= 0 /\ off + n =< L
  BY <1>1 DEF ReadDynSymbols, DynSymbolsFit
<1>4. n \in Nat \ {0} /\ off \in Nat
  BY <1>2, <1>3
<1>5. ASSUME NEW h \in 1..n PROVE DynEntry(h) \in Int /\ (order = "little" => DynEntry(h) = file[off + h])
  <2>1. off + h \in 1..L
    BY <1>3, <1>4
  <2> QED BY <1>1, <2>1 DEF DynEntry
<1>6. table \in Seq(Int) /\ Len(table) = n
  <2>1. table \in [1..n -> Int]
    BY <1>5
  <2> QED BY <1>4, <2>1, IsASeq, LenProperties
<1>7. s \in SectionRecords
  <2>1. "DYN_SYMBOLS" \in SectionTypes /\ object.base + off \in Int
    BY <1>2 DEF SectionTypes
  <2> QED BY <1>2, <1>4, <2>1, SectionOfType
<1>8. object' = [object EXCEPT !.dynsymbols = table, !.sections = Append(object.sections, s)]
  BY DEF ReadDynSymbols
<1>9. phase = "dynsymbols" /\ phase' = "filling" /\ pos' = off + n /\ UNCHANGED <<whole, file, order, archs, left, objects>>
  BY DEF ReadDynSymbols
<1>10. order = "little" => \A h \in 1..n : table[h] = file[off + h]
  BY <1>5
<1> HIDE DEF s, table
<1>11. Append(object.sections, s) \in Seq(SectionRecords)
  BY <1>2, <1>7
<1>12. object' \in Opened
  BY <1>2, <1>6, <1>8, <1>11 DEF Opened
<1>13. /\ object'.sections = Append(object.sections, s) /\ object'.dynsymbols = table
       /\ object'.base = object.base /\ object'.bits = object.bits
       /\ object'.symoff = object.symoff /\ object'.symnum = object.symnum
       /\ object'.indirsymoff = object.indirsymoff /\ object'.indirsymnum = object.indirsymnum
       /\ object'.symbols = object.symbols
  BY <1>2, <1>8 DEF Opened
<1> QED BY <1>1, <1>3, <1>4, <1>6, <1>7, <1>9, <1>10, <1>12, <1>13 DEF s

-----------------------------------------------------------------------------
\* The object that FinishObject makes.
Filled ==
  [i \in DOMAIN object.sections |->
     [object.sections[i] EXCEPT !.data = Words(object.sections[i].offset, object.sections[i].size)]]
Finished ==
  [sections |-> Filled, symbols |-> Named(object.symbols, Filled),
   dynsymbols |-> IF Named(object.symbols, Filled) = <<>> THEN <<>>
                  ELSE Stubbed(object.dynsymbols, Named(object.symbols, Filled), Filled)]

\* The end of parseHeader: the object is one of those that were found.
LEMMA FinishObjectIs ==
  ASSUME FinishObject
  PROVE  /\ phase = "filling" /\ phase' = "header" /\ archs' = Tail(archs)
         /\ objects' = Append(objects, Finished) /\ object' = NoObject
         /\ UNCHANGED <<whole, file, pos, order, left>>
BY DEF FinishObject, Finished, Filled

\* Only the data of a section is new.
LEMMA FilledIs ==
  ASSUME ParserTypeOK
  PROVE  /\ Filled \in Seq(SectionRecords) /\ DOMAIN Filled = DOMAIN object.sections
         /\ \A i \in DOMAIN Filled :
              /\ Filled[i].type = object.sections[i].type
              /\ Filled[i].address = object.sections[i].address
              /\ Filled[i].size = object.sections[i].size
              /\ Filled[i].offset = object.sections[i].offset
              /\ Filled[i].data = Words(object.sections[i].offset, object.sections[i].size)
<1>1. PICK s : s = object.sections
  OBVIOUS
<1>2. s \in Seq(SectionRecords)
  BY <1>1 DEF ParserTypeOK, Opened
<1>3. PICK n \in Nat : n = Len(s) /\ DOMAIN s = 1..n
  BY <1>2
<1>4. ASSUME NEW i \in 1..n
      PROVE  LET r == [s[i] EXCEPT !.data = Words(s[i].offset, s[i].size)] IN
             /\ r \in SectionRecords
             /\ r.type = s[i].type /\ r.address = s[i].address /\ r.size = s[i].size /\ r.offset = s[i].offset
             /\ r.data = Words(s[i].offset, s[i].size)
  <2>1. PICK r : r = s[i]
    OBVIOUS
  <2>2. r \in SectionRecords
    BY <1>2, <1>3, <2>1
  <2>3. r.offset \in Int /\ r.size \in Int
    BY <2>2 DEF SectionRecords
  <2>4. PICK d : d = Words(r.offset, r.size) /\ d \in Seq(Int)
    BY <2>3, WordsType
  <2>5. [r EXCEPT !.data = d] \in SectionRecords
    BY <2>2, <2>4 DEF SectionRecords
  <2>6. LET q == [r EXCEPT !.data = d] IN
        q.type = r.type /\ q.address = r.address /\ q.size = r.size /\ q.offset = r.offset /\ q.data = d
    BY <2>2 DEF SectionRecords
  <2> QED BY <2>1, <2>4, <2>5, <2>6
<1>5. Filled = [i \in 1..n |-> [s[i] EXCEPT !.data = Words(s[i].offset, s[i].size)]]
  BY <1>1, <1>3 DEF Filled
<1>6. Filled \in [1..n -> SectionRecords]
  BY <1>4, <1>5
<1>7. Filled \in Seq(SectionRecords)
  BY <1>3, <1>6, IsASeq
<1> QED BY <1>1, <1>3, <1>4, <1>5, <1>7

\* The string table of an object.
Strings(sections) == IF Having(sections, "STRING") = {} THEN <<>> ELSE FirstOf(sections, "STRING").data

\* The string table is the data of a section, or empty.
LEMMA StringsType ==
  ASSUME NEW sections \in Seq(SectionRecords)
  PROVE  Strings(sections) \in Seq(Int)
<1>1. CASE Having(sections, "STRING") = {}
  BY <1>1 DEF Strings
<1>2. CASE Having(sections, "STRING") # {}
  <2>1. PICK i \in DOMAIN sections : FirstOf(sections, "STRING") = sections[i]
    BY <1>2, FirstOfIs
  <2>2. sections[i] \in SectionRecords
    OBVIOUS
  <2>3. sections[i].data \in Seq(Int)
    BY <2>2 DEF SectionRecords
  <2> QED BY <1>2, <2>1, <2>3 DEF Strings
<1> QED BY <1>1, <1>2

NamedSymbols == Seq([value : Int, name : Int])

\* Each symbol has the name at its index in the string table, if there is one.
LEMMA NamedIs ==
  ASSUME NEW sections \in Seq(SectionRecords), NEW symbols \in Seq([index : Int, value : Int])
  PROVE  /\ Named(symbols, sections) \in NamedSymbols
         /\ Len(Named(symbols, sections)) = Len(symbols)
         /\ \A k \in 1..Len(symbols) :
              symbols[k].index \in 0..Len(Strings(sections)) - 1 =>
                Named(symbols, sections)[k].name = Strings(sections)[symbols[k].index + 1]
<1>1. PICK t : t = Strings(sections) /\ t \in Seq(Int)
  BY StringsType
<1>2. PICK n \in Nat : n = Len(symbols) /\ DOMAIN symbols = 1..n
  OBVIOUS
<1> DEFINE name(i) == IF i \in 0..Len(t) - 1 THEN t[i + 1] ELSE Unnamed
           one(k) == [value |-> symbols[k].value, name |-> name(symbols[k].index)]
<1>3. Named(symbols, sections) = [k \in 1..n |-> one(k)]
  BY <1>1, <1>2 DEF Named, Strings
<1>4. ASSUME NEW k \in 1..n PROVE one(k) \in [value : Int, name : Int]
  <2>1. PICK x : x = symbols[k]
    OBVIOUS
  <2>2. x \in [index : Int, value : Int]
    <3>1. PICK E : E = [index : Int, value : Int]
      OBVIOUS
    <3>2. symbols \in Seq(E)
      BY <3>1
    <3>3. x \in E
      BY <1>2, <2>1, <3>2
    <3> QED BY <3>1, <3>3
  <2>3. x.index \in Int /\ x.value \in Int
    BY <2>2
  <2>4. name(x.index) \in Int
    <3>1. CASE x.index \in 0..Len(t) - 1
      <4>1. x.index + 1 \in DOMAIN t
        BY <1>1, <3>1
      <4> QED BY <1>1, <3>1, <4>1
    <3> QED BY <3>1 DEF Unnamed
  <2> HIDE DEF name
  <2> QED BY <2>1, <2>3, <2>4
<1>5. ASSUME NEW k \in 1..n, symbols[k].index \in 0..Len(t) - 1 PROVE one(k).name = t[symbols[k].index + 1]
  BY <1>5
<1> HIDE DEF one
<1>6. PICK E : E = [value : Int, name : Int]
  OBVIOUS
<1>7. [k \in 1..n |-> one(k)] \in [1..n -> E]
  BY <1>4, <1>6
<1>8. [k \in 1..n |-> one(k)] \in Seq(E) /\ Len([k \in 1..n |-> one(k)]) = n
  BY <1>7, IsASeq, LenProperties
<1>9. Named(symbols, sections) \in NamedSymbols
  BY <1>3, <1>6, <1>8 DEF NamedSymbols
<1> QED BY <1>1, <1>2, <1>3, <1>5, <1>8, <1>9

StubbedSymbols == Seq([stub : Seq(Int), name : Int])

\* Each entry of the dynamic table has the name of the symbol it points to.
LEMMA StubbedIs ==
  ASSUME NEW sections \in Seq(SectionRecords), NEW symbols \in NamedSymbols, NEW dynsymbols \in Seq(Int)
  PROVE  /\ Stubbed(dynsymbols, symbols, sections) \in StubbedSymbols
         /\ Having(sections, "SYMBOL_STUBS") # {} =>
              \A h \in 1..Len(dynsymbols) :
                dynsymbols[h] \in 0..Len(symbols) - 1 =>
                  Stubbed(dynsymbols, symbols, sections)[h].name = symbols[dynsymbols[h] + 1].name
<1>1. PICK m \in Nat, n \in Nat : m = Len(dynsymbols) /\ DOMAIN dynsymbols = 1..m /\ n = Len(symbols) /\ DOMAIN symbols = 1..n
  BY DEF NamedSymbols
<1>2. PICK stubs : stubs = Having(sections, "SYMBOL_STUBS")
  OBVIOUS
<1>3. PICK a : a = FirstOf(sections, "SYMBOL_STUBS").address /\ (stubs # {} => a \in Int)
  <2>1. ASSUME stubs # {} PROVE FirstOf(sections, "SYMBOL_STUBS").address \in Int
    <3>1. PICK i \in DOMAIN sections : FirstOf(sections, "SYMBOL_STUBS") = sections[i]
      BY <1>2, <2>1, FirstOfIs
    <3>2. sections[i] \in SectionRecords
      OBVIOUS
    <3> QED BY <3>1, <3>2 DEF SectionRecords
  <2> QED BY <2>1
<1> DEFINE known(h) == stubs # {} /\ dynsymbols[h] \in 0..n - 1
           one(h) == IF known(h) THEN [stub |-> <<a, h - 1>>, name |-> symbols[dynsymbols[h] + 1].name]
                     ELSE [stub |-> <<>>, name |-> Unnamed]
<1>4. Stubbed(dynsymbols, symbols, sections) = [h \in 1..m |-> one(h)]
  BY <1>1, <1>2, <1>3 DEF Stubbed
<1>5. ASSUME NEW h \in 1..m PROVE one(h) \in [stub : Seq(Int), name : Int]
  <2>1. CASE known(h)
    <3>1. a \in Int /\ h - 1 \in Int
      BY <1>3, <2>1
    <3>2. <<a, h - 1>> \in Seq(Int)
      BY <3>1
    <3>3. dynsymbols[h] + 1 \in 1..n
      BY <2>1
    <3>4. PICK x : x = symbols[dynsymbols[h] + 1]
      OBVIOUS
    <3>5. x \in [value : Int, name : Int]
      <4>1. PICK E : E = [value : Int, name : Int]
        OBVIOUS
      <4>2. symbols \in Seq(E)
        BY <4>1 DEF NamedSymbols
      <4>3. x \in E
        BY <1>1, <3>3, <3>4, <4>2
      <4> QED BY <4>1, <4>3
    <3>6. one(h) = [stub |-> <<a, h - 1>>, name |-> x.name]
      BY <2>1, <3>4
    <3>7. x.name \in Int
      BY <3>5
    <3> HIDE DEF one
    <3> QED BY <3>2, <3>6, <3>7
  <2>2. CASE ~known(h)
    <3>1. <<>> \in Seq(Int) /\ Unnamed \in Int
      BY DEF Unnamed
    <3>2. one(h) = [stub |-> <<>>, name |-> Unnamed]
      BY <2>2
    <3> HIDE DEF one
    <3> QED BY <3>1, <3>2
  <2> QED BY <2>1, <2>2
<1>6. ASSUME NEW h \in 1..m, known(h) PROVE one(h).name = symbols[dynsymbols[h] + 1].name
  BY <1>6
<1> HIDE DEF one
<1>7. PICK E : E = [stub : Seq(Int), name : Int]
  OBVIOUS
<1>8. [h \in 1..m |-> one(h)] \in [1..m -> E]
  BY <1>5, <1>7
<1>9. [h \in 1..m |-> one(h)] \in Seq(E)
  BY <1>8, IsASeq
<1>10. Stubbed(dynsymbols, symbols, sections) \in StubbedSymbols
  BY <1>4, <1>7, <1>9 DEF StubbedSymbols
<1>11. ASSUME stubs # {}, NEW h \in 1..m, dynsymbols[h] \in 0..n - 1
       PROVE  Stubbed(dynsymbols, symbols, sections)[h].name = symbols[dynsymbols[h] + 1].name
  BY <1>4, <1>6, <1>11
<1> QED BY <1>1, <1>2, <1>10, <1>11

\* A finished object has sections with data and symbols with names.
LEMMA FinishedType ==
  ASSUME ParserTypeOK
  PROVE  Finished \in Parsed
<1>1. Filled \in Seq(SectionRecords)
  BY FilledIs
<1>2. object.symbols \in Seq([index : Int, value : Int]) /\ object.dynsymbols \in Seq(Int)
  BY DEF ParserTypeOK, Opened
<1>3. PICK n : n = Named(object.symbols, Filled) /\ n \in NamedSymbols
  BY <1>1, <1>2, NamedIs
<1>4. PICK d : d = (IF n = <<>> THEN <<>> ELSE Stubbed(object.dynsymbols, n, Filled)) /\ d \in StubbedSymbols
  <2>1. <<>> \in StubbedSymbols
    BY DEF StubbedSymbols
  <2>2. Stubbed(object.dynsymbols, n, Filled) \in StubbedSymbols
    BY <1>1, <1>2, <1>3, StubbedIs
  <2> QED BY <2>1, <2>2
<1>5. Finished = [sections |-> Filled, symbols |-> n, dynsymbols |-> d]
  BY <1>3, <1>4 DEF Finished
<1> QED BY <1>1, <1>3, <1>4, <1>5 DEF Parsed, NamedSymbols, StubbedSymbols

\* LC_SEGMENT adds the sections that are needed and no version.
LEMMA LoadSegmentKeeps ==
  ASSUME ParserInv, LoadSegment
  PROVE  /\ ParserInv'
         /\ object' \in Opened /\ OnlySections(object, object')
         /\ object'.sections = object.sections \o NeededSections
<1>1. /\ AtCommand /\ Has(2) /\ SegmentIsWhole /\ ParserTypeOK
      /\ object' = [object EXCEPT !.sections = object.sections \o NeededSections]
      /\ TakeCommand(After(pos, At(SectionCount)))
  BY LoadSegmentIs DEF ParserInv
<1>2. PICK more : more = NeededSections /\ more \in Seq(SectionRecords) /\ \A k \in DOMAIN more : more[k].type \notin Platforms
  <2>1. \A k \in DOMAIN NeededSections : NeededSections[k].type \notin Platforms
    BY <1>1, NeededSectionsAre, SectionFromType
  <2> QED BY <1>1, <2>1, NeededSectionsAre
<1>3. At(SectionCount) \in Int
  <2>1. SectionCount \in Nat /\ SegmentWords \in Int /\ SectionWords \in Int
    BY <1>1, SegmentWordsThere, SegmentWidths
  <2> QED BY <2>1 DEF At
<1>4. PICK n \in 0..Len(file) : n = After(pos, At(SectionCount)) /\ pos =< n
  BY <1>1, <1>3, AtCommandIs, AfterType
<1>5. pos \in Nat /\ n \in Nat /\ VersionsBefore(object.sections, pos) /\ object \in Opened /\ object.sections \in Seq(SectionRecords)
  BY <1>1, <1>4, AtCommandIs
<1>6. object.sections \o more \in Seq(SectionRecords) /\ VersionsBefore(object.sections \o more, n)
  BY <1>2, <1>4, <1>5, JoinVersions
<1>7. object' \in Opened /\ OnlySections(object, object') /\ object'.sections = object.sections \o more
  BY <1>1, <1>2, <1>5, <1>6, SectionsChange
<1>8. ParserInv'
  BY <1>1, <1>4, <1>6, <1>7, CommandKeeps
<1> QED BY <1>2, <1>7, <1>8

\* The load commands that bring one section or none keep what the parser knows.
LEMMA LoadOthersKeep ==
  ASSUME ParserInv, LoadSymtab \/ LoadDysymtab \/ LoadVersionMin \/ LoadLinkEdit
  PROVE  ParserInv'
<1>1. CASE LoadSymtab
  <2>1. PICK s : s = SectionOf("STRING", Word(4), Word(5), object.base + Word(4))
    OBVIOUS
  <2>2. s.type \notin Platforms
    BY <2>1, PlatformsAre DEF SectionOf
  <2> QED BY <1>1, <2>1, <2>2, LoadSymtabIs, CheckedCommandKeeps
<1>2. CASE LoadDysymtab
  BY <1>2, LoadDysymtabIs, CheckedCommandKeeps
<1>3. CASE LoadVersionMin
  <2>1. PICK s : s = SectionOf(VersionSection[Type], pos + 2, 2, pos + 2)
    OBVIOUS
  <2>2. s.size = 2 /\ s.offset = pos + 2
    BY <2>1 DEF SectionOf
  <2>3. 2 \in Nat /\ 2 >= 2
    OBVIOUS
  <2> QED BY <1>3, <2>1, <2>2, <2>3, LoadVersionMinIs, CheckedCommandKeeps
<1>4. CASE LoadLinkEdit
  <2>1. PICK s : s = SectionOf("FUNC_STARTS", Word(2), Word(3), object.base + Word(2))
    OBVIOUS
  <2>2. PICK t : t = SectionOf("CODE_SIG", Word(2), Word(3), object.base + Word(2))
    OBVIOUS
  <2>3. s.type \notin Platforms /\ t.type \notin Platforms
    BY <2>1, <2>2, PlatformsAre DEF SectionOf
  <2> QED BY <1>4, <2>1, <2>2, <2>3, LoadLinkEditIs, CheckedCommandKeeps
<1> QED BY <1>1, <1>2, <1>3, <1>4

\* Reading the symbol tables, which are sections too, keeps what the parser knows.
LEMMA ReadSymbolsKeeps ==
  ASSUME ParserInv, ReadSymbols \/ ReadDynSymbols
  PROVE  ParserInv'
<1>1. PICK s \in SectionRecords, n \in 0..Len(file) :
        /\ object' \in Opened /\ object'.sections = Append(object.sections, s) /\ s.type \notin Platforms
        /\ phase \in {"symbols", "dynsymbols"} /\ phase' \in {"dynsymbols", "filling"} /\ pos' = n
        /\ UNCHANGED <<whole, file, order, archs, left, objects>>
  <2>1. CASE ReadSymbols
    <3>1. PICK s : s = SectionOf("SYMBOLS", object.symoff, object.symnum * EntryWords, object.base + object.symoff)
      OBVIOUS
    <3>2. s.type \notin Platforms
      BY <3>1, PlatformsAre DEF SectionOf
    <3>3. object.symoff + object.symnum * EntryWords \in 0..Len(file)
      BY <2>1, ReadSymbolsIs DEF ParserInv, ParserTypeOK
    <3> QED BY <2>1, <3>1, <3>2, <3>3, ReadSymbolsIs
  <2>2. CASE ReadDynSymbols
    <3>1. PICK s : s = SectionOf("DYN_SYMBOLS", object.indirsymoff, object.indirsymnum, object.base + object.indirsymoff)
      OBVIOUS
    <3>2. s.type \notin Platforms
      BY <3>1, PlatformsAre DEF SectionOf
    <3>3. object.indirsymoff + object.indirsymnum \in 0..Len(file)
      BY <2>2, ReadDynSymbolsIs DEF ParserInv, ParserTypeOK
    <3> QED BY <2>2, <3>1, <3>2, <3>3, ReadDynSymbolsIs
  <2> QED BY <2>1, <2>2
<1>2. /\ VersionsBefore(object.sections, Len(file)) /\ Len(file) \in Nat /\ archs # <<>>
      /\ object.sections \in Seq(SectionRecords)
  <2>1. VersionsBefore(object.sections, Len(file))
    BY <1>1 DEF ParserInv, Versions
  <2>2. archs # <<>> /\ object \in Opened /\ Len(file) \in Nat
    BY <1>1 DEF ParserInv, ParserTypeOK
  <2>3. object.sections \in Seq(SectionRecords)
    BY <2>2 DEF Opened
  <2> QED BY <2>1, <2>2, <2>3
<1>3. VersionsBefore(Append(object.sections, s), Len(file))
  <2>1. Len(file) =< Len(file)
    BY <1>2
  <2> QED BY <1>1, <1>2, <2>1, AppendVersions
<1>4. ParserTypeOK'
  BY <1>1, <1>2 DEF ParserInv, ParserTypeOK, Phases
<1>5. Versions'
  BY <1>1, <1>3 DEF ParserInv, Versions
<1> QED BY <1>4, <1>5 DEF ParserInv

\* The versions of the object that is ready are those of the file.
LEMMA FilledVersions ==
  ASSUME ParserInv, VersionsBefore(object.sections, Len(file))
  PROVE  VersionsBefore(Filled, Len(file)) /\ VersionData(Filled, file)
<1>1. /\ DOMAIN Filled = DOMAIN object.sections
      /\ \A i \in DOMAIN Filled :
           /\ Filled[i].type = object.sections[i].type
           /\ Filled[i].size = object.sections[i].size
           /\ Filled[i].offset = object.sections[i].offset
           /\ Filled[i].data = Words(object.sections[i].offset, object.sections[i].size)
  BY FilledIs DEF ParserInv
<1>2. VersionsBefore(Filled, Len(file))
  BY <1>1 DEF VersionsBefore
<1>3. ASSUME NEW j \in DOMAIN Filled, Filled[j].type \in Platforms
      PROVE  Len(Filled[j].data) = 2 /\ Filled[j].data[1] = file[Filled[j].offset + 1]
  <2>1. PICK L \in Nat : L = Len(file) /\ DOMAIN file = 1..L /\ file \in Seq(Int)
    BY DEF ParserInv, ParserTypeOK
  <2>2. PICK o \in Nat : o = Filled[j].offset /\ o + 2 =< L /\ Filled[j].size = 2
    BY <1>2, <1>3, <2>1 DEF VersionsBefore
  <2>3. Filled[j].data = Words(o, 2)
    BY <1>1, <2>2
  <2>4. After(o, 2) = o + 2
    BY <2>1, <2>2 DEF After, Least
  <2>5. Words(o, 2) = SubSeq(file, o + 1, o + 2)
    BY <2>2, <2>4, SMTT(60) DEF Words
  <2>6. PICK d : d = SubSeq(file, o + 1, o + 2)
    OBVIOUS
  <2>7. Len(d) = 2 /\ d[1] = file[o + 1]
    <3>1. /\ o + 1 \in Int /\ o + 2 \in Int /\ o + 1 =< o + 2
          /\ \A i \in (o + 1)..(o + 2) : file[i] \in Int
      BY <2>1, <2>2
    <3>2. /\ Len(d) = IF o + 1 =< o + 2 THEN (o + 2) - (o + 1) + 1 ELSE 0
          /\ \A i \in 1..((o + 2) - (o + 1) + 1) : d[i] = file[(o + 1) + i - 1]
      BY <2>6, <3>1, SubSeqProperties
    <3>3. (o + 2) - (o + 1) + 1 = 2 /\ 1 \in 1..2 /\ (o + 1) + 1 - 1 = o + 1
      BY <2>2
    <3> QED BY <3>1, <3>2, <3>3
  <2> QED BY <2>2, <2>3, <2>5, <2>6, <2>7
<1> QED BY <1>2, <1>3 DEF VersionData

\* The end of an object keeps what the parser knows: the data of a section is what the
\* file has of it.
LEMMA FinishObjectKeeps ==
  ASSUME ParserInv, FinishObject
  PROVE  ParserInv'
<1>1. /\ phase = "filling" /\ phase' = "header" /\ archs' = Tail(archs)
      /\ objects' = Append(objects, Finished) /\ object' = NoObject
      /\ UNCHANGED <<whole, file, pos, order, left>>
  BY FinishObjectIs
<1>2. archs' \in Seq(Int)
  BY <1>1 DEF ParserInv, ParserTypeOK
<1>3. object' \in Opened
  <2>1. /\ <<>> \in Seq(SectionRecords) /\ <<>> \in Seq([index : Int, value : Int]) /\ <<>> \in Seq(Int)
    OBVIOUS
  <2> QED BY <1>1, <2>1 DEF NoObject, Opened
<1>4. objects \in Seq(Parsed) /\ Finished \in Parsed
  BY FinishedType DEF ParserInv, ParserTypeOK
<1>5. ParserTypeOK'
  BY <1>1, <1>2, <1>3, <1>4 DEF ParserInv, ParserTypeOK, Phases
<1>6. VersionsBefore(Filled, Len(file)) /\ VersionData(Filled, file)
  BY <1>1, FilledVersions DEF ParserInv, Versions
<1>7. ASSUME NEW i \in DOMAIN objects'
      PROVE  VersionsBefore(objects'[i].sections, Len(file)) /\ VersionData(objects'[i].sections, file)
  <2>1. CASE i = Len(objects) + 1
    <3>1. objects'[i] = Finished
      BY <1>1, <1>4, <2>1
    <3> QED BY <1>6, <3>1 DEF Finished
  <2>2. CASE i # Len(objects) + 1
    <3>1. i \in DOMAIN objects /\ objects'[i] = objects[i]
      BY <1>1, <1>4, <1>7, <2>2
    <3> QED BY <3>1 DEF ParserInv, Versions
  <2> QED BY <2>1, <2>2
<1>8. Versions'
  BY <1>1, <1>7 DEF Versions
<1> QED BY <1>5, <1>8 DEF ParserInv

\* MachO::detect, parse and parseHeader: every step keeps types and versions.
LEMMA ParserKeeps ==
  ASSUME ParserInv, ParserNext
  PROVE  ParserInv'
<1>1. CASE DetectFails \/ ReadArchsFails \/ ParseHeaderFails \/ CommandFails \/ SegmentFails \/ SymbolsFail
  <2>1. Fail
    BY <1>1 DEF DetectFails, ReadArchsFails, ParseHeaderFails, CommandFails, SegmentFails, SymbolsFail
  <2> QED BY <2>1, FailKeeps
<1>2. CASE DetectThin \/ DetectFat
  BY <1>2, DetectKeeps
<1>3. CASE ReadArchs
  BY <1>3, ReadArchsKeeps
<1>4. CASE ParseHeader
  BY <1>4, ParseHeaderKeeps
<1>5. CASE ParseDone \/ CommandsDone \/ NoSymbols
  BY <1>5, TurnKeeps
<1>6. CASE PassCommand
  BY <1>6, PassCommandKeeps
<1>7. CASE LoadSegment
  BY <1>7, LoadSegmentKeeps
<1>8. CASE LoadSymtab \/ LoadDysymtab \/ LoadVersionMin \/ LoadLinkEdit
  BY <1>8, LoadOthersKeep
<1>9. CASE ReadSymbols \/ ReadDynSymbols
  BY <1>9, ReadSymbolsKeeps
<1>10. CASE FinishObject
  BY <1>10, FinishObjectKeeps
<1> QED BY <1>1, <1>2, <1>3, <1>4, <1>5, <1>6, <1>7, <1>8, <1>9, <1>10 DEF ParserNext, Detect

-----------------------------------------------------------------------------
(***************************************************************************)
(* What the parser has found of a file that it reads in full               *)
(***************************************************************************)
Briefs(sections) == {Brief(sections[j]) : j \in DOMAIN sections}

\* The sections that the first k commands bring, except those of types T.
Found(f, b, k, T) ==
  {s \in UNION {SectionsOf(f, b, Starts(f, b)[i]) : i \in 1..k} : s.type \notin T}

\* The sections of the symbol tables are found after all commands.
Later ==
  CASE phase \in {"commands", "symbols"} -> {"SYMBOLS", "DYN_SYMBOLS"}
    [] phase = "dynsymbols" -> {"DYN_SYMBOLS"}
    [] OTHER -> {}

\* Where the tables are, as far as a command has said so.
TablesRead(b, k) ==
  /\ \A i \in 1..k :
       LET p == Starts(whole, b)[i] IN
       /\ whole[p + 1] = Symtab => object.symoff = whole[p + 3] /\ object.symnum = whole[p + 4]
       /\ whole[p + 1] = Dysymtab => object.indirsymoff = whole[p + 15] /\ object.indirsymnum = whole[p + 16]
  /\ object.symnum # 0 => \E i \in 1..k : whole[Starts(whole, b)[i] + 1] = Symtab
  /\ object.indirsymnum # 0 => \E i \in 1..k : whole[Starts(whole, b)[i] + 1] = Dysymtab

InObject == {"commands", "symbols", "dynsymbols", "filling"}

\* What is known of the object at hand while its commands are read.
Reading(b) ==
  /\ object.base = b /\ order = "little"
  /\ object.bits = IF IsWide(whole, b) THEN 64 ELSE 32
  /\ left \in 0..whole[b + 5]
  /\ left > 0 => phase = "commands" /\ pos = Least(Starts(whole, b)[whole[b + 5] - left + 1], Len(file))
  /\ Briefs(object.sections) = Found(whole, b, whole[b + 5] - left, Later)
  /\ TablesRead(b, whole[b + 5] - left)

\* The inductive invariant of the parser in a file that it reads in full: which objects
\* are left, where the reader is in the one at hand, and which sections were found.
Progress ==
  /\ CutOff
  /\ phase = "detecting" => order = "little" /\ objects = <<>>
  /\ phase = "archs" => file # <<>> /\ file[1] = -FAT_MAGIC /\ pos = 1 /\ order = "big" /\ objects = <<>>
  /\ phase \in {"header"} \cup InObject =>
       /\ Bases(whole) \in Seq(Int)
       /\ Len(Bases(whole)) = Len(objects) + Len(archs)
       /\ \A j \in 1..Len(archs) : archs[j] = Bases(whole)[Len(objects) + j]
  /\ phase = "parsed" => Bases(whole) \in Seq(Int) /\ Len(Bases(whole)) = Len(objects)
  /\ phase \in InObject => Reading(archs[1])
  /\ \A i \in DOMAIN objects : Briefs(objects[i].sections) = AllSections(whole, Bases(whole)[i])

-----------------------------------------------------------------------------
\* The object at hand is one that the file has.
LEMMA CurrentObject ==
  ASSUME ParserInv, Progress, UnderstoodFile, phase \in {"header"} \cup InObject, archs # <<>>
  PROVE  archs[1] \in Int /\ archs[1] = Bases(whole)[Len(objects) + 1] /\ Understood(whole, archs[1])
<1>1. /\ archs \in Seq(Int) /\ Bases(whole) \in Seq(Int) /\ objects \in Seq(Parsed)
      /\ Len(Bases(whole)) = Len(objects) + Len(archs)
      /\ \A j \in 1..Len(archs) : archs[j] = Bases(whole)[Len(objects) + j]
  BY DEF ParserInv, ParserTypeOK, Progress
<1>2. Len(archs) \in Nat /\ Len(archs) >= 1 /\ Len(objects) \in Nat
  BY <1>1
<1>3. archs[1] = Bases(whole)[Len(objects) + 1] /\ Len(objects) + 1 \in DOMAIN Bases(whole)
  BY <1>1, <1>2
<1>4. archs[1] \in Int
  BY <1>1, <1>2
<1> QED BY <1>3, <1>4 DEF UnderstoodFile

\* The words of the file are those of the whole file.
LEMMA CutOffWords ==
  ASSUME ParserTypeOK, CutOff
  PROVE  /\ Len(file) \in Nat /\ Len(whole) \in Nat /\ Len(file) =< Len(whole)
         /\ \A k \in 1..Len(file) : file[k] = whole[k] /\ whole[k] \in Int
BY DEF ParserTypeOK, CutOff

\* A reader in step is at the command it is to read.
LEMMA AtCommandInStep ==
  ASSUME ParserInv, Progress, UnderstoodFile, AtCommand, Has(2)
  PROVE  LET b == archs[1]
             n == whole[b + 5]
             k == n - left + 1
         IN
         /\ b \in Nat /\ Understood(whole, b) /\ n \in Nat /\ left \in 1..n /\ k \in 1..n
         /\ pos = Starts(whole, b)[k] /\ pos \in Nat /\ ReadInFull(whole, b, pos)
         /\ k < n => Starts(whole, b)[k + 1] = pos + whole[pos + 2]
         /\ \A m \in Nat : Has(m + 1) => Word(m) = whole[pos + m + 1]
         /\ Reading(b) /\ object.base = b /\ order = "little" /\ object.bits = IF IsWide(whole, b) THEN 64 ELSE 32
         /\ Type = whole[pos + 1] /\ CommandSize = whole[pos + 2]
<1>1. PICK b : b = archs[1]
  OBVIOUS
<1>2. phase = "commands" /\ left # 0 /\ archs # <<>>
  BY DEF AtCommand, ParserInv, ParserTypeOK
<1>3. b \in Int /\ Understood(whole, b) /\ Reading(b)
  BY <1>1, <1>2, CurrentObject DEF Progress, InObject
<1>4. PICK n \in Nat : n = whole[b + 5] /\ b \in Nat
  BY <1>3, CommandsFollow DEF ParserInv, ParserTypeOK
<1>5. left \in 1..n
  BY <1>2, <1>3, <1>4 DEF Reading
<1>6. PICK k \in 1..n : k = n - left + 1
  BY <1>4, <1>5
<1>7. PICK p : p = Starts(whole, b)[k]
  OBVIOUS
<1>8. p \in Nat /\ ReadInFull(whole, b, p) /\ (k < n => Starts(whole, b)[k + 1] = p + whole[p + 2])
  BY <1>3, <1>4, <1>7, CommandsFollow DEF ParserInv, ParserTypeOK
<1>9. pos = Least(p, Len(file))
  BY <1>2, <1>3, <1>4, <1>5, <1>6, <1>7 DEF Reading
<1>10. Len(file) \in Nat /\ \A i \in 1..Len(file) : file[i] = whole[i]
  BY CutOffWords DEF ParserInv, Progress
<1>11. pos = p
  <2>1. pos + 2 =< Len(file)
    BY DEF Has
  <2> QED BY <1>8, <1>9, <1>10, <2>1 DEF Least
<1>12. order = "little" /\ object.base = b /\ object.bits = IF IsWide(whole, b) THEN 64 ELSE 32
  BY <1>3 DEF Reading
<1>13. ASSUME NEW m \in Nat, Has(m + 1) PROVE Word(m) = whole[pos + m + 1]
  <2>1. pos + m + 1 \in 1..Len(file)
    BY <1>8, <1>10, <1>11, <1>13 DEF Has
  <2> QED BY <1>10, <1>12, <2>1 DEF Word
<1>14. Type = whole[pos + 1] /\ CommandSize = whole[pos + 2]
  <2>1. Has(0 + 1) /\ Has(1 + 1)
    BY <1>8, <1>10, <1>11 DEF Has
  <2>2. Word(0) = whole[pos + 0 + 1] /\ Word(1) = whole[pos + 1 + 1]
    BY <1>13, <2>1
  <2> QED BY <1>8, <1>11, <2>2 DEF Type, CommandSize
<1> QED BY <1>1, <1>3, <1>4, <1>5, <1>6, <1>7, <1>8, <1>11, <1>12, <1>13, <1>14

-----------------------------------------------------------------------------
\* The groups of commands have no type in common.
LEMMA SizedAsIs ==
  ASSUME NEW f, NEW b, NEW p, SizedAs(f, b, p)
  PROVE  LET t == f[p + 1]
             extent == f[p + 2]
         IN
         /\ t \in Segment => extent = SegmentHead(f, b) + f[p + SegmentHead(f, b) - 2 + 1] * SectionWidth(f, b)
         /\ t \in DyldInfo => extent = 12
         /\ t = Dysymtab => extent = 20
         /\ t \in {Symtab, Main, Uuid} => extent = 6
         /\ t \in LinkEdit \cup VersionMin \cup {SourceVersion, DataInCode} => extent = 4
         /\ t \in Dylib => f[p + 2 + 1] = 6 /\ extent >= 6
         /\ t \in Path => f[p + 2 + 1] = 3 /\ extent >= 4
         /\ t \in Thread => f[p + 3 + 1] >= 0 /\ extent = 4 + f[p + 3 + 1]
<1> DEFINE t == f[p + 1]
           extent == f[p + 2]
           w(n) == f[p + n + 1]
<1> USE DEF Segment, DyldInfo, Dysymtab, Symtab, Main, Uuid, LinkEdit, FunctionStarts, CodeSignature, VersionMin,
            SourceVersion, DataInCode, Dylib, Path, Thread, High
<1>1. CASE t \in Segment /\ extent = SegmentHead(f, b) + w(SegmentHead(f, b) - 2) * SectionWidth(f, b)
  BY <1>1
<1>2. CASE t \in DyldInfo /\ extent = 12
  BY <1>2
<1>3. CASE t = Dysymtab /\ extent = 20
  BY <1>3
<1>4. CASE t \in {Symtab, Main, Uuid} /\ extent = 6
  BY <1>4
<1>5. CASE t \in LinkEdit \cup VersionMin \cup {SourceVersion, DataInCode} /\ extent = 4
  BY <1>5
<1>6. CASE t \in Dylib /\ w(2) = 6 /\ extent >= 6
  BY <1>6
<1>7. CASE t \in Path /\ w(2) = 3 /\ extent >= 4
  BY <1>7
<1>8. CASE t \in Thread /\ w(3) >= 0 /\ extent = 4 + w(3)
  BY <1>8
<1> QED BY <1>1, <1>2, <1>3, <1>4, <1>5, <1>6, <1>7, <1>8 DEF SizedAs

\* The size of a segment command counts its sections.
LEMMA SegmentSize ==
  ASSUME NEW f, NEW b, NEW p, SizedAs(f, b, p), f[p + 1] \in Segment
  PROVE  f[p + 2] = SegmentHead(f, b) + f[p + SegmentHead(f, b) - 2 + 1] * SectionWidth(f, b)
<1>1. f[p + 1] \notin DyldInfo \cup {Dysymtab, Symtab, Main, Uuid} \cup LinkEdit \cup VersionMin
                     \cup {SourceVersion, DataInCode} \cup Dylib \cup Path \cup Thread
  BY DEF Segment, DyldInfo, Dysymtab, Symtab, Main, Uuid, LinkEdit, FunctionStarts, CodeSignature, VersionMin,
         SourceVersion, DataInCode, Dylib, Path, Thread, High
<1> QED BY <1>1 DEF SizedAs

\* A reader that goes to the end of a command is at the next one.
LEMMA StaysInStep ==
  ASSUME ParserInv, Progress, UnderstoodFile, AtCommand, Has(2),
         TakeCommand(Least(pos + whole[pos + 2], Len(file)))
  PROVE  LET n == whole[archs[1] + 5] IN
         /\ left' = left - 1 /\ left' \in 0..n
         /\ n - left' = n - left + 1 /\ n - left' \in 1..n
         /\ left' > 0 => phase' = "commands" /\ pos' = Least(Starts(whole, archs[1])[n - left' + 1], Len(file))
<1>1. PICK b \in Nat, n \in Nat : b = archs[1] /\ n = whole[b + 5]
  BY AtCommandInStep
<1>2. PICK k \in 1..n : /\ k = n - left + 1 /\ left \in 1..n
                        /\ k < n => Starts(whole, b)[k + 1] = pos + whole[pos + 2]
  BY <1>1, AtCommandInStep
<1>3. /\ left' = left - 1 /\ pos' = Least(pos + whole[pos + 2], Len(file)) /\ phase' = phase /\ phase = "commands"
  BY DEF TakeCommand, AtCommand
<1>4. left' \in 0..n /\ n - left' = k /\ (left' > 0 => k < n)
  BY <1>2, <1>3
<1>5. left' > 0 => pos' = Least(Starts(whole, b)[n - left' + 1], Len(file))
  BY <1>2, <1>3, <1>4
<1> QED BY <1>1, <1>2, <1>3, <1>4, <1>5

\* Commands whose words are all checked end there.
LEMMA CheckedEnds ==
  ASSUME ParserInv, Progress, UnderstoodFile, AtCommand, Has(2), NEW c \in Nat, Has(2 + c), whole[pos + 2] = 2 + c
  PROVE  pos + 2 + c = Least(pos + whole[pos + 2], Len(file))
<1>1. pos \in Nat /\ Len(file) \in Nat
  BY AtCommandIs
<1> QED BY <1>1 DEF Has, Least

\* Commands of which nothing is kept are read to their end.
LEMMA PassEnds ==
  ASSUME ParserInv, Progress, UnderstoodFile, PassCommand
  PROVE  After(pos + 2 + Checked(Type), Unchecked(Type)) = Least(pos + whole[pos + 2], Len(file))
<1>1. AtCommand /\ Has(2) /\ Has(2 + Checked(Type))
      /\ Type \notin Obsolete \cup Segment \cup VersionMin \cup LinkEdit \cup {Symtab, Dysymtab}
  BY DEF PassCommand
<1>2. PICK b \in Nat : /\ b = archs[1] /\ pos \in Nat /\ ReadInFull(whole, b, pos) /\ Type = whole[pos + 1] /\ CommandSize = whole[pos + 2]
                       /\ \A m \in Nat : Has(m + 1) => Word(m) = whole[pos + m + 1]
  BY <1>1, AtCommandInStep
<1>3. PICK L \in Nat : L = Len(file)
  BY <1>1, AtCommandIs
<1>4. whole \in Seq(Int) /\ SizedAs(whole, b, pos)
  BY <1>2 DEF ParserInv, ParserTypeOK, ReadInFull
<1>5. PICK extent \in Nat : extent = whole[pos + 2] /\ whole[pos + 1] \in CommandTypes
  BY <1>2, <1>4, ReadInFullIs
<1>6. ASSUME NEW c \in Nat, NEW u \in Nat, Checked(Type) = c, Unchecked(Type) = u, extent = 2 + c + u
      PROVE  After(pos + 2 + Checked(Type), Unchecked(Type)) = Least(pos + whole[pos + 2], Len(file))
  BY <1>2, <1>3, <1>5, <1>6 DEF After, Least
<1>14. /\ Type \in DyldInfo => extent = 12
       /\ Type \in {Symtab, Main, Uuid} => extent = 6
       /\ Type \in LinkEdit \cup VersionMin \cup {SourceVersion, DataInCode} => extent = 4
       /\ Type \in Dylib => whole[pos + 2 + 1] = 6 /\ extent >= 6
       /\ Type \in Path => whole[pos + 2 + 1] = 3 /\ extent >= 4
       /\ Type \in Thread => whole[pos + 3 + 1] >= 0 /\ extent = 4 + whole[pos + 3 + 1]
  <2>1. LET t == whole[pos + 1]
            size0 == whole[pos + 2]
        IN
        /\ t \in DyldInfo => size0 = 12
        /\ t \in {Symtab, Main, Uuid} => size0 = 6
        /\ t \in LinkEdit \cup VersionMin \cup {SourceVersion, DataInCode} => size0 = 4
        /\ t \in Dylib => whole[pos + 2 + 1] = 6 /\ size0 >= 6
        /\ t \in Path => whole[pos + 2 + 1] = 3 /\ size0 >= 4
        /\ t \in Thread => whole[pos + 3 + 1] >= 0 /\ size0 = 4 + whole[pos + 3 + 1]
    BY <1>4, SizedAsIs, ZenonT(60)
  <2> QED BY <1>2, <1>5, <2>1
<1>7. CASE Type \in DyldInfo
  <2>1. Checked(Type) = 10 /\ extent = 12
    BY <1>7, <1>14, CheckedIs
  <2>2. Unchecked(Type) = 0
    BY <1>7, UncheckedIs DEF DyldInfo, Dylib, Path, Uuid, Thread, Skipped, High
  <2> QED BY <1>6, <2>1, <2>2
<1>8. CASE Type = Main
  <2>1. Checked(Type) = 4 /\ extent = 6
    BY <1>8, <1>14, CheckedIs
  <2>2. Unchecked(Type) = 0
    BY <1>8, UncheckedIs DEF Main, Dylib, Path, Uuid, Thread, Skipped, High
  <2> QED BY <1>6, <2>1, <2>2
<1>9. CASE Type \in {SourceVersion, DataInCode}
  <2>1. Checked(Type) = 2 /\ extent = 4
    BY <1>9, <1>14, CheckedIs
  <2>2. Unchecked(Type) = 0
    BY <1>9, UncheckedIs DEF SourceVersion, DataInCode, Dylib, Path, Uuid, Thread, Skipped, High
  <2> QED BY <1>6, <2>1, <2>2
<1>10. CASE Type = Uuid
  <2>1. Checked(Type) = 0 /\ extent = 6
    BY <1>10, <1>14, CheckedIs
  <2>2. Unchecked(Type) = 4
    BY <1>10, UncheckedIs
  <2> QED BY <1>6, <2>1, <2>2
<1>11. CASE Type \in Dylib
  <2>1. Checked(Type) = 4 /\ extent >= 6 /\ whole[pos + 2 + 1] = 6
    BY <1>11, <1>14, CheckedIs
  <2>2. Word(2) = whole[pos + 2 + 1]
    <3>1. Has(2 + 1)
      BY <1>1, <1>2, <1>3, <2>1 DEF Has
    <3> QED BY <1>2, <3>1
  <2>3. Unchecked(Type) = extent - 6
    BY <1>2, <1>5, <1>11, <2>1, <2>2, UncheckedIs
  <2>4. extent - 6 \in Nat /\ extent = 2 + 4 + (extent - 6)
    BY <2>1
  <2> QED BY <1>6, <2>1, <2>3, <2>4
<1>12. CASE Type \in Path
  <2>1. Checked(Type) = 1 /\ extent >= 4 /\ whole[pos + 2 + 1] = 3
    BY <1>12, <1>14, CheckedIs
  <2>2. Word(2) = whole[pos + 2 + 1]
    <3>1. Has(2 + 1)
      BY <1>1, <1>2, <1>3, <2>1 DEF Has
    <3> QED BY <1>2, <3>1
  <2>3. Unchecked(Type) = extent - 3
    BY <1>2, <1>5, <1>12, <2>1, <2>2, UncheckedIs
  <2>4. extent - 3 \in Nat /\ extent = 2 + 1 + (extent - 3)
    BY <2>1
  <2> QED BY <1>6, <2>1, <2>3, <2>4
<1>13. CASE Type \in Thread
  <2>1. Checked(Type) = 2 /\ extent = 4 + whole[pos + 3 + 1] /\ whole[pos + 3 + 1] >= 0
    BY <1>13, <1>14, CheckedIs
  <2>2. whole[pos + 3] = 4
    BY <1>2, <1>13 DEF ReadInFull
  <2>3. Word(2) = 4 /\ Word(3) = whole[pos + 3 + 1]
    <3>1. Has(2 + 1) /\ Has(3 + 1)
      BY <1>1, <1>2, <1>3, <2>1 DEF Has
    <3>2. Word(2) = whole[pos + 2 + 1] /\ Word(3) = whole[pos + 3 + 1]
      BY <1>2, <3>1
    <3> QED BY <1>2, <2>2, <3>2
  <2>4. PICK s \in Nat : s = whole[pos + 3 + 1]
    <3>1. pos + 4 =< Len(whole)
      BY <1>2 DEF ReadInFull
    <3>2. whole[pos + 4] \in Int
      BY <1>2, <1>4, <3>1
    <3> QED BY <1>2, <2>1, <3>2
  <2>5. Unchecked(Type) = s
    <3>1. Unchecked(Type) = (4 * s) \div 4
      BY <1>13, <2>3, <2>4, UncheckedIs
    <3> QED BY <3>1
  <2>6. extent = 2 + 2 + s
    BY <1>5, <2>1, <2>4
  <2> QED BY <1>6, <2>1, <2>5, <2>6
<1> QED BY <1>1, <1>2, <1>5, <1>7, <1>8, <1>9, <1>10, <1>11, <1>12, <1>13 DEF CommandTypes

-----------------------------------------------------------------------------
\* One section more, or several.
LEMMA BriefsAppend ==
  ASSUME NEW sections \in Seq(SectionRecords), NEW s \in SectionRecords
  PROVE  Briefs(Append(sections, s)) = Briefs(sections) \cup {Brief(s)}
<1>1. PICK n \in Nat : n = Len(sections) /\ DOMAIN sections = 1..n
  OBVIOUS
<1>2. PICK r : r = Append(sections, s)
  OBVIOUS
<1>3. DOMAIN r = 1..(n + 1) /\ r[n + 1] = s /\ \A j \in 1..n : r[j] = sections[j]
  BY <1>1, <1>2, AppendProperties
<1>4. ASSUME NEW x \in Briefs(r) PROVE x \in Briefs(sections) \cup {Brief(s)}
  <2>1. PICK j \in 1..(n + 1) : x = Brief(r[j])
    BY <1>3, <1>4 DEF Briefs
  <2>2. j = n + 1 \/ j \in 1..n
    BY <1>1
  <2> QED BY <1>1, <1>3, <2>1, <2>2 DEF Briefs
<1>5. ASSUME NEW x \in Briefs(sections) \cup {Brief(s)} PROVE x \in Briefs(r)
  <2>1. CASE x = Brief(s)
    <3>1. n + 1 \in DOMAIN r
      BY <1>1, <1>3
    <3> QED BY <1>3, <2>1, <3>1 DEF Briefs
  <2>2. CASE x \in Briefs(sections)
    <3>1. PICK j \in 1..n : x = Brief(sections[j])
      BY <1>1, <2>2 DEF Briefs
    <3>2. j \in DOMAIN r
      BY <1>1, <1>3
    <3> QED BY <1>3, <3>1, <3>2 DEF Briefs
  <2> QED BY <1>5, <2>1, <2>2
<1> QED BY <1>2, <1>4, <1>5

\* The sections of two lists.
LEMMA BriefsJoin ==
  ASSUME NEW sections \in Seq(SectionRecords), NEW more \in Seq(SectionRecords)
  PROVE  Briefs(sections \o more) = Briefs(sections) \cup Briefs(more)
<1>1. PICK n \in Nat, m \in Nat : n = Len(sections) /\ DOMAIN sections = 1..n /\ m = Len(more) /\ DOMAIN more = 1..m
  OBVIOUS
<1>2. PICK r : r = sections \o more
  OBVIOUS
<1>3. DOMAIN r = 1..(n + m) /\ \A j \in 1..(n + m) : r[j] = IF j =< n THEN sections[j] ELSE more[j - n]
  BY <1>1, <1>2, ConcatProperties
<1>4. ASSUME NEW x \in Briefs(r) PROVE x \in Briefs(sections) \cup Briefs(more)
  <2>1. PICK j \in 1..(n + m) : x = Brief(r[j])
    BY <1>3, <1>4 DEF Briefs
  <2>2. j \in 1..n \/ (j - n \in 1..m /\ ~(j =< n))
    BY <1>1
  <2> QED BY <1>1, <1>3, <2>1, <2>2 DEF Briefs
<1>5. ASSUME NEW x \in Briefs(sections) \cup Briefs(more) PROVE x \in Briefs(r)
  <2>1. CASE x \in Briefs(sections)
    <3>1. PICK j \in 1..n : x = Brief(sections[j])
      BY <1>1, <2>1 DEF Briefs
    <3>2. j \in 1..(n + m) /\ j =< n
      BY <1>1
    <3> QED BY <1>3, <3>1, <3>2 DEF Briefs
  <2>2. CASE x \in Briefs(more)
    <3>1. PICK j \in 1..m : x = Brief(more[j])
      BY <1>1, <2>2 DEF Briefs
    <3>2. n + j \in 1..(n + m) /\ ~(n + j =< n) /\ (n + j) - n = j
      BY <1>1
    <3>3. r[n + j] = more[j]
      BY <1>3, <3>2
    <3> QED BY <1>3, <3>1, <3>2, <3>3 DEF Briefs
  <2> QED BY <1>5, <2>1, <2>2
<1> QED BY <1>2, <1>4, <1>5

\* What a command brings at once.
Own(f, b, p) == {s \in SectionsOf(f, b, p) : s.type \notin {"SYMBOLS", "DYN_SYMBOLS"}}

\* Reading one command more finds the sections of its own.
LEMMA OwnFound ==
  ASSUME NEW f, NEW b, NEW T, T = {"SYMBOLS", "DYN_SYMBOLS"},
         NEW k \in Nat, k # 0, NEW j \in Nat, j = k - 1, NEW p, p = Starts(f, b)[k], NEW s
  PROVE  s \in Found(f, b, k, T) <=> s \in Found(f, b, j, T) \/ s \in Own(f, b, p)
<1>1. \A i : i \in 1..k <=> i \in 1..j \/ i = k
  OBVIOUS
<1>2. /\ s \in Found(f, b, k, T) <=> s.type \notin T /\ \E i \in 1..k : s \in SectionsOf(f, b, Starts(f, b)[i])
      /\ s \in Found(f, b, j, T) <=> s.type \notin T /\ \E i \in 1..j : s \in SectionsOf(f, b, Starts(f, b)[i])
  BY ZenonT(60) DEF Found
<1>3. s \in Own(f, b, p) <=> s.type \notin T /\ s \in SectionsOf(f, b, Starts(f, b)[k])
  BY ZenonT(60) DEF Own
<1> QED BY <1>1, <1>2, <1>3, ZenonT(60)

\* A segment command brings the sections it lists.
LEMMA SegmentSections ==
  ASSUME NEW f, NEW b, NEW p, f[p + 1] \in Segment
  PROVE  SectionsOf(f, b, p) = SectionsInSegment(f, b, p)
BY DEF SectionsOf, Segment, VersionMin, FunctionStarts, CodeSignature, Symtab, Dysymtab

\* The groups again, for what they bring.
LEMMA SectionsOfIs ==
  ASSUME NEW f, NEW b, NEW p
  PROVE  LET t == f[p + 1]
             w(n) == f[p + n + 1]
         IN
         /\ t \in Segment => SectionsOf(f, b, p) = SectionsInSegment(f, b, p)
         /\ t \in VersionMin => SectionsOf(f, b, p) = {Listed(VersionSection[t], 2, p + 2)}
         /\ t = FunctionStarts => SectionsOf(f, b, p) = {Listed("FUNC_STARTS", w(3), b + w(2))}
         /\ t = CodeSignature => SectionsOf(f, b, p) = {Listed("CODE_SIG", w(3), b + w(2))}
         /\ t = Symtab => SectionsOf(f, b, p) =
              {Listed("STRING", w(5), b + w(4))} \cup
              IF w(3) = 0 THEN {} ELSE {Listed("SYMBOLS", w(3) * (IF IsWide(f, b) THEN 4 ELSE 3), b + w(2))}
         /\ t = Dysymtab => SectionsOf(f, b, p) = IF w(15) = 0 THEN {} ELSE {Listed("DYN_SYMBOLS", w(15), b + w(14))}
         /\ t \notin Segment \cup VersionMin \cup {FunctionStarts, CodeSignature, Symtab, Dysymtab} => SectionsOf(f, b, p) = {}
<1> USE DEF Segment, VersionMin, FunctionStarts, CodeSignature, Symtab, Dysymtab
<1> DEFINE t == f[p + 1]
<1>1. CASE t \in Segment
  BY <1>1 DEF SectionsOf
<1>2. CASE t \in VersionMin
  BY <1>2 DEF SectionsOf
<1>3. CASE t = FunctionStarts
  BY <1>3 DEF SectionsOf
<1>4. CASE t = CodeSignature
  BY <1>4 DEF SectionsOf
<1>5. CASE t = Symtab
  BY <1>5 DEF SectionsOf
<1>6. CASE t = Dysymtab
  BY <1>6 DEF SectionsOf
<1>7. CASE t \notin Segment \cup VersionMin \cup {FunctionStarts, CodeSignature, Symtab, Dysymtab}
  BY <1>7 DEF SectionsOf
<1> QED BY <1>1, <1>2, <1>3, <1>4, <1>5, <1>6, <1>7

\* The sections a command brings by itself, by its kind.
LEMMA OwnIs ==
  ASSUME NEW f, NEW b, NEW p
  PROVE  LET t == f[p + 1]
             w(n) == f[p + n + 1]
         IN
         /\ t \in VersionMin => Own(f, b, p) = {Listed(VersionSection[t], 2, p + 2)}
         /\ t = FunctionStarts => Own(f, b, p) = {Listed("FUNC_STARTS", w(3), b + w(2))}
         /\ t = CodeSignature => Own(f, b, p) = {Listed("CODE_SIG", w(3), b + w(2))}
         /\ t = Symtab => Own(f, b, p) = {Listed("STRING", w(5), b + w(4))}
         /\ t \notin Segment \cup VersionMin \cup {FunctionStarts, CodeSignature, Symtab} => Own(f, b, p) = {}
<1> DEFINE t == f[p + 1]
           w(n) == f[p + n + 1]
<1>1. \A type, extent, offset : Listed(type, extent, offset).type = type
  BY DEF Listed
<1>2. CASE t \in VersionMin
  <2>1. VersionSection[t] \notin {"SYMBOLS", "DYN_SYMBOLS"}
    BY <1>2, PlatformsAre
  <2>2. SectionsOf(f, b, p) = {Listed(VersionSection[t], 2, p + 2)}
    BY <1>2, SectionsOfIs
  <2>3. Own(f, b, p) = {Listed(VersionSection[t], 2, p + 2)}
    BY <1>1, <2>1, <2>2 DEF Own
  <2> QED BY <1>2, <2>3 DEF VersionMin, FunctionStarts, CodeSignature, Symtab
<1>3. CASE t = FunctionStarts
  <2>1. SectionsOf(f, b, p) = {Listed("FUNC_STARTS", w(3), b + w(2))}
    BY <1>3, SectionsOfIs
  <2>2. Own(f, b, p) = {Listed("FUNC_STARTS", w(3), b + w(2))}
    BY <1>1, <2>1 DEF Own
  <2> QED BY <1>3, <2>2 DEF VersionMin, FunctionStarts, CodeSignature, Symtab
<1>4. CASE t = CodeSignature
  <2>1. SectionsOf(f, b, p) = {Listed("CODE_SIG", w(3), b + w(2))}
    BY <1>4, SectionsOfIs
  <2>2. Own(f, b, p) = {Listed("CODE_SIG", w(3), b + w(2))}
    BY <1>1, <2>1 DEF Own
  <2> QED BY <1>4, <2>2 DEF VersionMin, FunctionStarts, CodeSignature, Symtab
<1>5. CASE t = Symtab
  <2>1. PICK x : x = Listed("STRING", w(5), b + w(4)) /\ x.type \notin {"SYMBOLS", "DYN_SYMBOLS"}
    BY <1>1
  <2>2. PICK y : y = Listed("SYMBOLS", w(3) * (IF IsWide(f, b) THEN 4 ELSE 3), b + w(2)) /\ y.type = "SYMBOLS"
    BY <1>1
  <2>3. SectionsOf(f, b, p) = {x} \cup IF w(3) = 0 THEN {} ELSE {y}
    BY <1>5, <2>1, <2>2, SectionsOfIs
  <2>4. Own(f, b, p) = {x}
    BY <2>1, <2>2, <2>3 DEF Own
  <2> QED BY <1>5, <2>1, <2>4 DEF VersionMin, FunctionStarts, CodeSignature, Symtab
<1>6. CASE t = Dysymtab
  <2>1. PICK y : y = Listed("DYN_SYMBOLS", w(15), b + w(14)) /\ y.type = "DYN_SYMBOLS"
    BY <1>1
  <2>2. SectionsOf(f, b, p) = IF w(15) = 0 THEN {} ELSE {y}
    BY <1>6, <2>1, SectionsOfIs
  <2>3. Own(f, b, p) = {}
    BY <2>1, <2>2 DEF Own
  <2> QED BY <1>6, <2>3 DEF VersionMin, FunctionStarts, CodeSignature, Symtab, Dysymtab
<1>7. CASE t \notin VersionMin \cup {FunctionStarts, CodeSignature, Symtab, Dysymtab}
  <2>1. t \notin Segment => SectionsOf(f, b, p) = {}
    BY <1>7, SectionsOfIs
  <2>2. t \notin Segment => Own(f, b, p) = {}
    BY <2>1 DEF Own
  <2> QED BY <1>7, <2>2
<1> QED BY <1>2, <1>3, <1>4, <1>5, <1>6, <1>7

-----------------------------------------------------------------------------
\* A command is read in full: the tables it names are known, and what it
\* brings at once is found.
TablesKept ==
  /\ IF Type = Symtab
     THEN object'.symoff = whole[pos + 3] /\ object'.symnum = whole[pos + 4]
     ELSE object'.symoff = object.symoff /\ object'.symnum = object.symnum
  /\ IF Type = Dysymtab
     THEN object'.indirsymoff = whole[pos + 15] /\ object'.indirsymnum = whole[pos + 16]
     ELSE object'.indirsymoff = object.indirsymoff /\ object'.indirsymnum = object.indirsymnum

\* Where the symbol tables are is known from the commands read so far.
LEMMA TablesStay ==
  ASSUME ParserInv, Progress, UnderstoodFile, AtCommand, Has(2), whole' = whole, TablesKept,
         NEW b \in Int, b = archs[1], NEW k \in Int, k = whole[b + 5] - left + 1
  PROVE  TablesRead(b, k)'
<1>1. PICK n \in Nat : /\ n = whole[b + 5] /\ k \in 1..n /\ k = n - left + 1
                       /\ Understood(whole, b) /\ Reading(b) /\ Type = whole[pos + 1] /\ pos = Starts(whole, b)[k]
  BY AtCommandInStep
<1>2. PICK s : s = Starts(whole, b)
  OBVIOUS
<1>3. TablesRead(b, k - 1)
  <2>1. n - left = k - 1
    <3>1. left \in Int
      BY DEF ParserInv, ParserTypeOK
    <3> QED BY <1>1, <3>1
  <2> QED BY <1>1, <2>1 DEF Reading
<1>4. ASSUME NEW i \in 1..(k - 1)
      PROVE  ~(whole[s[i] + 1] = Type /\ Type \in {Symtab, Dysymtab})
  <2>1. i \in Commands(whole, b) /\ k \in Commands(whole, b) /\ i # k
    BY <1>1, <1>4 DEF Commands
  <2> QED BY <1>1, <1>2, <2>1 DEF Understood
<1>5. \A i : i \in 1..k <=> i \in 1..(k - 1) \/ i = k
  BY <1>1
<1>6. Symtab # Dysymtab
  BY DEF Symtab, Dysymtab
<1>7. ASSUME NEW i \in 1..k
      PROVE  /\ whole[s[i] + 1] = Symtab => object'.symoff = whole[s[i] + 3] /\ object'.symnum = whole[s[i] + 4]
             /\ whole[s[i] + 1] = Dysymtab => object'.indirsymoff = whole[s[i] + 15] /\ object'.indirsymnum = whole[s[i] + 16]
  <2>1. CASE i = k
    BY <1>1, <1>2, <1>6, <2>1 DEF TablesKept
  <2>2. CASE i \in 1..(k - 1)
    <3>1. /\ whole[s[i] + 1] = Symtab => object.symoff = whole[s[i] + 3] /\ object.symnum = whole[s[i] + 4]
          /\ whole[s[i] + 1] = Dysymtab => object.indirsymoff = whole[s[i] + 15] /\ object.indirsymnum = whole[s[i] + 16]
      BY <1>2, <1>3, <2>2 DEF TablesRead
    <3> QED BY <1>4, <2>2, <3>1 DEF TablesKept
  <2> QED BY <1>5, <2>1, <2>2
<1>8. object'.symnum # 0 => \E i \in 1..k : whole[s[i] + 1] = Symtab
  <2>1. CASE Type = Symtab
    BY <1>1, <1>2, <2>1
  <2>2. CASE Type # Symtab
    <3>1. object'.symnum = object.symnum
      BY <2>2 DEF TablesKept
    <3> QED BY <1>2, <1>3, <1>5, <3>1 DEF TablesRead
  <2> QED BY <2>1, <2>2
<1>9. object'.indirsymnum # 0 => \E i \in 1..k : whole[s[i] + 1] = Dysymtab
  <2>1. CASE Type = Dysymtab
    BY <1>1, <1>2, <2>1
  <2>2. CASE Type # Dysymtab
    <3>1. object'.indirsymnum = object.indirsymnum
      BY <2>2 DEF TablesKept
    <3> QED BY <1>2, <1>3, <1>5, <3>1 DEF TablesRead
  <2> QED BY <2>1, <2>2
<1> QED BY <1>2, <1>7, <1>8, <1>9 DEF TablesRead

\* A load command read in full: the reader is at the next one, and the sections are
\* those of the commands read so far.
LEMMA CommandProgress ==
  ASSUME ParserInv, Progress, UnderstoodFile, AtCommand, Has(2),
         TakeCommand(Least(pos + whole[pos + 2], Len(file))), TablesKept,
         object'.base = object.base, object'.bits = object.bits,
         Briefs(object'.sections) = Briefs(object.sections) \cup Own(whole, archs[1], pos)
  PROVE  Progress'
<1>0. PICK b \in Nat, n \in Nat : b = archs[1] /\ n = whole[b + 5]
  BY AtCommandInStep
<1>1. PICK k \in 1..n : /\ b = archs[1] /\ n = whole[b + 5] /\ k = n - left + 1
                        /\ Understood(whole, b) /\ Reading(b) /\ pos = Starts(whole, b)[k]
  BY <1>0, AtCommandInStep
<1>2. /\ left' = left - 1 /\ left' \in 0..n /\ n - left' = k
      /\ left' > 0 => phase' = "commands" /\ pos' = Least(Starts(whole, b)[n - left' + 1], Len(file))
  BY <1>1, StaysInStep
<1>3. phase = "commands" /\ UNCHANGED <<phase, whole, file, order, archs, objects>>
  BY DEF AtCommand, TakeCommand
<1>4. Later = {"SYMBOLS", "DYN_SYMBOLS"} /\ Later' = Later
  BY <1>3 DEF Later
<1>5. Briefs(object.sections)' = Found(whole, b, n - left', Later')
  <2>1. n - left = k - 1
    <3>1. left \in Int
      BY DEF ParserInv, ParserTypeOK
    <3> QED BY <1>1, <3>1
  <2>2. Briefs(object.sections) = Found(whole, b, k - 1, Later)
    BY <1>1, <2>1 DEF Reading
  <2>3. Found(whole, b, k, Later) = Found(whole, b, k - 1, Later) \cup Own(whole, b, pos)
    <3>1. k \in Nat \ {0}
      BY <1>1
    <3>2. pos = Starts(whole, b)[k]
      BY <1>1
    <3>3. Later = {"SYMBOLS", "DYN_SYMBOLS"}
      BY <1>4
    <3>4. PICK T, p, m : T = Later /\ p = pos /\ m = k
      OBVIOUS
    <3>5. PICK j \in Nat : j = k - 1
      BY <3>1
    <3>6. T = {"SYMBOLS", "DYN_SYMBOLS"} /\ p = Starts(whole, b)[m] /\ m \in Nat /\ m # 0 /\ j = m - 1
      BY <3>1, <3>2, <3>3, <3>4, <3>5
    <3>7. ASSUME NEW s PROVE s \in Found(whole, b, m, T) <=> s \in Found(whole, b, j, T) \/ s \in Own(whole, b, p)
      BY <3>5, <3>6, OwnFound, Zenon
    <3>8. Found(whole, b, m, T) = Found(whole, b, j, T) \cup Own(whole, b, p)
      BY <3>7, Zenon
    <3> QED BY <3>4, <3>5, <3>8, Zenon
  <2>4. Briefs(object.sections) \cup Own(whole, b, pos) = Found(whole, b, k, Later)
    BY <2>2, <2>3, Zenon
  <2>5. Briefs(object.sections)' = Briefs(object'.sections)
    OBVIOUS
  <2>6. n - left' = k /\ b = archs[1]
    BY <1>1, <1>2
  <2> QED BY <1>4, <2>4, <2>5, <2>6
<1>6. TablesRead(b, k)'
  BY <1>1, <1>3, TablesStay
<1>7. Reading(b)'
  <2>1. object.base' = b /\ order' = "little" /\ object.bits' = IF IsWide(whole', b) THEN 64 ELSE 32
    BY <1>1, <1>3 DEF Reading
  <2>2. whole'[b + 5] - left' = k /\ left' \in 0..whole'[b + 5]
    BY <1>1, <1>2, <1>3
  <2>3. left' > 0 => phase' = "commands" /\ pos' = Least(Starts(whole', b)[whole'[b + 5] - left' + 1], Len(file'))
    BY <1>1, <1>2, <1>3
  <2>4. Briefs(object'.sections) = Found(whole', b, whole'[b + 5] - left', Later')
    BY <1>2, <1>3, <1>5, <2>2
  <2>5. TablesRead(b, whole[b + 5] - left)'
    BY <1>6, <2>2
  <2> QED BY <2>1, <2>2, <2>3, <2>4, <2>5 DEF Reading
<1>8. CutOff'
  BY <1>3 DEF Progress, CutOff
<1> QED BY <1>1, <1>3, <1>7, <1>8 DEF Progress, InObject

-----------------------------------------------------------------------------
\* What is told of a section.
LEMMA BriefOf ==
  ASSUME NEW t, NEW a, NEW s, NEW o
  PROVE  Brief(SectionOf(t, a, s, o)) = Listed(t, s, o)
BY DEF Brief, SectionOf, Listed

\* Commands without a section leave the reader at the next command.
LEMMA PassProgress ==
  ASSUME ParserInv, Progress, UnderstoodFile, PassCommand
  PROVE  Progress'
<1>1. /\ AtCommand /\ Has(2) /\ object' = object
      /\ Type \notin Obsolete \cup Segment \cup VersionMin \cup LinkEdit \cup {Symtab, Dysymtab}
      /\ TakeCommand(After(pos + 2 + Checked(Type), Unchecked(Type)))
  BY DEF PassCommand
<1>2. TakeCommand(Least(pos + whole[pos + 2], Len(file)))
  BY <1>1, PassEnds
<1>3. Own(whole, archs[1], pos) = {}
  <2>1. Type = whole[pos + 1]
    BY <1>1, AtCommandInStep
  <2>2. Type \notin Segment \cup VersionMin \cup {FunctionStarts, CodeSignature, Symtab}
    BY <1>1 DEF LinkEdit
  <2> QED BY <2>1, <2>2, OwnIs
<1>4. TablesKept
  BY <1>1 DEF TablesKept
<1>5. Briefs(object'.sections) = Briefs(object.sections) \cup Own(whole, archs[1], pos)
  BY <1>1, <1>3
<1> QED BY <1>1, <1>2, <1>4, <1>5, CommandProgress

\* The checked words of a command that is read in full.
LEMMA CheckedCommand ==
  ASSUME ParserInv, Progress, UnderstoodFile, AtCommand, Has(2), NEW c \in Nat, Has(2 + c), TakeCommand(pos + 2 + c),
         \/ Type = Symtab /\ c = 4
         \/ Type = Dysymtab /\ c = 18
         \/ Type \in VersionMin \cup LinkEdit /\ c = 2
  PROVE  /\ TakeCommand(Least(pos + whole[pos + 2], Len(file)))
         /\ Type = whole[pos + 1] /\ object.base = archs[1]
         /\ \A n \in 2..(c + 1) : Word(n) = whole[pos + n + 1]
<1>1. PICK b \in Nat : /\ b = archs[1] /\ pos \in Nat /\ ReadInFull(whole, b, pos) /\ Type = whole[pos + 1] /\ object.base = b
                       /\ \A m \in Nat : Has(m + 1) => Word(m) = whole[pos + m + 1]
  BY AtCommandInStep
<1>2. whole[pos + 2] = 2 + c
  <2>1. SizedAs(whole, b, pos)
    BY <1>1 DEF ReadInFull
  <2>2. LET t == whole[pos + 1] IN
        /\ t = Dysymtab => whole[pos + 2] = 20
        /\ t \in {Symtab, Main, Uuid} => whole[pos + 2] = 6
        /\ t \in LinkEdit \cup VersionMin \cup {SourceVersion, DataInCode} => whole[pos + 2] = 4
    BY <2>1, SizedAsIs, ZenonT(60)
  <2> QED BY <1>1, <2>2
<1>3. TakeCommand(Least(pos + whole[pos + 2], Len(file)))
  <2>1. pos + 2 + c = Least(pos + whole[pos + 2], Len(file))
    BY <1>2, CheckedEnds
  <2> QED BY <2>1
<1>4. ASSUME NEW n \in 2..(c + 1) PROVE Word(n) = whole[pos + n + 1]
  <2>1. Len(file) \in Nat
    BY AtCommandIs
  <2>2. n \in Nat /\ Has(n + 1)
    BY <1>1, <2>1 DEF Has
  <2> QED BY <1>1, <2>2
<1> QED BY <1>1, <1>3, <1>4

\* LC_SYMTAB leaves the reader at the next command and adds the string table.
LEMMA SymtabProgress ==
  ASSUME ParserInv, Progress, UnderstoodFile, LoadSymtab
  PROVE  Progress'
<1>1. PICK s \in SectionRecords :
        /\ s = SectionOf("STRING", Word(4), Word(5), object.base + Word(4))
        /\ AtCommand /\ Has(2) /\ Type = Symtab /\ Has(2 + 4) /\ TakeCommand(pos + 2 + 4)
        /\ object'.symoff = Word(2) /\ object'.symnum = Word(3)
        /\ object'.sections = Append(object.sections, s)
        /\ object'.base = object.base /\ object'.bits = object.bits
        /\ object'.indirsymoff = object.indirsymoff /\ object'.indirsymnum = object.indirsymnum
  BY LoadSymtabIs
<1>2. /\ TakeCommand(Least(pos + whole[pos + 2], Len(file)))
      /\ Type = whole[pos + 1] /\ object.base = archs[1]
      /\ \A n \in 2..(4 + 1) : Word(n) = whole[pos + n + 1]
  BY <1>1, CheckedCommand
<1>3. /\ Word(2) = whole[pos + 3] /\ Word(3) = whole[pos + 4]
      /\ Word(4) = whole[pos + 4 + 1] /\ Word(5) = whole[pos + 5 + 1]
  <2>1. pos \in Nat /\ pos + 2 + 1 = pos + 3 /\ pos + 3 + 1 = pos + 4
    BY <1>1, AtCommandIs
  <2>2. Word(2) = whole[pos + 2 + 1] /\ Word(3) = whole[pos + 3 + 1] /\ Word(4) = whole[pos + 4 + 1] /\ Word(5) = whole[pos + 5 + 1]
    BY <1>2
  <2> QED BY <2>1, <2>2
<1>4. TablesKept
  <2>1. Symtab # Dysymtab
    BY DEF Symtab, Dysymtab
  <2> QED BY <1>1, <1>3, <2>1 DEF TablesKept
<1>5. Briefs(object'.sections) = Briefs(object.sections) \cup Own(whole, archs[1], pos)
  <2>1. Own(whole, archs[1], pos) = {Listed("STRING", whole[pos + 5 + 1], archs[1] + whole[pos + 4 + 1])}
    BY <1>1, <1>2, OwnIs
  <2>2. Brief(s) = Listed("STRING", whole[pos + 5 + 1], archs[1] + whole[pos + 4 + 1])
    BY <1>1, <1>2, <1>3, BriefOf
  <2>3. object.sections \in Seq(SectionRecords)
    BY <1>1, AtCommandIs
  <2> QED BY <1>1, <2>1, <2>2, <2>3, BriefsAppend
<1> QED BY <1>1, <1>2, <1>4, <1>5, CommandProgress

\* LC_DYSYMTAB leaves the reader at the next command and adds no section.
LEMMA DysymtabProgress ==
  ASSUME ParserInv, Progress, UnderstoodFile, LoadDysymtab
  PROVE  Progress'
<1>1. /\ AtCommand /\ Has(2) /\ Type = Dysymtab /\ Has(2 + 18) /\ TakeCommand(pos + 2 + 18)
      /\ object'.indirsymoff = Word(14) /\ object'.indirsymnum = Word(15)
      /\ object'.sections = object.sections
      /\ object'.base = object.base /\ object'.bits = object.bits
      /\ object'.symoff = object.symoff /\ object'.symnum = object.symnum
  BY LoadDysymtabIs
<1>2. /\ TakeCommand(Least(pos + whole[pos + 2], Len(file)))
      /\ Type = whole[pos + 1]
      /\ \A n \in 2..(18 + 1) : Word(n) = whole[pos + n + 1]
  BY <1>1, CheckedCommand
<1>3. Word(14) = whole[pos + 15] /\ Word(15) = whole[pos + 16]
  <2>1. pos \in Nat /\ pos + 14 + 1 = pos + 15 /\ pos + 15 + 1 = pos + 16
    BY <1>1, AtCommandIs
  <2>2. Word(14) = whole[pos + 14 + 1] /\ Word(15) = whole[pos + 15 + 1]
    BY <1>2
  <2> QED BY <2>1, <2>2
<1>4. TablesKept
  <2>1. Symtab # Dysymtab
    BY DEF Symtab, Dysymtab
  <2> QED BY <1>1, <1>3, <2>1 DEF TablesKept
<1>5. Own(whole, archs[1], pos) = {}
  <2>1. Type \notin Segment \cup VersionMin \cup {FunctionStarts, CodeSignature, Symtab}
    BY <1>1 DEF Dysymtab, Segment, VersionMin, FunctionStarts, CodeSignature, Symtab
  <2> QED BY <1>2, <2>1, OwnIs
<1> QED BY <1>1, <1>2, <1>4, <1>5, CommandProgress

\* A command that is no table.
LEMMA NoTable ==
  ASSUME OnlySections(object, object'), Type \notin {Symtab, Dysymtab}
  PROVE  TablesKept /\ object'.base = object.base /\ object'.bits = object.bits
BY DEF OnlySections, TablesKept

\* LC_VERSION_MIN leaves the reader at the next command and adds the versions.
LEMMA VersionMinProgress ==
  ASSUME ParserInv, Progress, UnderstoodFile, LoadVersionMin
  PROVE  Progress'
<1>1. PICK s \in SectionRecords :
        /\ s = SectionOf(VersionSection[Type], pos + 2, 2, pos + 2)
        /\ AtCommand /\ Has(2) /\ Type \in VersionMin /\ Has(2 + 2) /\ TakeCommand(pos + 2 + 2)
        /\ OnlySections(object, object')
        /\ object'.sections = Append(object.sections, s)
  BY LoadVersionMinIs
<1>2. TakeCommand(Least(pos + whole[pos + 2], Len(file))) /\ Type = whole[pos + 1]
  BY <1>1, CheckedCommand
<1>3. TablesKept /\ object'.base = object.base /\ object'.bits = object.bits
  <2>1. Type \notin {Symtab, Dysymtab}
    BY <1>1 DEF VersionMin, Symtab, Dysymtab
  <2> QED BY <1>1, <2>1, NoTable
<1>4. Briefs(object'.sections) = Briefs(object.sections) \cup Own(whole, archs[1], pos)
  <2>1. Own(whole, archs[1], pos) = {Listed(VersionSection[Type], 2, pos + 2)}
    BY <1>1, <1>2, OwnIs
  <2>2. Brief(s) = Listed(VersionSection[Type], 2, pos + 2)
    BY <1>1, BriefOf
  <2>3. object.sections \in Seq(SectionRecords)
    BY <1>1, AtCommandIs
  <2> QED BY <1>1, <2>1, <2>2, <2>3, BriefsAppend
<1> QED BY <1>1, <1>2, <1>3, <1>4, CommandProgress

\* The commands about data in __LINKEDIT leave the reader at the next command, with the
\* section of the format or with none.
LEMMA LinkEditProgress ==
  ASSUME ParserInv, Progress, UnderstoodFile, LoadLinkEdit
  PROVE  Progress'
<1>1. /\ AtCommand /\ Has(2) /\ Type \in LinkEdit /\ Has(2 + 2) /\ TakeCommand(pos + 2 + 2)
      /\ OnlySections(object, object')
  BY LoadLinkEditIs
<1>2. /\ TakeCommand(Least(pos + whole[pos + 2], Len(file))) /\ Type = whole[pos + 1] /\ object.base = archs[1]
      /\ \A n \in 2..(2 + 1) : Word(n) = whole[pos + n + 1]
  BY <1>1, CheckedCommand
<1>3. TablesKept /\ object'.base = object.base /\ object'.bits = object.bits
  <2>1. Type \notin {Symtab, Dysymtab}
    BY <1>1 DEF LinkEdit, FunctionStarts, CodeSignature, High, Symtab, Dysymtab
  <2> QED BY <1>1, <2>1, NoTable
<1>4. Word(2) = whole[pos + 2 + 1] /\ Word(3) = whole[pos + 3 + 1]
  BY <1>2
<1>5. object.sections \in Seq(SectionRecords)
  BY <1>1, AtCommandIs
<1>6. ASSUME NEW t \in {"FUNC_STARTS", "CODE_SIG"}, NEW s \in SectionRecords,
             s = SectionOf(t, Word(2), Word(3), object.base + Word(2)),
             object'.sections = Append(object.sections, s),
             Own(whole, archs[1], pos) = {Listed(t, whole[pos + 3 + 1], archs[1] + whole[pos + 2 + 1])}
      PROVE  Briefs(object'.sections) = Briefs(object.sections) \cup Own(whole, archs[1], pos)
  <2>1. Brief(s) = Listed(t, whole[pos + 3 + 1], archs[1] + whole[pos + 2 + 1])
    BY <1>2, <1>4, <1>6, BriefOf
  <2> QED BY <1>5, <1>6, <2>1, BriefsAppend
<1>7. Briefs(object'.sections) = Briefs(object.sections) \cup Own(whole, archs[1], pos)
  <2>1. CASE Type = FunctionStarts
    <3>1. PICK s \in SectionRecords : s = SectionOf("FUNC_STARTS", Word(2), Word(3), object.base + Word(2)) /\ object'.sections = Append(object.sections, s)
      BY <2>1, LoadLinkEditIs DEF FunctionStarts, CodeSignature
    <3>2. Own(whole, archs[1], pos) = {Listed("FUNC_STARTS", whole[pos + 3 + 1], archs[1] + whole[pos + 2 + 1])}
      <4>1. whole[pos + 1] = FunctionStarts
        BY <1>2, <2>1
      <4> QED BY <4>1, OwnIs, ZenonT(60)
    <3> QED BY <1>6, <3>1, <3>2
  <2>2. CASE Type = CodeSignature
    <3>1. PICK s \in SectionRecords : s = SectionOf("CODE_SIG", Word(2), Word(3), object.base + Word(2)) /\ object'.sections = Append(object.sections, s)
      BY <2>2, LoadLinkEditIs DEF FunctionStarts, CodeSignature
    <3>2. Own(whole, archs[1], pos) = {Listed("CODE_SIG", whole[pos + 3 + 1], archs[1] + whole[pos + 2 + 1])}
      <4>1. whole[pos + 1] = CodeSignature
        BY <1>2, <2>2
      <4> QED BY <4>1, OwnIs, ZenonT(60)
    <3> QED BY <1>6, <3>1, <3>2
  <2>3. CASE Type \notin {FunctionStarts, CodeSignature}
    <3>1. object'.sections = object.sections
      BY <2>3, LoadLinkEditIs
    <3>2. Type \notin Segment \cup VersionMin \cup {FunctionStarts, CodeSignature, Symtab}
      BY <1>1, <2>3 DEF LinkEdit, FunctionStarts, CodeSignature, High, Segment, VersionMin, Symtab
    <3>3. Own(whole, archs[1], pos) = {}
      BY <1>2, <3>2, OwnIs
    <3> QED BY <3>1, <3>3
  <2> QED BY <2>1, <2>2, <2>3
<1> QED BY <1>1, <1>2, <1>3, <1>7, CommandProgress

-----------------------------------------------------------------------------
\* Four words of the file that are there.
LEMMA FourWords ==
  ASSUME ParserTypeOK, CutOff, NEW p \in Nat, p + 4 =< Len(file)
  PROVE  Words(p, 4) = SubSeq(whole, p + 1, p + 4)
<1>1. /\ Len(file) \in Nat /\ Len(whole) \in Nat /\ Len(file) =< Len(whole)
      /\ \A k \in 1..Len(file) : file[k] = whole[k] /\ whole[k] \in Int
  BY CutOffWords
<1>2. After(p, 4) = p + 4
  BY <1>1 DEF After, Least
<1>3. Words(p, 4) = SubSeq(file, p + 1, p + 4)
  BY <1>2 DEF Words
<1>4. PICK d, e : d = SubSeq(file, p + 1, p + 4) /\ e = SubSeq(whole, p + 1, p + 4)
  OBVIOUS
<1>5. p + 1 \in Int /\ p + 4 \in Int /\ p + 1 =< p + 4 /\ (p + 4) - (p + 1) + 1 = 4
  OBVIOUS
<1>6. \A i \in (p + 1)..(p + 4) : file[i] \in Int /\ whole[i] \in Int /\ file[i] = whole[i]
  BY <1>1
<1>7. d \in Seq(Int) /\ Len(d) = 4 /\ \A i \in 1..4 : d[i] = file[(p + 1) + i - 1]
  BY <1>4, <1>5, <1>6, SubSeqProperties, SMTT(60)
<1>8. e \in Seq(Int) /\ Len(e) = 4 /\ \A i \in 1..4 : e[i] = whole[(p + 1) + i - 1]
  BY <1>4, <1>5, <1>6, SubSeqProperties, SMTT(60)
<1>9. \A i \in 1..4 : d[i] = e[i]
  BY <1>6, <1>7, <1>8, SMTT(60)
<1>10. d = e
  <2>1. DOMAIN d = 1..4 /\ DOMAIN e = 1..4
    BY <1>7, <1>8
  <2>2. d = [i \in 1..4 |-> d[i]] /\ e = [i \in 1..4 |-> e[i]]
    BY <1>7, <1>8, <2>1
  <2> QED BY <1>9, <2>2
<1> QED BY <1>3, <1>4, <1>10

\* The kind of a section is that of its name.
LEMMA KindIs ==
  ASSUME NEW j
  PROVE  /\ \A name \in DOMAIN Kinds : IsNamed(At(j), name) => KindOf(j) = Kinds[name] /\ KindOf(j) # "none"
         /\ KindOf(j) # "none" => \E name \in DOMAIN Kinds : IsNamed(At(j), name)
<1>1. DOMAIN Kinds = {111, 112, 113, 114, 115}
  BY DEF Kinds, Names
<1>2. /\ Kinds[111] = "TEXT" /\ Kinds[112] = "SYMBOL_STUBS" /\ Kinds[113] = "SYMBOL_STUBS"
      /\ Kinds[114] = "CSTRING" /\ Kinds[115] = "CSTRING"
  BY DEF Kinds, Names
<1>3. \A n, m : IsNamed(At(j), n) /\ IsNamed(At(j), m) => n = m
  <2>1. \A n, m : <<n, 0, 0, 0>> = <<m, 0, 0, 0>> => n = m
    OBVIOUS
  <2> QED BY <2>1 DEF IsNamed
<1>4. /\ Names.text = 111 /\ Names.stubs = 112 /\ Names.symbol_stub = 113 /\ Names.cstring = 114 /\ Names.methname = 115
  BY DEF Names
<1> DEFINE is(n) == IsNamed(At(j), n)
<1>5. KindOf(j) = CASE is(111) -> "TEXT"
                    [] is(112) \/ is(113) -> "SYMBOL_STUBS"
                    [] is(114) \/ is(115) -> "CSTRING"
                    [] OTHER -> "none"
  BY <1>4 DEF KindOf
<1>6. \A n, m : is(n) /\ is(m) => n = m
  BY <1>3
<1> HIDE DEF is
<1>7. /\ is(111) => KindOf(j) = "TEXT"
      /\ is(112) \/ is(113) => KindOf(j) = "SYMBOL_STUBS"
      /\ is(114) \/ is(115) => KindOf(j) = "CSTRING"
      /\ ~(is(111) \/ is(112) \/ is(113) \/ is(114) \/ is(115)) => KindOf(j) = "none"
  BY <1>5, <1>6
<1>8. \A name \in DOMAIN Kinds : is(name) => KindOf(j) = Kinds[name] /\ KindOf(j) # "none"
  BY <1>1, <1>2, <1>7
<1>9. KindOf(j) # "none" => \E name \in DOMAIN Kinds : is(name)
  BY <1>1, <1>7
<1> QED BY <1>8, <1>9 DEF is

\* Where parseHeader looks for a section of a segment, and what it finds there.
LEMMA SectionPlaces ==
  ASSUME ParserInv, Progress, UnderstoodFile, AtCommand, Has(2), Type \in Segment, SegmentIsWhole
  PROVE  LET b == archs[1] IN
         /\ SegmentWords = SegmentHead(whole, b) /\ SectionWords = SectionWidth(whole, b)
         /\ SectionCount = whole[pos + SegmentHead(whole, b) - 1] /\ SectionCount \in Nat
         /\ whole[pos + 2] = At(SectionCount)
         /\ \A j \in 0..SectionCount - 1 :
              LET at == pos + SegmentHead(whole, b) + j * SectionWidth(whole, b) IN
              /\ \A name : IsNamed(At(j), name) <=> NameAt(whole, at, name)
              /\ \A name : IsNamed(At(j) + 4, name) <=> NameAt(whole, at + 4, name)
              /\ FieldsOf(j).size = whole[at + (IF IsWide(whole, b) THEN 11 ELSE 10)]
              /\ FieldsOf(j).offset = whole[at + (IF IsWide(whole, b) THEN 13 ELSE 11)]
<1>1. PICK b \in Nat, L \in Nat, q \in Nat :
        /\ b = archs[1] /\ L = Len(file) /\ q = pos /\ ReadInFull(whole, b, q)
        /\ object.bits = IF IsWide(whole, b) THEN 64 ELSE 32
        /\ \A m \in Nat : Has(m + 1) => Word(m) = whole[q + m + 1]
        /\ Type = whole[q + 1]
  BY AtCommandInStep, AtCommandIs
<1>2. PICK S \in {14, 18}, W \in {17, 20}, C \in {15, 17} :
        /\ SegmentWords = S /\ SectionWords = W /\ SectionChecked = C
        /\ SegmentHead(whole, b) = S /\ SectionWidth(whole, b) = W
        /\ IsWide(whole, b) <=> S = 18
        /\ S = 18 <=> W = 20 /\ C = 17
        /\ object.bits = 64 <=> S = 18
  BY <1>1 DEF SegmentWords, SectionWords, SectionChecked, SegmentHead, SectionWidth
<1>3. PICK c \in Nat : /\ c = SectionCount
                       /\ \A j \in 0..c - 1 : At(j) \in Nat /\ Has(At(j) + C)
  BY <1>2, SegmentWordsThere DEF ParserInv
<1>4. c = whole[q + S - 1]
  <2>1. S - 2 \in Nat /\ Has((S - 2) + 1) /\ q + (S - 2) + 1 = q + S - 1
    BY <1>1, <1>2 DEF SegmentIsWhole, Has
  <2>2. Word(S - 2) = whole[q + (S - 2) + 1]
    BY <1>1, <2>1
  <2> QED BY <1>2, <1>3, <2>1, <2>2 DEF SectionCount
<1>5. \A x : At(x) = S + x * W
  BY <1>2 DEF At
<1>6. whole[q + 2] = At(c)
  <2>1. SizedAs(whole, b, q)
    BY <1>1 DEF ReadInFull
  <2>2. whole[q + 1] \in Segment
    BY <1>1
  <2>3. whole[q + 2] = SegmentHead(whole, b) + whole[q + SegmentHead(whole, b) - 2 + 1] * SectionWidth(whole, b)
    BY <2>1, <2>2, SegmentSize
  <2>4. q + S - 2 + 1 = q + S - 1
    BY <1>2
  <2>5. whole[q + 2] = S + c * W
    BY <1>2, <1>4, <2>3, <2>4
  <2> QED BY <1>5, <2>5
<1>7. ASSUME NEW j \in 0..c - 1
      PROVE  LET at == q + S + j * W IN
             /\ \A name : IsNamed(At(j), name) <=> NameAt(whole, at, name)
             /\ \A name : IsNamed(At(j) + 4, name) <=> NameAt(whole, at + 4, name)
             /\ FieldsOf(j).size = whole[at + (IF IsWide(whole, b) THEN 11 ELSE 10)]
             /\ FieldsOf(j).offset = whole[at + (IF IsWide(whole, b) THEN 13 ELSE 11)]
  <2>1. PICK a \in Nat : a = At(j) /\ Has(a + C) /\ q + S + j * W = q + a
    <3>1. At(j) \in Nat /\ Has(At(j) + C) /\ At(j) = S + j * W
      BY <1>3, <1>5
    <3>2. j * W \in Int
      BY <1>2
    <3> QED BY <1>2, <3>1, <3>2
  <2>2. q + a + 15 =< L
    BY <1>1, <1>2, <2>1, SMTT(60) DEF Has
  <2>3. Words(q + a, 4) = SubSeq(whole, q + a + 1, q + a + 4) /\ Words(q + a + 4, 4) = SubSeq(whole, q + a + 4 + 1, q + a + 4 + 4)
    BY <1>1, <2>2, FourWords DEF ParserInv, Progress
  <2>4. \A name : IsNamed(a, name) <=> NameAt(whole, q + a, name)
    BY <1>1, <2>3 DEF IsNamed, NameAt
  <2>5. \A name : IsNamed(a + 4, name) <=> NameAt(whole, q + a + 4, name)
    <3>1. q + (a + 4) = q + a + 4
      OBVIOUS
    <3> QED BY <1>1, <2>3, <3>1 DEF IsNamed, NameAt
  <2>6. ASSUME NEW n \in 8..12 PROVE Word(a + n) = whole[q + a + (n + 1)]
    <3>1. a + n \in Nat /\ Has((a + n) + 1) /\ q + (a + n) + 1 = q + a + (n + 1)
      BY <1>1, <2>2 DEF Has
    <3> QED BY <1>1, <3>1
  <2>7. FieldsOf(j).size = Word(a + IF S = 18 THEN 10 ELSE 9) /\ FieldsOf(j).offset = Word(a + IF S = 18 THEN 12 ELSE 10)
    BY <1>2, <2>1 DEF FieldsOf
  <2>8. /\ Word(a + 10) = whole[q + a + 11] /\ Word(a + 9) = whole[q + a + 10] /\ Word(a + 12) = whole[q + a + 13]
    <3>1. 10 + 1 = 11 /\ 9 + 1 = 10 /\ 12 + 1 = 13
      OBVIOUS
    <3> QED BY <2>6, <3>1
  <2> QED BY <1>2, <2>1, <2>4, <2>5, <2>7, <2>8
<1> QED BY <1>1, <1>2, <1>3, <1>4, <1>6, <1>7

-----------------------------------------------------------------------------
\* A segment brings the sections of the text segment that the program knows.
LEMMA SegmentBrings ==
  ASSUME ParserInv, Progress, UnderstoodFile, AtCommand, Has(2), Type \in Segment, SegmentIsWhole
  PROVE  Briefs(NeededSections) = Own(whole, archs[1], pos)
<1>1. PICK b \in Nat, q \in Nat : b = archs[1] /\ q = pos /\ object.base = b /\ Type = whole[q + 1]
  BY AtCommandInStep
<1>11. PICK c \in Nat, S \in Int, W \in Int : c = SectionCount /\ S = SegmentHead(whole, b) /\ W = SectionWidth(whole, b)
  <2>1. SegmentHead(whole, b) \in Int /\ SectionWidth(whole, b) \in Int
    BY DEF SegmentHead, SectionWidth
  <2>2. SectionCount \in Nat
    BY SectionPlaces
  <2> QED BY <2>1, <2>2
<1>12. c = whole[q + S - 1]
  <2>1. SectionCount = whole[pos + SegmentHead(whole, archs[1]) - 1]
    BY SectionPlaces
  <2> QED BY <1>1, <1>11, <2>1
<1>2. ASSUME NEW j \in 0..c - 1
      PROVE  LET at == q + S + j * W IN
             /\ \A name : IsNamed(At(j), name) <=> NameAt(whole, at, name)
             /\ \A name : IsNamed(At(j) + 4, name) <=> NameAt(whole, at + 4, name)
             /\ FieldsOf(j).size = whole[at + (IF IsWide(whole, b) THEN 11 ELSE 10)]
             /\ FieldsOf(j).offset = whole[at + (IF IsWide(whole, b) THEN 13 ELSE 11)]
  <2>1. j \in 0..SectionCount - 1
    BY <1>11
  <2>2. LET at == pos + SegmentHead(whole, archs[1]) + j * SectionWidth(whole, archs[1]) IN
          /\ \A name : IsNamed(At(j), name) <=> NameAt(whole, at, name)
          /\ \A name : IsNamed(At(j) + 4, name) <=> NameAt(whole, at + 4, name)
          /\ FieldsOf(j).size = whole[at + (IF IsWide(whole, archs[1]) THEN 11 ELSE 10)]
          /\ FieldsOf(j).offset = whole[at + (IF IsWide(whole, archs[1]) THEN 13 ELSE 11)]
    BY <2>1, SectionPlaces
  <2> QED BY <1>1, <1>11, <2>2
<1> DEFINE at(i) == q + S + (i - 1) * W
           extent(i) == whole[at(i) + (IF IsWide(whole, b) THEN 11 ELSE 10)]
           offset(i) == b + whole[at(i) + (IF IsWide(whole, b) THEN 13 ELSE 11)]
           Wanted(i, n) == NameAt(whole, at(i), n) /\ NameAt(whole, at(i) + 4, TEXT_SEGMENT)
<1>3. \A x : x \in SectionsInSegment(whole, b, q)
             <=> \E i \in 1..c, n \in DOMAIN Kinds : Wanted(i, n) /\ x = Listed(Kinds[n], extent(i), offset(i))
  <2> DEFINE K == {y \in (1..c) \X DOMAIN Kinds : Wanted(y[1], y[2])}
  <2>1. SectionsInSegment(whole, b, q) = {Listed(Kinds[y[2]], extent(y[1]), offset(y[1])) : y \in K}
    BY <1>11, <1>12 DEF SectionsInSegment
  <2>2. \A i \in 1..c, n \in DOMAIN Kinds : Wanted(i, n) <=> <<i, n>> \in K
    OBVIOUS
  <2>3. \A y \in K : y[1] \in 1..c /\ y[2] \in DOMAIN Kinds /\ Wanted(y[1], y[2])
    OBVIOUS
  <2> HIDE DEF K, Wanted, extent, offset
  <2>4. ASSUME NEW x, x \in SectionsInSegment(whole, b, q)
        PROVE  \E i \in 1..c, n \in DOMAIN Kinds : Wanted(i, n) /\ x = Listed(Kinds[n], extent(i), offset(i))
    <3>1. PICK y \in K : x = Listed(Kinds[y[2]], extent(y[1]), offset(y[1]))
      BY <2>1, <2>4
    <3> QED BY <2>3, <3>1
  <2>5. ASSUME NEW x, NEW i \in 1..c, NEW n \in DOMAIN Kinds, Wanted(i, n), x = Listed(Kinds[n], extent(i), offset(i))
        PROVE  x \in SectionsInSegment(whole, b, q)
    <3>1. PICK y \in K : y = <<i, n>>
      BY <2>2, <2>5
    <3>2. y[1] = i /\ y[2] = n
      BY <3>1
    <3> QED BY <2>1, <2>5, <3>2
  <2> QED BY <2>4, <2>5
<1>4. \A i \in 1..c : i - 1 \in 0..c - 1
  OBVIOUS
<1>5. ASSUME NEW i \in 1..c
      PROVE  /\ \A n : IsNamed(At(i - 1), n) /\ IsNamed(At(i - 1) + 4, TEXT_SEGMENT) <=> Wanted(i, n)
             /\ FieldsOf(i - 1).size = extent(i) /\ object.base + FieldsOf(i - 1).offset = offset(i)
  BY <1>1, <1>2, <1>4
<1> HIDE DEF Wanted, extent, offset
<1>6. ASSUME NEW i \in 1..c, IsNeeded(i - 1)
      PROVE  \E n \in DOMAIN Kinds : Wanted(i, n) /\ Brief(SectionFrom(i - 1)) = Listed(Kinds[n], extent(i), offset(i))
  <2>1. IsNamed(At(i - 1) + 4, TEXT_SEGMENT) /\ KindOf(i - 1) # "none"
    BY <1>6 DEF IsNeeded
  <2>2. PICK n \in DOMAIN Kinds : IsNamed(At(i - 1), n)
    BY <2>1, KindIs
  <2>3. KindOf(i - 1) = Kinds[n]
    BY <2>2, KindIs
  <2>4. Brief(SectionFrom(i - 1)) = Listed(Kinds[n], extent(i), offset(i))
    BY <1>5, <2>3, BriefOf DEF SectionFrom
  <2> QED BY <1>5, <2>1, <2>2, <2>4
<1>7. ASSUME NEW i \in 1..c, NEW n \in DOMAIN Kinds, Wanted(i, n)
      PROVE  IsNeeded(i - 1) /\ Brief(SectionFrom(i - 1)) = Listed(Kinds[n], extent(i), offset(i))
  <2>1. IsNamed(At(i - 1), n) /\ IsNamed(At(i - 1) + 4, TEXT_SEGMENT)
    BY <1>5, <1>7
  <2>2. KindOf(i - 1) = Kinds[n] /\ KindOf(i - 1) # "none"
    BY <2>1, KindIs
  <2>3. Brief(SectionFrom(i - 1)) = Listed(Kinds[n], extent(i), offset(i))
    BY <1>5, <2>2, BriefOf DEF SectionFrom
  <2> QED BY <2>1, <2>2, <2>3 DEF IsNeeded
<1>8. /\ \A k \in DOMAIN NeededSections : \E j \in 0..c - 1 : IsNeeded(j) /\ NeededSections[k] = SectionFrom(j)
      /\ \A j \in 0..c - 1 : IsNeeded(j) => \E k \in DOMAIN NeededSections : NeededSections[k] = SectionFrom(j)
  BY <1>11, NeededSectionsAre DEF ParserInv
<1>9. Briefs(NeededSections) = SectionsInSegment(whole, b, q)
  <2>1. ASSUME NEW x \in Briefs(NeededSections) PROVE x \in SectionsInSegment(whole, b, q)
    <3>1. PICK k \in DOMAIN NeededSections : x = Brief(NeededSections[k])
      BY <2>1 DEF Briefs
    <3>2. PICK j \in 0..c - 1 : IsNeeded(j) /\ x = Brief(SectionFrom(j))
      BY <1>8, <3>1
    <3>3. PICK i \in 1..c : i - 1 = j
      <4>1. j + 1 \in 1..c /\ (j + 1) - 1 = j
        OBVIOUS
      <4> QED BY <4>1
    <3> QED BY <1>3, <1>6, <3>2, <3>3
  <2>2. ASSUME NEW x \in SectionsInSegment(whole, b, q) PROVE x \in Briefs(NeededSections)
    <3>1. PICK i \in 1..c, n \in DOMAIN Kinds : Wanted(i, n) /\ x = Listed(Kinds[n], extent(i), offset(i))
      BY <1>3
    <3>2. IsNeeded(i - 1) /\ x = Brief(SectionFrom(i - 1)) /\ i - 1 \in 0..c - 1
      BY <1>4, <1>7, <3>1
    <3>3. PICK k \in DOMAIN NeededSections : NeededSections[k] = SectionFrom(i - 1)
      BY <1>8, <3>2
    <3> QED BY <3>2, <3>3 DEF Briefs
  <2> QED BY <2>1, <2>2
<1>10. Own(whole, b, q) = SectionsInSegment(whole, b, q)
  <2>1. SectionsOf(whole, b, q) = SectionsInSegment(whole, b, q)
    <3>1. whole[q + 1] \in Segment
      BY <1>1
    <3> QED BY <3>1, SegmentSections
  <2>2. ASSUME NEW x \in SectionsInSegment(whole, b, q) PROVE x.type \notin {"SYMBOLS", "DYN_SYMBOLS"}
    <3>1. PICK n, s, o : n \in DOMAIN Kinds /\ x = Listed(Kinds[n], s, o)
      BY <1>3
    <3>2. Kinds[n] \in {"TEXT", "SYMBOL_STUBS", "CSTRING"}
      BY <3>1 DEF Kinds, Names
    <3>3. x.type = Kinds[n]
      BY <3>1 DEF Listed
    <3> QED BY <3>2, <3>3
  <2> QED BY <2>1, <2>2 DEF Own
<1> QED BY <1>1, <1>9, <1>10

\* LC_SEGMENT leaves the reader at the next command and adds the sections that the
\* format says are needed.
LEMMA SegmentProgress ==
  ASSUME ParserInv, Progress, UnderstoodFile, LoadSegment
  PROVE  Progress'
<1>1. /\ AtCommand /\ Has(2) /\ Type \in Segment /\ SegmentIsWhole
      /\ TakeCommand(After(pos, At(SectionCount)))
  BY LoadSegmentIs
<1>2. /\ OnlySections(object, object') /\ object'.sections = object.sections \o NeededSections
  BY LoadSegmentKeeps
<1>3. TakeCommand(Least(pos + whole[pos + 2], Len(file)))
  <2>1. whole[pos + 2] = At(SectionCount)
    BY <1>1, SectionPlaces
  <2>2. whole[pos + 2] \in Nat
    <3>1. PICK b \in Nat : ReadInFull(whole, b, pos) /\ pos \in Nat
      BY <1>1, AtCommandInStep
    <3> QED BY <3>1, ReadInFullIs DEF ParserInv, ParserTypeOK
  <2>3. After(pos, At(SectionCount)) = Least(pos + whole[pos + 2], Len(file))
    BY <2>1, <2>2 DEF After
  <2> QED BY <1>1, <2>3
<1>4. TablesKept /\ object'.base = object.base /\ object'.bits = object.bits
  <2>1. Type \notin {Symtab, Dysymtab}
    BY <1>1 DEF Segment, Symtab, Dysymtab
  <2> QED BY <1>2, <2>1, NoTable
<1>5. Briefs(object'.sections) = Briefs(object.sections) \cup Own(whole, archs[1], pos)
  <2>1. object.sections \in Seq(SectionRecords) /\ NeededSections \in Seq(SectionRecords)
    BY <1>1, AtCommandIs, NeededSectionsAre DEF ParserInv
  <2> QED BY <1>1, <1>2, <2>1, BriefsJoin, SegmentBrings
<1> QED BY <1>1, <1>3, <1>4, <1>5, CommandProgress

-----------------------------------------------------------------------------
\* The sections of the symbol tables come from the commands that name them.
LEMMA TableSections ==
  ASSUME NEW f, NEW b, NEW p, NEW x
  PROVE  /\ x \in SectionsOf(f, b, p) /\ x.type = "SYMBOLS"
            <=> /\ f[p + 1] = Symtab /\ f[p + 3 + 1] # 0
                /\ x = Listed("SYMBOLS", f[p + 3 + 1] * (IF IsWide(f, b) THEN 4 ELSE 3), b + f[p + 2 + 1])
         /\ x \in SectionsOf(f, b, p) /\ x.type = "DYN_SYMBOLS"
            <=> /\ f[p + 1] = Dysymtab /\ f[p + 15 + 1] # 0
                /\ x = Listed("DYN_SYMBOLS", f[p + 15 + 1], b + f[p + 14 + 1])
<1> DEFINE own == Own(f, b, p)
           y == Listed("SYMBOLS", f[p + 3 + 1] * (IF IsWide(f, b) THEN 4 ELSE 3), b + f[p + 2 + 1])
           z == Listed("DYN_SYMBOLS", f[p + 15 + 1], b + f[p + 14 + 1])
           str == Listed("STRING", f[p + 5 + 1], b + f[p + 4 + 1])
<1>1. y.type = "SYMBOLS" /\ z.type = "DYN_SYMBOLS" /\ str.type = "STRING"
  BY DEF Listed
<1>2. f[p + 1] = Symtab => SectionsOf(f, b, p) = {str} \cup IF f[p + 3 + 1] = 0 THEN {} ELSE {y}
  BY SectionsOfIs, ZenonT(60)
<1>3. f[p + 1] = Dysymtab => SectionsOf(f, b, p) = IF f[p + 15 + 1] = 0 THEN {} ELSE {z}
  BY SectionsOfIs, ZenonT(60)
<1>4. Symtab # Dysymtab
  BY DEF Symtab, Dysymtab
<1>5. f[p + 1] \notin {Symtab, Dysymtab} => (x \in SectionsOf(f, b, p) => x.type \notin {"SYMBOLS", "DYN_SYMBOLS"})
  <2> SUFFICES ASSUME f[p + 1] \notin {Symtab, Dysymtab}, x \in SectionsOf(f, b, p)
               PROVE  x.type \notin {"SYMBOLS", "DYN_SYMBOLS"}
    OBVIOUS
  <2>1. CASE f[p + 1] \in Segment
    <3>1. x \in SectionsInSegment(f, b, p)
      <4>1. SectionsOf(f, b, p) = SectionsInSegment(f, b, p)
        BY <2>1, SegmentSections
      <4> QED BY <4>1
    <3>2. PICK n, s, o : n \in DOMAIN Kinds /\ x = Listed(Kinds[n], s, o)
      BY <3>1 DEF SectionsInSegment
    <3>3. Kinds[n] \in {"TEXT", "SYMBOL_STUBS", "CSTRING"}
      BY <3>2 DEF Kinds, Names
    <3> QED BY <3>2, <3>3 DEF Listed
  <2>2. CASE f[p + 1] \in VersionMin
    <3>1. SectionsOf(f, b, p) = {Listed(VersionSection[f[p + 1]], 2, p + 2)}
      BY <2>2, SectionsOfIs, ZenonT(60)
    <3>2. VersionSection[f[p + 1]] \notin {"SYMBOLS", "DYN_SYMBOLS"}
      BY <2>2, PlatformsAre
    <3> QED BY <3>1, <3>2 DEF Listed
  <2>3. CASE f[p + 1] = FunctionStarts
    <3>1. SectionsOf(f, b, p) = {Listed("FUNC_STARTS", f[p + 3 + 1], b + f[p + 2 + 1])}
      BY <2>3, SectionsOfIs, ZenonT(60)
    <3> QED BY <3>1 DEF Listed
  <2>4. CASE f[p + 1] = CodeSignature
    <3>1. SectionsOf(f, b, p) = {Listed("CODE_SIG", f[p + 3 + 1], b + f[p + 2 + 1])}
      BY <2>4, SectionsOfIs, ZenonT(60)
    <3> QED BY <3>1 DEF Listed
  <2>5. CASE f[p + 1] \notin Segment \cup VersionMin \cup {FunctionStarts, CodeSignature, Symtab, Dysymtab}
    <3>1. SectionsOf(f, b, p) = {}
      BY <2>5, SectionsOfIs, ZenonT(60)
    <3> QED BY <3>1
  <2> QED BY <2>1, <2>2, <2>3, <2>4, <2>5
<1>6. CASE f[p + 1] = Symtab
  BY <1>1, <1>2, <1>4, <1>6
<1>7. CASE f[p + 1] = Dysymtab
  BY <1>1, <1>3, <1>4, <1>7
<1>8. CASE f[p + 1] \notin {Symtab, Dysymtab}
  BY <1>5, <1>8
<1> QED BY <1>6, <1>7, <1>8

\* With all commands read, the tables are those of the object.
LEMMA TablesFound ==
  ASSUME whole \in Seq(Int), NEW b \in Int, Understood(whole, b), TablesRead(b, whole[b + 5])
  PROVE  LET n == whole[b + 5]
             width == IF IsWide(whole, b) THEN 4 ELSE 3
         IN
         /\ Found(whole, b, n, {"DYN_SYMBOLS"})
            = Found(whole, b, n, {"SYMBOLS", "DYN_SYMBOLS"}) \cup
              IF object.symnum = 0 THEN {} ELSE {Listed("SYMBOLS", object.symnum * width, b + object.symoff)}
         /\ Found(whole, b, n, {})
            = Found(whole, b, n, {"DYN_SYMBOLS"}) \cup
              IF object.indirsymnum = 0 THEN {} ELSE {Listed("DYN_SYMBOLS", object.indirsymnum, b + object.indirsymoff)}
<1>1. PICK n, s : n \in Nat /\ n = whole[b + 5] /\ s = Starts(whole, b) /\ \A i \in 1..n : s[i] \in Nat
  BY CommandsFollow
<1> DEFINE y == Listed("SYMBOLS", object.symnum * (IF IsWide(whole, b) THEN 4 ELSE 3), b + object.symoff)
           z == Listed("DYN_SYMBOLS", object.indirsymnum, b + object.indirsymoff)
           All == UNION {SectionsOf(whole, b, s[i]) : i \in 1..n}
<1>2. \A i \in 1..n :
        /\ whole[s[i] + 1] = Symtab => object.symoff = whole[s[i] + 2 + 1] /\ object.symnum = whole[s[i] + 3 + 1]
        /\ whole[s[i] + 1] = Dysymtab => object.indirsymoff = whole[s[i] + 14 + 1] /\ object.indirsymnum = whole[s[i] + 15 + 1]
  <2> SUFFICES ASSUME NEW i \in 1..n
               PROVE  /\ whole[s[i] + 1] = Symtab => object.symoff = whole[s[i] + 2 + 1] /\ object.symnum = whole[s[i] + 3 + 1]
                      /\ whole[s[i] + 1] = Dysymtab => object.indirsymoff = whole[s[i] + 14 + 1] /\ object.indirsymnum = whole[s[i] + 15 + 1]
    OBVIOUS
  <2>1. /\ whole[s[i] + 1] = Symtab => object.symoff = whole[s[i] + 3] /\ object.symnum = whole[s[i] + 4]
        /\ whole[s[i] + 1] = Dysymtab => object.indirsymoff = whole[s[i] + 15] /\ object.indirsymnum = whole[s[i] + 16]
    BY <1>1 DEF TablesRead
  <2>2. s[i] + 2 + 1 = s[i] + 3 /\ s[i] + 3 + 1 = s[i] + 4 /\ s[i] + 14 + 1 = s[i] + 15 /\ s[i] + 15 + 1 = s[i] + 16
    BY <1>1, SMTT(60)
  <2> QED BY <2>1, <2>2
<1>3. /\ object.symnum # 0 => \E i \in 1..n : whole[s[i] + 1] = Symtab
      /\ object.indirsymnum # 0 => \E i \in 1..n : whole[s[i] + 1] = Dysymtab
  BY <1>1 DEF TablesRead
<1>4. \A x : x \in All /\ x.type = "SYMBOLS" <=> object.symnum # 0 /\ x = y
  <2>1. ASSUME NEW x, x \in All, x.type = "SYMBOLS" PROVE object.symnum # 0 /\ x = y
    <3>1. PICK i \in 1..n : x \in SectionsOf(whole, b, s[i])
      BY <2>1
    <3>2. PICK p : p = s[i]
      OBVIOUS
    <3>3. x \in SectionsOf(whole, b, p) /\ x.type = "SYMBOLS"
      BY <2>1, <3>1, <3>2
    <3>4. /\ whole[p + 1] = Symtab /\ whole[p + 3 + 1] # 0
          /\ x = Listed("SYMBOLS", whole[p + 3 + 1] * (IF IsWide(whole, b) THEN 4 ELSE 3), b + whole[p + 2 + 1])
      BY <3>3, TableSections, Zenon
    <3>5. object.symoff = whole[p + 2 + 1] /\ object.symnum = whole[p + 3 + 1]
      BY <1>2, <3>1, <3>2, <3>4
    <3> QED BY <3>4, <3>5, Zenon
  <2>2. ASSUME NEW x, object.symnum # 0, x = y PROVE x \in All /\ x.type = "SYMBOLS"
    <3>1. PICK i \in 1..n : whole[s[i] + 1] = Symtab
      BY <1>3, <2>2
    <3>3. /\ whole[s[i] + 3 + 1] # 0
          /\ x = Listed("SYMBOLS", whole[s[i] + 3 + 1] * (IF IsWide(whole, b) THEN 4 ELSE 3), b + whole[s[i] + 2 + 1])
      BY <1>2, <2>2, <3>1, SMTT(60)
    <3>4. PICK p : p = s[i]
      OBVIOUS
    <3>5. whole[p + 1] = Symtab /\ whole[p + 3 + 1] # 0
      BY <3>1, <3>3, <3>4
    <3>6. x = Listed("SYMBOLS", whole[p + 3 + 1] * (IF IsWide(whole, b) THEN 4 ELSE 3), b + whole[p + 2 + 1])
      BY <3>3, <3>4, Zenon
    <3>2. x \in SectionsOf(whole, b, p) /\ x.type = "SYMBOLS"
      BY <3>5, <3>6, TableSections, Zenon
    <3> QED BY <3>2, <3>4
  <2> QED BY <2>1, <2>2
<1>5. \A x : x \in All /\ x.type = "DYN_SYMBOLS" <=> object.indirsymnum # 0 /\ x = z
  <2>1. ASSUME NEW x, x \in All, x.type = "DYN_SYMBOLS" PROVE object.indirsymnum # 0 /\ x = z
    <3>1. PICK i \in 1..n : x \in SectionsOf(whole, b, s[i])
      BY <2>1
    <3>2. PICK p : p = s[i]
      OBVIOUS
    <3>3. x \in SectionsOf(whole, b, p) /\ x.type = "DYN_SYMBOLS"
      BY <2>1, <3>1, <3>2
    <3>4. /\ whole[p + 1] = Dysymtab /\ whole[p + 15 + 1] # 0
          /\ x = Listed("DYN_SYMBOLS", whole[p + 15 + 1], b + whole[p + 14 + 1])
      BY <3>3, TableSections, Zenon
    <3>5. object.indirsymoff = whole[p + 14 + 1] /\ object.indirsymnum = whole[p + 15 + 1]
      BY <1>2, <3>1, <3>2, <3>4
    <3> QED BY <3>4, <3>5, Zenon
  <2>2. ASSUME NEW x, object.indirsymnum # 0, x = z PROVE x \in All /\ x.type = "DYN_SYMBOLS"
    <3>1. PICK i \in 1..n : whole[s[i] + 1] = Dysymtab
      BY <1>3, <2>2
    <3>3. /\ whole[s[i] + 15 + 1] # 0
          /\ x = Listed("DYN_SYMBOLS", whole[s[i] + 15 + 1], b + whole[s[i] + 14 + 1])
      BY <1>2, <2>2, <3>1
    <3>4. PICK p : p = s[i]
      OBVIOUS
    <3>5. whole[p + 1] = Dysymtab /\ whole[p + 15 + 1] # 0
      BY <3>1, <3>3, <3>4
    <3>2. x \in SectionsOf(whole, b, p) /\ x.type = "DYN_SYMBOLS"
      <4>1. SectionsOf(whole, b, p)
            = IF whole[p + 15 + 1] = 0 THEN {} ELSE {Listed("DYN_SYMBOLS", whole[p + 15 + 1], b + whole[p + 14 + 1])}
        BY <3>5, SectionsOfIs, ZenonT(60)
      <4>2. x = Listed("DYN_SYMBOLS", whole[p + 15 + 1], b + whole[p + 14 + 1])
        BY <3>3, <3>4
      <4>3. x.type = "DYN_SYMBOLS"
        BY <4>2 DEF Listed
      <4> QED BY <3>5, <4>1, <4>2, <4>3
    <3> QED BY <3>2, <3>4
  <2> QED BY <2>1, <2>2
<1>6. \A T, x : x \in Found(whole, b, n, T) <=> x \in All /\ x.type \notin T
  BY <1>1 DEF Found
<1> HIDE DEF All, y, z
<1>7. ASSUME NEW x
      PROVE  x \in Found(whole, b, n, {"DYN_SYMBOLS"})
             <=> x \in Found(whole, b, n, {"SYMBOLS", "DYN_SYMBOLS"}) \/ (object.symnum # 0 /\ x = y)
  <2>1. x \in All => (x.type \notin {"DYN_SYMBOLS"} <=> x.type \notin {"SYMBOLS", "DYN_SYMBOLS"} \/ x.type = "SYMBOLS")
    OBVIOUS
  <2> QED BY <1>4, <1>6, <2>1
<1>8. ASSUME NEW x
      PROVE  x \in Found(whole, b, n, {}) <=> x \in Found(whole, b, n, {"DYN_SYMBOLS"}) \/ (object.indirsymnum # 0 /\ x = z)
  <2>1. x \in All => (x.type \notin {} <=> x.type \notin {"DYN_SYMBOLS"} \/ x.type = "DYN_SYMBOLS")
    OBVIOUS
  <2> QED BY <1>5, <1>6, <2>1
<1>9. Found(whole, b, n, {"DYN_SYMBOLS"}) = Found(whole, b, n, {"SYMBOLS", "DYN_SYMBOLS"}) \cup IF object.symnum = 0 THEN {} ELSE {y}
  BY <1>7
<1>10. Found(whole, b, n, {}) = Found(whole, b, n, {"DYN_SYMBOLS"}) \cup IF object.indirsymnum = 0 THEN {} ELSE {z}
  BY <1>8
<1> QED BY <1>1, <1>9, <1>10 DEF y, z

\* Nothing is left out: these are all sections.
LEMMA AllFound ==
  ASSUME NEW f, NEW b
  PROVE  Found(f, b, f[b + 5], {}) = AllSections(f, b)
BY DEF Found, AllSections, Commands

-----------------------------------------------------------------------------
\* From one part of an object to the next.
LEMMA ObjectProgress ==
  ASSUME Progress, UnderstoodFile, phase \in InObject, phase' \in InObject,
         UNCHANGED <<whole, file, order, archs, left, objects>>, NEW b, b = archs[1], Reading(b)'
  PROVE  Progress'
<1>1. CutOff'
  BY DEF Progress, CutOff
<1> QED BY <1>1 DEF Progress, InObject

\* All commands of the object at hand have been read.
LEMMA AllCommandsRead ==
  ASSUME ParserInv, Progress, UnderstoodFile, phase \in {"symbols", "dynsymbols", "filling"}
  PROVE  LET b == archs[1]
             n == whole[b + 5]
         IN
         /\ b \in Int /\ Understood(whole, b) /\ n \in Nat /\ left = 0 /\ n - left = n
         /\ b = Bases(whole)[Len(objects) + 1]
         /\ Reading(b) /\ object.base = b
         /\ Briefs(object.sections) = Found(whole, b, n, Later) /\ TablesRead(b, n)
         /\ EntryWords = IF IsWide(whole, b) THEN 4 ELSE 3
<1>1. archs # <<>> /\ whole \in Seq(Int)
  BY DEF ParserInv, ParserTypeOK
<1>2. PICK b \in Int : b = archs[1] /\ b = Bases(whole)[Len(objects) + 1] /\ Understood(whole, b)
  BY <1>1, CurrentObject DEF InObject
<1>3. Reading(b)
  BY <1>2 DEF Progress, InObject
<1>4. PICK n \in Nat : n = whole[b + 5]
  BY <1>1, <1>2, CommandsFollow
<1>5. left = 0
  BY <1>3, <1>4 DEF Reading
<1>6. n - left = n
  BY <1>5
<1>7. EntryWords = IF IsWide(whole, b) THEN 4 ELSE 3
  BY <1>3 DEF Reading, EntryWords
<1> QED BY <1>2, <1>3, <1>4, <1>5, <1>6, <1>7 DEF Reading

\* Tables that stay as they are.
LEMMA SameTables ==
  ASSUME NEW b, NEW k, TablesRead(b, k), whole' = whole,
         object'.symoff = object.symoff, object'.symnum = object.symnum,
         object'.indirsymoff = object.indirsymoff, object'.indirsymnum = object.indirsymnum
  PROVE  TablesRead(b, k)'
BY DEF TablesRead

\* Reading the symbol table adds the section that was still missing.
LEMMA ReadSymbolsProgress ==
  ASSUME ParserInv, Progress, UnderstoodFile, ReadSymbols
  PROVE  Progress'
<1>1. PICK s \in SectionRecords :
        /\ s = SectionOf("SYMBOLS", object.symoff, object.symnum * EntryWords, object.base + object.symoff)
        /\ phase = "symbols" /\ phase' = "dynsymbols" /\ object.symnum \in Nat \ {0}
        /\ object'.sections = Append(object.sections, s)
        /\ object'.base = object.base /\ object'.bits = object.bits
        /\ object'.symoff = object.symoff /\ object'.symnum = object.symnum
        /\ object'.indirsymoff = object.indirsymoff /\ object'.indirsymnum = object.indirsymnum
        /\ UNCHANGED <<whole, file, order, archs, left, objects>>
  BY ReadSymbolsIs
<1>2. PICK b \in Int, n \in Nat :
        /\ b = archs[1] /\ n = whole[b + 5] /\ Understood(whole, b) /\ left = 0 /\ n - left = n
        /\ Reading(b) /\ object.base = b
        /\ Briefs(object.sections) = Found(whole, b, n, Later) /\ TablesRead(b, n)
        /\ EntryWords = IF IsWide(whole, b) THEN 4 ELSE 3
  BY <1>1, AllCommandsRead
<1>3. Later = {"SYMBOLS", "DYN_SYMBOLS"} /\ Later' = {"DYN_SYMBOLS"}
  BY <1>1 DEF Later
<1>4. Briefs(object'.sections) = Found(whole, b, n, Later')
  <2>1. object.sections \in Seq(SectionRecords)
    BY DEF ParserInv, ParserTypeOK, Opened
  <2>2. Brief(s) = Listed("SYMBOLS", object.symnum * (IF IsWide(whole, b) THEN 4 ELSE 3), b + object.symoff)
    BY <1>1, <1>2, BriefOf
  <2>3. Found(whole, b, n, {"DYN_SYMBOLS"}) = Found(whole, b, n, {"SYMBOLS", "DYN_SYMBOLS"}) \cup {Brief(s)}
    <3>1. whole \in Seq(Int) /\ TablesRead(b, whole[b + 5])
      BY <1>2 DEF ParserInv, ParserTypeOK
    <3>2. object.symnum # 0
      BY <1>1
    <3> QED BY <1>2, <2>2, <3>1, <3>2, TablesFound
  <2> QED BY <1>1, <1>2, <1>3, <2>1, <2>3, BriefsAppend
<1>5. TablesRead(b, n)'
  BY <1>1, <1>2, SameTables
<1>6. Reading(b)'
  BY <1>1, <1>2, <1>4, <1>5 DEF Reading
<1> QED BY <1>1, <1>2, <1>6, ObjectProgress DEF InObject

\* Reading the dynamic symbol table adds the last section that was missing.
LEMMA ReadDynSymbolsProgress ==
  ASSUME ParserInv, Progress, UnderstoodFile, ReadDynSymbols
  PROVE  Progress'
<1>1. PICK s \in SectionRecords :
        /\ s = SectionOf("DYN_SYMBOLS", object.indirsymoff, object.indirsymnum, object.base + object.indirsymoff)
        /\ phase = "dynsymbols" /\ phase' = "filling" /\ object.indirsymnum \in Nat \ {0}
        /\ object'.sections = Append(object.sections, s)
        /\ object'.base = object.base /\ object'.bits = object.bits
        /\ object'.symoff = object.symoff /\ object'.symnum = object.symnum
        /\ object'.indirsymoff = object.indirsymoff /\ object'.indirsymnum = object.indirsymnum
        /\ UNCHANGED <<whole, file, order, archs, left, objects>>
  BY ReadDynSymbolsIs
<1>2. PICK b \in Int, n \in Nat :
        /\ b = archs[1] /\ n = whole[b + 5] /\ Understood(whole, b) /\ left = 0 /\ n - left = n
        /\ Reading(b) /\ object.base = b
        /\ Briefs(object.sections) = Found(whole, b, n, Later) /\ TablesRead(b, n)
  BY <1>1, AllCommandsRead
<1>3. Later = {"DYN_SYMBOLS"} /\ Later' = {}
  BY <1>1 DEF Later
<1>4. Briefs(object'.sections) = Found(whole, b, n, Later')
  <2>1. object.sections \in Seq(SectionRecords)
    BY DEF ParserInv, ParserTypeOK, Opened
  <2>2. Brief(s) = Listed("DYN_SYMBOLS", object.indirsymnum, b + object.indirsymoff)
    BY <1>1, <1>2, BriefOf
  <2>3. Found(whole, b, n, {}) = Found(whole, b, n, {"DYN_SYMBOLS"}) \cup {Brief(s)}
    <3>1. whole \in Seq(Int) /\ TablesRead(b, whole[b + 5])
      BY <1>2 DEF ParserInv, ParserTypeOK
    <3>2. object.indirsymnum # 0
      BY <1>1
    <3> QED BY <1>2, <2>2, <3>1, <3>2, TablesFound
  <2> QED BY <1>1, <1>2, <1>3, <2>1, <2>3, BriefsAppend
<1>5. TablesRead(b, n)'
  BY <1>1, <1>2, SameTables
<1>6. Reading(b)'
  BY <1>1, <1>2, <1>4, <1>5 DEF Reading
<1> QED BY <1>1, <1>2, <1>6, ObjectProgress DEF InObject

\* A symbol table without entries is no section, and the reader finds none.
LEMMA NoSymbolsProgress ==
  ASSUME ParserInv, Progress, UnderstoodFile, NoSymbols
  PROVE  Progress'
<1>1. /\ \/ phase = "symbols" /\ phase' = "dynsymbols" /\ object.symnum = 0
         \/ phase = "dynsymbols" /\ phase' = "filling" /\ object.indirsymnum = 0
      /\ UNCHANGED <<whole, file, pos, order, archs, left, object, objects>>
  BY DEF NoSymbols
<1>2. PICK b \in Int, n \in Nat :
        /\ b = archs[1] /\ n = whole[b + 5] /\ Understood(whole, b) /\ left = 0 /\ n - left = n
        /\ Reading(b) /\ object.base = b
        /\ Briefs(object.sections) = Found(whole, b, n, Later) /\ TablesRead(b, n)
  BY <1>1, AllCommandsRead
<1>3. whole \in Seq(Int) /\ TablesRead(b, whole[b + 5])
  BY <1>2 DEF ParserInv, ParserTypeOK
<1>4. Found(whole, b, n, Later') = Found(whole, b, n, Later)
  <2>1. CASE phase = "symbols"
    <3>1. Later = {"SYMBOLS", "DYN_SYMBOLS"} /\ Later' = {"DYN_SYMBOLS"} /\ object.symnum = 0
      BY <1>1, <2>1 DEF Later
    <3> QED BY <1>2, <1>3, <3>1, TablesFound
  <2>2. CASE phase = "dynsymbols"
    <3>1. Later = {"DYN_SYMBOLS"} /\ Later' = {} /\ object.indirsymnum = 0
      BY <1>1, <2>2 DEF Later
    <3> QED BY <1>2, <1>3, <3>1, TablesFound, SMTT(60)
  <2> QED BY <1>1, <2>1, <2>2
<1>5. TablesRead(b, n)'
  BY <1>1, <1>2, SameTables
<1>6. Reading(b)'
  BY <1>1, <1>2, <1>4, <1>5 DEF Reading
<1> QED BY <1>1, <1>2, <1>6, ObjectProgress DEF InObject

\* After the last command all sections but the symbol tables are found.
LEMMA CommandsDoneProgress ==
  ASSUME ParserInv, Progress, UnderstoodFile, CommandsDone
  PROVE  Progress'
<1>1. /\ phase = "commands" /\ phase' = "symbols" /\ left = 0 /\ archs # <<>>
      /\ UNCHANGED <<whole, file, pos, order, archs, left, object, objects>>
  BY DEF CommandsDone, ParserInv, ParserTypeOK
<1>2. PICK b : b = archs[1] /\ Reading(b)
  BY <1>1 DEF Progress, InObject
<1>3. Later' = Later
  BY <1>1 DEF Later
<1>4. PICK k : k = whole[b + 5] - left /\ TablesRead(b, k)
  BY <1>2 DEF Reading
<1>5. TablesRead(b, k)'
  BY <1>1, <1>4, SameTables
<1>6. ~(left > 0)
  BY <1>1
<1>7. Reading(b)'
  BY <1>1, <1>2, <1>3, <1>4, <1>5, <1>6 DEF Reading
<1> QED BY <1>1, <1>2, <1>7, ObjectProgress DEF InObject

\* The sections of the object that is ready are those of the file.
LEMMA FilledFound ==
  ASSUME ParserInv, Progress, UnderstoodFile, phase = "filling"
  PROVE  Briefs(Filled) = AllSections(whole, archs[1])
<1>1. PICK b \in Int, n \in Nat :
        b = archs[1] /\ n = whole[b + 5] /\ Briefs(object.sections) = Found(whole, b, n, Later)
  BY AllCommandsRead
<1>2. Briefs(Filled) = Briefs(object.sections)
  <2>1. DOMAIN Filled = DOMAIN object.sections /\ \A i \in DOMAIN Filled : Brief(Filled[i]) = Brief(object.sections[i])
    BY FilledIs DEF ParserInv, Brief, Listed
  <2> QED BY <2>1 DEF Briefs
<1>3. Later = {}
  BY DEF Later
<1> QED BY <1>1, <1>2, <1>3, AllFound

\* The end of an object: all of its sections were found.
LEMMA FinishProgress ==
  ASSUME ParserInv, Progress, UnderstoodFile, FinishObject
  PROVE  Progress'
<1>1. /\ phase = "filling" /\ phase' = "header" /\ archs' = Tail(archs)
      /\ objects' = Append(objects, Finished)
      /\ UNCHANGED <<whole, file, pos, order, left>>
  BY FinishObjectIs
<1>2. PICK b \in Int, n \in Nat :
        b = archs[1] /\ n = whole[b + 5] /\ b = Bases(whole)[Len(objects) + 1]
  BY <1>1, AllCommandsRead
<1>3. Briefs(Filled) = AllSections(whole, b)
  BY <1>1, <1>2, FilledFound
<1>4. objects \in Seq(Parsed) /\ Finished \in Parsed /\ archs \in Seq(Int) /\ archs # <<>>
  BY <1>1, FinishedType DEF ParserInv, ParserTypeOK
<1>5. PICK m \in Nat, k \in Nat : m = Len(objects) /\ k = Len(archs) /\ k >= 1
  BY <1>4
<1>6. /\ Len(archs') = k - 1 /\ Len(objects') = m + 1 /\ DOMAIN objects' = 1..(m + 1)
      /\ \A j \in 1..(k - 1) : archs'[j] = archs[j + 1]
      /\ objects'[m + 1] = Finished /\ \A i \in 1..m : objects'[i] = objects[i]
  BY <1>1, <1>4, <1>5
<1>7. /\ Bases(whole) \in Seq(Int) /\ Len(Bases(whole)) = m + k
      /\ \A j \in 1..k : archs[j] = Bases(whole)[m + j]
  BY <1>1, <1>5 DEF Progress, InObject
<1>8. /\ Len(Bases(whole)) = Len(objects') + Len(archs')
      /\ \A j \in 1..Len(archs') : archs'[j] = Bases(whole)[Len(objects') + j]
  <2>1. m + k = (m + 1) + (k - 1)
    BY <1>5
  <2>2. ASSUME NEW j \in 1..(k - 1) PROVE archs'[j] = Bases(whole)[(m + 1) + j]
    <3>1. j + 1 \in 1..k /\ m + (j + 1) = (m + 1) + j
      BY <1>5
    <3> QED BY <1>6, <1>7, <3>1
  <2> QED BY <1>6, <1>7, <2>1, <2>2
<1>9. ASSUME NEW i \in DOMAIN objects' PROVE Briefs(objects'[i].sections) = AllSections(whole, Bases(whole)[i])
  <2>1. CASE i = m + 1
    <3>1. objects'[i].sections = Filled
      BY <1>6, <2>1 DEF Finished
    <3> QED BY <1>2, <1>3, <1>5, <2>1, <3>1
  <2>2. CASE i # m + 1
    <3>1. i \in 1..m
      BY <1>5, <1>6, <2>2
    <3>2. i \in DOMAIN objects
      BY <1>4, <1>5, <3>1
    <3> QED BY <1>6, <3>1, <3>2 DEF Progress
  <2> QED BY <2>1, <2>2
<1>10. CutOff'
  BY <1>1 DEF Progress, CutOff
<1> QED BY <1>1, <1>7, <1>8, <1>9, <1>10 DEF Progress, InObject

\* The header of an object: the reader is at its first command.
LEMMA ParseHeaderProgress ==
  ASSUME ParserInv, Progress, UnderstoodFile, ParseHeader
  PROVE  Progress'
<1>1. PICK b \in Int, n \in Nat :
        b = archs[1] /\ b \in Nat /\ b + 7 =< Len(file) /\ Understood(whole, b) /\ IsMachO(whole, b) /\ n = whole[b + 5]
  <2>1. phase = "header" /\ archs # <<>> /\ archs[1] \in Nat /\ archs[1] + 7 =< Len(file)
    BY ParseHeaderIs
  <2>2. Understood(whole, archs[1])
    BY <2>1, CurrentObject
  <2>3. whole \in Seq(Int)
    BY DEF ParserInv, ParserTypeOK
  <2>4. archs[1] \in Int
    BY <2>1
  <2> QED BY <2>1, <2>2, <2>3, <2>4, CommandsFollow
<1>2. /\ left' = HeaderWord(b, 4)
      /\ order' = IF file[b + 1] \in {BIG_MAGIC, BIG_MAGIC_64} THEN "big" ELSE "little"
      /\ pos' = After(b, IF Is64(b) THEN 8 ELSE 7)
      /\ object' = [NoObject EXCEPT !.base = b, !.bits = IF Is64(b) THEN 64 ELSE 32]
      /\ phase = "header" /\ phase' = "commands"
      /\ UNCHANGED <<whole, file, archs, objects>>
  BY <1>1, ParseHeaderIs
<1>3. /\ Len(file) \in Nat /\ \A k \in 1..Len(file) : file[k] = whole[k]
  BY CutOffWords DEF ParserInv, Progress
<1>4. file[b + 1] = whole[b + 1] /\ file[b + 4 + 1] = whole[b + 5]
  <2>1. b + 1 \in 1..Len(file) /\ b + 5 \in 1..Len(file) /\ b + 4 + 1 = b + 5
    BY <1>1, <1>3
  <2> QED BY <1>3, <2>1
<1>5. whole[b + 1] \notin {BIG_MAGIC, BIG_MAGIC_64}
  BY <1>1 DEF IsMachO, BIG_MAGIC, BIG_MAGIC_64, MH_MAGIC, MH_MAGIC_64, High
<1>6. left' = n /\ order' = "little"
  BY <1>1, <1>2, <1>4, <1>5 DEF HeaderWord
<1>7. Is64(b) <=> IsWide(whole, b)
  BY <1>1, <1>4, <1>5 DEF Is64, IsWide
<1>8. pos' = Least(b + HeadWords(whole, b), Len(file))
  BY <1>2, <1>7 DEF After, HeadWords
<1>9. /\ object'.base = b /\ object'.bits = (IF IsWide(whole, b) THEN 64 ELSE 32) /\ object'.sections = <<>>
      /\ object'.symnum = 0 /\ object'.indirsymnum = 0
  <2>1. PICK x \in {32, 64} : x = IF Is64(b) THEN 64 ELSE 32
    OBVIOUS
  <2>2. object' = [NoObject EXCEPT !.base = b, !.bits = x]
    BY <1>2, <2>1
  <2>3. object'.base = b /\ object'.bits = x /\ object'.sections = <<>> /\ object'.symnum = 0 /\ object'.indirsymnum = 0
    <3>1. LET o == [NoObject EXCEPT !.base = b, !.bits = x] IN
          o.base = b /\ o.bits = x /\ o.sections = <<>> /\ o.symnum = 0 /\ o.indirsymnum = 0
      BY DEF NoObject
    <3> QED BY <2>2, <3>1
  <2> QED BY <1>7, <2>1, <2>3
<1>10. Reading(b)'
  <2>1. n - left' = 0 /\ left' \in 0..n
    BY <1>6
  <2>2. left' > 0 => pos' = Least(Starts(whole, b)[n - left' + 1], Len(file))
    <3>1. n > 0 => Starts(whole, b)[1] = b + HeadWords(whole, b)
      BY <1>1, CommandsFollow DEF ParserInv, ParserTypeOK
    <3>2. n - left' + 1 = 1 /\ left' = n
      BY <1>6, <2>1
    <3>3. left' > 0 => Starts(whole, b)[n - left' + 1] = b + HeadWords(whole, b)
      BY <3>1, <3>2
    <3> QED BY <1>8, <3>3
  <2>3. Briefs(object'.sections) = {}
    BY <1>9 DEF Briefs
  <2>4. \A T : Found(whole, b, 0, T) = {}
    BY DEF Found
  <2>5. TablesRead(b, 0)'
    BY <1>9 DEF TablesRead
  <2> QED BY <1>1, <1>2, <1>6, <1>9, <2>1, <2>2, <2>3, <2>4, <2>5 DEF Reading
<1>11. CutOff'
  BY <1>2 DEF Progress, CutOff
<1> QED BY <1>1, <1>2, <1>10, <1>11 DEF Progress, InObject

\* The header of a fat file: its objects are those of the format.
LEMMA ReadArchsProgress ==
  ASSUME ParserInv, Progress, UnderstoodFile, ReadArchs
  PROVE  Progress'
<1>1. PICK n \in Nat, L \in Nat :
        /\ n = Word(0) /\ L = Len(file) /\ pos + 1 + 5 * n \in 0..L
        /\ archs' \in Seq(Int) /\ Len(archs') = n
        /\ \A i \in 1..n : archs'[i] = Word(5 * i - 2)
  <2>1. Len(file) \in Nat
    BY DEF ParserInv, ParserTypeOK
  <2> QED BY <2>1, ReadArchsIs
<1>2. phase = "archs" /\ phase' = "header" /\ UNCHANGED <<whole, file, order, left, object, objects>>
  BY DEF ReadArchs
<1>3. file # <<>> /\ file[1] = -FAT_MAGIC /\ pos = 1 /\ order = "big" /\ objects = <<>>
  BY <1>2 DEF Progress
<1>4. \A k \in 1..L : file[k] = whole[k]
  BY <1>1, CutOffWords DEF ParserInv, Progress
<1>5. whole[1] = -FAT_MAGIC
  BY <1>1, <1>3, <1>4
<1>6. n = -whole[2]
  <2>1. 2 \in 1..L /\ pos + 0 + 1 = 2
    BY <1>1, <1>3
  <2> QED BY <1>1, <1>3, <1>4, <2>1 DEF Word
<1>7. ASSUME NEW i \in 1..n PROVE archs'[i] = -whole[5 * i]
  <2>1. 5 * i \in 1..L /\ pos + (5 * i - 2) + 1 = 5 * i
    BY <1>1, <1>3
  <2> QED BY <1>1, <1>3, <1>4, <2>1 DEF Word
<1>8. Bases(whole) = [i \in 1..n |-> -whole[5 * i]]
  BY <1>5, <1>6 DEF Bases
<1>9. archs' = Bases(whole)
  <2>1. archs' = [i \in 1..n |-> archs'[i]]
    BY <1>1
  <2> QED BY <1>7, <1>8, <2>1
<1>10. CutOff'
  BY <1>2 DEF Progress, CutOff
<1>11. Len(objects') = 0 /\ DOMAIN objects' = {}
  BY <1>2, <1>3
<1> QED BY <1>1, <1>2, <1>9, <1>10, <1>11 DEF Progress, InObject

\* The magic of the file tells whether it has one object or a list of them.
LEMMA DetectProgress ==
  ASSUME ParserInv, Progress, UnderstoodFile, DetectThin \/ DetectFat
  PROVE  Progress'
<1>1. file # <<>> /\ Detected /\ pos' = 1 /\ phase = "detecting" /\ UNCHANGED <<whole, file, left, object, objects>>
  BY DEF DetectThin, DetectFat, Detected
<1>2. objects = <<>>
  BY <1>1 DEF Progress
<1>3. file[1] = whole[1] /\ whole # <<>>
  <2>1. /\ Len(file) \in Nat /\ Len(whole) \in Nat /\ Len(file) =< Len(whole)
        /\ \A k \in 1..Len(file) : file[k] = whole[k]
    BY CutOffWords DEF ParserInv, Progress
  <2>2. Len(file) >= 1
    BY <1>1 DEF ParserInv, ParserTypeOK
  <2> QED BY <2>1, <2>2
<1>4. CutOff'
  BY <1>1 DEF Progress, CutOff
<1>5. DOMAIN objects' = {} /\ Len(objects') = 0
  BY <1>1, <1>2
<1>6. CASE DetectFat
  <2>1. phase' = "archs" /\ order' = "big" /\ file[1] \in {FAT_MAGIC, -FAT_MAGIC}
    BY <1>6 DEF DetectFat
  <2>2. file[1] # FAT_MAGIC
    <3>1. SUFFICES ASSUME file[1] = FAT_MAGIC PROVE FALSE
      OBVIOUS
    <3>2. Bases(whole) = <<0>>
      BY <1>3, <3>1 DEF Bases, FAT_MAGIC, High
    <3>3. 1 \in DOMAIN Bases(whole) /\ Bases(whole)[1] = 0
      BY <3>2
    <3>4. IsMachO(whole, 0)
      BY <3>3 DEF UnderstoodFile, Understood
    <3>5. whole[1] \in {MH_MAGIC, MH_MAGIC_64}
      BY <3>4 DEF IsMachO
    <3>6. FAT_MAGIC \notin {MH_MAGIC, MH_MAGIC_64}
      BY DEF FAT_MAGIC, MH_MAGIC, MH_MAGIC_64, High
    <3> QED BY <1>3, <3>1, <3>5, <3>6
  <2> QED BY <1>1, <1>2, <1>4, <1>5, <2>1, <2>2 DEF Progress, InObject
<1>7. CASE DetectThin
  <2>1. phase' = "header" /\ archs' = <<0>> /\ file[1] \notin {FAT_MAGIC, -FAT_MAGIC}
    BY <1>7 DEF DetectThin
  <2>2. Bases(whole) = <<0>>
    BY <1>3, <2>1 DEF Bases
  <2>3. <<0>> \in Seq(Int) /\ Len(<<0>>) = 1
    OBVIOUS
  <2> QED BY <1>1, <1>4, <1>5, <2>1, <2>2, <2>3 DEF Progress, InObject
<1> QED BY <1>6, <1>7

\* Once no object is left, every one was found.
LEMMA ParseDoneProgress ==
  ASSUME ParserInv, Progress, UnderstoodFile, ParseDone
  PROVE  Progress'
<1>1. /\ phase = "header" /\ archs = <<>> /\ phase' = "parsed"
      /\ UNCHANGED <<whole, file, pos, order, archs, left, object, objects>>
  BY DEF ParseDone
<1>2. Bases(whole) \in Seq(Int) /\ Len(Bases(whole)) = Len(objects) + Len(archs)
  BY <1>1 DEF Progress
<1>3. Len(archs) = 0 /\ Len(objects) \in Nat
  BY <1>1 DEF ParserInv, ParserTypeOK
<1>4. Len(Bases(whole)) = Len(objects)
  BY <1>2, <1>3
<1>5. CutOff'
  BY <1>1 DEF Progress, CutOff
<1> QED BY <1>1, <1>2, <1>4, <1>5 DEF Progress, InObject

\* A refusal promises nothing about sections.
LEMMA FailProgress ==
  ASSUME Progress, Fail
  PROVE  Progress'
<1>1. CutOff'
  BY DEF Progress, CutOff, Fail
<1> QED BY <1>1 DEF Progress, InObject, Fail

\* Every step of the parser keeps Progress in a file it understands.
LEMMA ParserProgress ==
  ASSUME ParserInv, Progress, UnderstoodFile, ParserNext
  PROVE  Progress' /\ whole' = whole /\ file' = file
<1>1. CASE DetectFails \/ ReadArchsFails \/ ParseHeaderFails \/ CommandFails \/ SegmentFails \/ SymbolsFail
  <2>1. Fail
    BY <1>1 DEF DetectFails, ReadArchsFails, ParseHeaderFails, CommandFails, SegmentFails, SymbolsFail
  <2> QED BY <2>1, FailProgress DEF Fail
<1>2. CASE DetectThin \/ DetectFat
  BY <1>2, DetectProgress DEF DetectThin, DetectFat
<1>3. CASE ReadArchs
  BY <1>3, ReadArchsProgress DEF ReadArchs
<1>4. CASE ParseHeader
  BY <1>4, ParseHeaderProgress DEF ParseHeader
<1>5. CASE ParseDone
  BY <1>5, ParseDoneProgress DEF ParseDone
<1>6. CASE CommandsDone
  BY <1>6, CommandsDoneProgress DEF CommandsDone
<1>7. CASE NoSymbols
  BY <1>7, NoSymbolsProgress DEF NoSymbols
<1>8. CASE PassCommand \/ LoadSegment \/ LoadSymtab \/ LoadDysymtab \/ LoadVersionMin \/ LoadLinkEdit
  <2>1. Progress'
    BY <1>8, PassProgress, SegmentProgress, SymtabProgress, DysymtabProgress, VersionMinProgress, LinkEditProgress
  <2>2. \E n : TakeCommand(n)
    BY <1>8 DEF PassCommand, LoadSegment, LoadSymtab, LoadDysymtab, LoadVersionMin, LoadLinkEdit
  <2> QED BY <2>1, <2>2 DEF TakeCommand
<1>9. CASE ReadSymbols \/ ReadDynSymbols
  BY <1>9, ReadSymbolsProgress, ReadDynSymbolsProgress DEF ReadSymbols, ReadDynSymbols
<1>10. CASE FinishObject
  BY <1>10, FinishProgress DEF FinishObject
<1> QED BY <1>1, <1>2, <1>3, <1>4, <1>5, <1>6, <1>7, <1>8, <1>9, <1>10 DEF ParserNext, Detect

-----------------------------------------------------------------------------
(***************************************************************************)
(* The names of stubs                                                      *)
(***************************************************************************)

\* The tables of the object at hand that were read are those of the file.
TablesTaken ==
  /\ phase \in {"dynsymbols", "filling"} /\ object.symnum # 0 =>
       /\ Len(object.symbols) = object.symnum
       /\ \A k \in 1..object.symnum : object.symbols[k].index = file[InTable(object.symoff, EntryWords, k, 0) + 1]
  /\ phase = "filling" /\ object.indirsymnum # 0 =>
       /\ Len(object.dynsymbols) = object.indirsymnum
       /\ \A h \in 1..object.indirsymnum : object.dynsymbols[h] = file[object.indirsymoff + h]

\* Entry h of the dynamic table of o has the name that its object at b in the file f
\* has for it, if the symbol table is at p, the dynamic one at q.
StubNamed(f, b, p, q, o, h) ==
  LET symbol == f[f[q + 14 + 1] + h]
      index == f[f[p + 2 + 1] + symbol * (IF IsWide(f, b) THEN 4 ELSE 3) + 1]
  IN  symbol \in 0..f[p + 3 + 1] - 1 /\ index \in 0..f[p + 5 + 1] - 1 =>
        o.dynsymbols[h].name = f[b + f[p + 4 + 1] + index + 1]

\* The commands at p and q, the string table and the stubs.
HasTables(f, b, p, q) ==
  /\ \E i \in Commands(f, b) : p = Starts(f, b)[i]
  /\ \E i \in Commands(f, b) : q = Starts(f, b)[i]
  /\ f[p + 1] = Symtab /\ f[q + 1] = Dysymtab
  /\ b + f[p + 4 + 1] >= 0 /\ b + f[p + 4 + 1] + f[p + 5 + 1] =< Len(f)
  /\ \E s \in AllSections(f, b) : s.type = "SYMBOL_STUBS"

StubNames(f, b, o) ==
  \A p, q \in Nat : HasTables(f, b, p, q) => \A h \in 1..f[q + 15 + 1] : StubNamed(f, b, p, q, o, h)

\* What is said of the stubs depends on the dynamic symbols only.
LEMMA SameNames ==
  ASSUME NEW f, NEW b, NEW o, NEW n, n.dynsymbols = o.dynsymbols, StubNames(f, b, o)
  PROVE  StubNames(f, b, n)
BY DEF StubNames, StubNamed

\* So it is in the objects that were parsed.
NamesRight ==
  UnderstoodFile /\ Len(file) = Len(whole) => \A i \in DOMAIN objects : StubNames(whole, Bases(whole)[i], objects[i])

-----------------------------------------------------------------------------
\* The one symbol table command of an object brings its string table.
LEMMA StringSection ==
  ASSUME NEW f \in Seq(Int), NEW b \in Int, Understood(f, b),
         NEW i \in Commands(f, b), NEW p, p = Starts(f, b)[i], f[p + 1] = Symtab
  PROVE  /\ Listed("STRING", f[p + 5 + 1], b + f[p + 4 + 1]) \in AllSections(f, b)
         /\ \A s \in AllSections(f, b) : s.type = "STRING" => s = Listed("STRING", f[p + 5 + 1], b + f[p + 4 + 1])
<1>1. PICK start : start = Starts(f, b)
  OBVIOUS
<1>2. Own(f, b, p) = {Listed("STRING", f[p + 5 + 1], b + f[p + 4 + 1])}
  BY OwnIs, ZenonT(60)
<1>3. Listed("STRING", f[p + 5 + 1], b + f[p + 4 + 1]) \in AllSections(f, b)
  <2>1. Listed("STRING", f[p + 5 + 1], b + f[p + 4 + 1]) \in SectionsOf(f, b, start[i])
    BY <1>1, <1>2 DEF Own
  <2> QED BY <1>1, <2>1 DEF AllSections
<1>4. ASSUME NEW s \in AllSections(f, b), s.type = "STRING"
      PROVE  s = Listed("STRING", f[p + 5 + 1], b + f[p + 4 + 1])
  <2>1. PICK j \in Commands(f, b) : s \in SectionsOf(f, b, start[j])
    BY <1>1, <1>4 DEF AllSections
  <2>2. PICK r : r = start[j]
    OBVIOUS
  <2>3. s \in Own(f, b, r)
    BY <1>4, <2>1, <2>2 DEF Own
  <2>4. f[r + 1] = Symtab
    <3>1. CASE f[r + 1] \in VersionMin
      <4>1. Own(f, b, r) = {Listed(VersionSection[f[r + 1]], 2, r + 2)}
        BY <3>1, OwnIs, ZenonT(60)
      <4>2. VersionSection[f[r + 1]] # "STRING"
        BY <3>1, PlatformsAre
      <4> QED BY <1>4, <2>3, <4>1, <4>2 DEF Listed
    <3>2. CASE f[r + 1] \in Segment
      <4>1. SectionsOf(f, b, r) = SectionsInSegment(f, b, r)
        BY <3>2, SegmentSections
      <4>2. PICK n, z, o : n \in DOMAIN Kinds /\ s = Listed(Kinds[n], z, o)
        <5>1. s \in SectionsInSegment(f, b, r)
          BY <2>1, <2>2, <4>1
        <5> QED BY <5>1 DEF SectionsInSegment
      <4>3. Kinds[n] # "STRING"
        BY <4>2 DEF Kinds, Names
      <4> QED BY <1>4, <4>2, <4>3 DEF Listed
    <3>3. CASE f[r + 1] = FunctionStarts
      <4>1. Own(f, b, r) = {Listed("FUNC_STARTS", f[r + 3 + 1], b + f[r + 2 + 1])}
        BY <3>3, OwnIs, ZenonT(60)
      <4> QED BY <1>4, <2>3, <4>1 DEF Listed
    <3>4. CASE f[r + 1] = CodeSignature
      <4>1. Own(f, b, r) = {Listed("CODE_SIG", f[r + 3 + 1], b + f[r + 2 + 1])}
        BY <3>4, OwnIs, ZenonT(60)
      <4> QED BY <1>4, <2>3, <4>1 DEF Listed
    <3>5. CASE f[r + 1] \notin Segment \cup VersionMin \cup {FunctionStarts, CodeSignature, Symtab}
      <4>1. Own(f, b, r) = {}
        BY <3>5, OwnIs, ZenonT(60)
      <4> QED BY <2>3, <4>1
    <3> QED BY <3>1, <3>2, <3>3, <3>4, <3>5
  <2>5. j = i
    BY <1>1, <2>2, <2>4 DEF Understood
  <2> QED BY <1>1, <1>2, <2>2, <2>3, <2>5
<1> QED BY <1>3, <1>4

-----------------------------------------------------------------------------
\* Words that the file has are there in full.
LEMMA WordsWithin ==
  ASSUME ParserTypeOK, NEW o \in Nat, NEW n \in Nat, o + n =< Len(file)
  PROVE  Len(Words(o, n)) = n /\ \A x \in 0..(n - 1) : Words(o, n)[x + 1] = file[o + x + 1]
<1>1. PICK L \in Nat : L = Len(file) /\ DOMAIN file = 1..L /\ file \in Seq(Int)
  BY DEF ParserTypeOK
<1>2. After(o, n) = o + n
  BY <1>1 DEF After, Least
<1>3. PICK d : d = SubSeq(file, o + 1, o + n)
  OBVIOUS
<1>4. Words(o, n) = d
  BY <1>2, <1>3 DEF Words
<1>5. \A i \in (o + 1)..(o + n) : file[i] \in Int
  BY <1>1
<1>6. /\ Len(d) = IF o + 1 =< o + n THEN (o + n) - (o + 1) + 1 ELSE 0
      /\ \A i \in 1..((o + n) - (o + 1) + 1) : d[i] = file[(o + 1) + i - 1]
  BY <1>3, <1>5, SubSeqProperties, SMTT(60)
<1>7. (o + n) - (o + 1) + 1 = n
  OBVIOUS
<1>8. Len(d) = n
  BY <1>6, <1>7
<1>9. ASSUME NEW x \in 0..(n - 1) PROVE d[x + 1] = file[o + x + 1]
  <2>1. x + 1 \in 1..n /\ (o + 1) + (x + 1) - 1 = o + x + 1
    OBVIOUS
  <2> QED BY <1>6, <1>7, <2>1
<1> QED BY <1>4, <1>8, <1>9

\* The string table of the object that is ready.
LEMMA StringsAre ==
  ASSUME ParserInv, Progress, UnderstoodFile, phase = "filling", NEW b \in Int, b = archs[1], Understood(whole, b),
         NEW i \in Commands(whole, b), NEW p, p = Starts(whole, b)[i], whole[p + 1] = Symtab,
         NEW o \in Nat, NEW n \in Nat, o = b + whole[p + 4 + 1], n = whole[p + 5 + 1], o + n =< Len(file)
  PROVE  Strings(Filled) = Words(o, n)
<1>1. whole \in Seq(Int) /\ Filled \in Seq(SectionRecords)
  BY FilledIs DEF ParserInv, ParserTypeOK
<1>2. Briefs(Filled) = AllSections(whole, b)
  BY FilledFound
<1>3. /\ Listed("STRING", n, o) \in AllSections(whole, b)
      /\ \A s \in AllSections(whole, b) : s.type = "STRING" => s = Listed("STRING", n, o)
  BY <1>1, StringSection
<1>4. Having(Filled, "STRING") # {}
  <2>1. PICK j \in DOMAIN Filled : Brief(Filled[j]) = Listed("STRING", n, o)
    BY <1>2, <1>3 DEF Briefs
  <2>2. Filled[j].type = "STRING"
    BY <2>1 DEF Brief, Listed
  <2> QED BY <2>2 DEF Having
<1>5. PICK j \in DOMAIN Filled : FirstOf(Filled, "STRING") = Filled[j] /\ Filled[j].type = "STRING"
  BY <1>1, <1>4, FirstOfIs
<1>6. Brief(Filled[j]) = Listed("STRING", n, o)
  <2>1. Brief(Filled[j]) \in AllSections(whole, b)
    BY <1>2 DEF Briefs
  <2>2. Brief(Filled[j]).type = "STRING"
    BY <1>5 DEF Brief, Listed
  <2> QED BY <1>3, <2>1, <2>2
<1>7. Filled[j].size = n /\ Filled[j].offset = o
  BY <1>6 DEF Brief, Listed
<1>8. Filled[j].data = Words(o, n)
  BY <1>7, FilledIs DEF ParserInv
<1> QED BY <1>4, <1>5, <1>8 DEF Strings

\* What FinishObject makes has the right names.
LEMMA FinishNames ==
  ASSUME ParserInv, Progress, TablesTaken, UnderstoodFile, Len(file) = Len(whole), phase = "filling"
  PROVE  StubNames(whole, archs[1], Finished)
<1>1. PICK b \in Int, c \in Nat :
        /\ b = archs[1] /\ Understood(whole, b) /\ c = whole[b + 5] /\ TablesRead(b, c) /\ Reading(b)
        /\ EntryWords = IF IsWide(whole, b) THEN 4 ELSE 3
  BY AllCommandsRead
<1>2. file = whole /\ whole \in Seq(Int)
  <2>1. /\ file \in Seq(Int) /\ whole \in Seq(Int) /\ DOMAIN file = 1..Len(file)
        /\ \A k \in 1..Len(file) : file[k] = whole[k]
    BY DEF ParserInv, ParserTypeOK, Progress, CutOff
  <2>2. file = [k \in 1..Len(file) |-> file[k]] /\ whole = [k \in 1..Len(file) |-> whole[k]]
    BY <2>1
  <2> QED BY <2>1, <2>2
<1>3. PICK w \in {3, 4} : w = EntryWords
  BY <1>1
<1>4. object.symbols \in Seq([index : Int, value : Int]) /\ object.dynsymbols \in Seq(Int)
      /\ object.symnum \in Int /\ object.symoff \in Int /\ object.indirsymnum \in Int /\ object.indirsymoff \in Int
  BY DEF ParserInv, ParserTypeOK, Opened
<1> SUFFICES ASSUME NEW p \in Nat, NEW q \in Nat, HasTables(whole, b, p, q), NEW h \in 1..whole[q + 15 + 1]
             PROVE  StubNamed(whole, b, p, q, Finished, h)
  BY <1>1 DEF StubNames
<1>5. Commands(whole, b) = 1..c
  BY <1>1 DEF Commands
<1>6. PICK i \in 1..c, j \in 1..c : p = Starts(whole, b)[i] /\ q = Starts(whole, b)[j]
  BY <1>5 DEF HasTables
<1>7. /\ object.symoff = whole[p + 3] /\ object.symnum = whole[p + 4]
      /\ object.indirsymoff = whole[q + 15] /\ object.indirsymnum = whole[q + 16]
  BY <1>1, <1>6 DEF TablesRead, HasTables
<1>8. PICK symbol : symbol = whole[object.indirsymoff + h]
  OBVIOUS
<1>9. PICK index : index = whole[object.symoff + symbol * w + 1]
  OBVIOUS
<1>10. PICK o, n : o = b + whole[p + 4 + 1] /\ n = whole[p + 5 + 1]
  OBVIOUS
<1>11. SUFFICES ASSUME symbol \in 0..(object.symnum - 1), index \in 0..(n - 1)
                PROVE  Finished.dynsymbols[h].name = whole[o + index + 1]
  <2>1. p + 2 + 1 = p + 3 /\ p + 3 + 1 = p + 4 /\ q + 14 + 1 = q + 15 /\ q + 15 + 1 = q + 16
    OBVIOUS
  <2> QED BY <1>1, <1>3, <1>7, <1>8, <1>9, <1>10, <2>1 DEF StubNamed
<1>12. o \in Nat /\ n \in Nat /\ o + n =< Len(whole)
  <2>1. ReadInFull(whole, b, p) /\ whole[p + 1] = Symtab
    BY <1>1, <1>2, <1>6, CommandsFollow DEF HasTables
  <2>2. SizedAs(whole, b, p)
    BY <2>1 DEF ReadInFull
  <2>3. whole[p + 2] = 6
    BY <2>1, <2>2, SizedAsIs, ZenonT(60)
  <2>4. whole[p + 5] \in Int /\ whole[p + 6] \in Int
    <3>1. \A m \in 1..6 : whole[p + m] \in Int
      BY <1>2, <2>1, <2>3, ReadInFullIs
    <3> QED BY <3>1
  <2>5. p + 4 + 1 = p + 5 /\ p + 5 + 1 = p + 6
    OBVIOUS
  <2>6. o \in Int /\ n \in Int
    BY <1>10, <2>4, <2>5
  <2>7. o >= 0 /\ o + n =< Len(whole)
    BY <1>10 DEF HasTables
  <2>8. n > 0
    BY <1>11, <2>6
  <2> QED BY <2>6, <2>7, <2>8
<1>13. Strings(Filled) = Words(o, n)
  <2>1. i \in Commands(whole, b) /\ p = Starts(whole, b)[i] /\ whole[p + 1] = Symtab
    BY <1>5, <1>6 DEF HasTables
  <2>2. o + n =< Len(file)
    BY <1>2, <1>12
  <2> QED BY <1>1, <1>10, <1>12, <2>1, <2>2, StringsAre, ZenonT(60)
<1>14. index \in 0..Len(Strings(Filled)) - 1 /\ Strings(Filled)[index + 1] = whole[o + index + 1]
  <2>1. Len(Strings(Filled)) = n /\ Strings(Filled)[index + 1] = file[o + index + 1]
    <3>1. o + n =< Len(file)
      BY <1>2, <1>12
    <3>2. Len(Words(o, n)) = n /\ Words(o, n)[index + 1] = file[o + index + 1]
      BY <1>11, <1>12, <3>1, WordsWithin DEF ParserInv
    <3> QED BY <1>13, <3>2
  <2>2. file[o + index + 1] = whole[o + index + 1]
    BY <1>2
  <2> QED BY <1>11, <2>1, <2>2
<1>15. PICK m \in Nat : /\ m = object.symnum /\ m # 0 /\ symbol \in 0..(m - 1) /\ symbol + 1 \in 1..m
                        /\ Len(object.symbols) = m /\ object.symbols[symbol + 1].index = index
  <2>1. PICK m \in Nat : m = object.symnum /\ m # 0 /\ symbol \in 0..(m - 1) /\ symbol + 1 \in 1..m
    BY <1>4, <1>11
  <2>2. /\ Len(object.symbols) = m
        /\ object.symbols[symbol + 1].index = file[InTable(object.symoff, w, symbol + 1, 0) + 1]
    BY <1>3, <2>1 DEF TablesTaken
  <2>3. InTable(object.symoff, w, symbol + 1, 0) + 1 = object.symoff + symbol * w + 1
    BY <1>3, <1>4, <2>1 DEF InTable
  <2> QED BY <1>2, <1>9, <2>1, <2>2, <2>3
<1>16. h \in 1..Len(object.dynsymbols) /\ object.dynsymbols[h] = symbol
  <2>1. q + 15 + 1 = q + 16
    OBVIOUS
  <2>2. h \in 1..object.indirsymnum
    BY <1>7, <2>1
  <2>3. object.indirsymnum # 0
    BY <1>4, <2>2
  <2> QED BY <1>2, <1>8, <2>2, <2>3 DEF TablesTaken
<1>17. /\ Named(object.symbols, Filled) \in NamedSymbols /\ Len(Named(object.symbols, Filled)) = m
       /\ Named(object.symbols, Filled)[symbol + 1].name = whole[o + index + 1]
  <2>1. Filled \in Seq(SectionRecords)
    BY FilledIs DEF ParserInv
  <2> QED BY <1>4, <1>14, <1>15, <2>1, NamedIs
<1>18. Having(Filled, "SYMBOL_STUBS") # {}
  <2>1. PICK s \in AllSections(whole, b) : s.type = "SYMBOL_STUBS"
    BY DEF HasTables
  <2>2. s \in Briefs(Filled)
    BY <1>1, <2>1, FilledFound
  <2>3. PICK k \in DOMAIN Filled : s = Brief(Filled[k])
    BY <2>2 DEF Briefs
  <2>4. Filled[k].type = "SYMBOL_STUBS"
    BY <2>1, <2>3 DEF Brief, Listed
  <2> QED BY <2>4 DEF Having
<1>19. PICK N : N = Named(object.symbols, Filled)
  OBVIOUS
<1>20. Stubbed(object.dynsymbols, N, Filled)[h].name = whole[o + index + 1]
  <2>1. Filled \in Seq(SectionRecords)
    BY FilledIs DEF ParserInv
  <2>2. symbol \in 0..Len(N) - 1
    BY <1>15, <1>17, <1>19
  <2>3. Stubbed(object.dynsymbols, N, Filled)[h].name = N[symbol + 1].name
    BY <1>4, <1>16, <1>17, <1>18, <1>19, <2>1, <2>2, StubbedIs
  <2> QED BY <1>17, <1>19, <2>3
<1>21. N # <<>>
  BY <1>15, <1>17, <1>19
<1> QED BY <1>19, <1>20, <1>21 DEF Finished

-----------------------------------------------------------------------------
\* The tables are those of the file, whatever the parser does.
LEMMA TablesTakenKept ==
  ASSUME ParserInv, Progress, TablesTaken, UnderstoodFile, ParserNext
  PROVE  TablesTaken'
<1>1. CASE phase' \notin {"dynsymbols", "filling"}
  BY <1>1 DEF TablesTaken
<1>2. CASE ReadSymbols
  <2>1. PICK n, w : n = object.symnum /\ w = EntryWords
    OBVIOUS
  <2>2. phase = "symbols"
    BY <1>2 DEF ReadSymbols
  <2>3. order = "little"
    BY <2>2, AllCommandsRead DEF Reading
  <2>4. /\ phase' = "dynsymbols" /\ Len(object'.symbols) = n
        /\ object'.bits = object.bits /\ object'.symoff = object.symoff /\ object'.symnum = n
        /\ \A k \in 1..n : object'.symbols[k] = [index |-> file[InTable(object.symoff, w, k, 0) + 1],
                                                 value |-> file[InTable(object.symoff, w, k, 0) + 3]]
        /\ file' = file
    BY <1>2, <2>1, <2>3, ReadSymbolsIs
  <2>5. EntryWords' = w
    BY <2>1, <2>4 DEF EntryWords
  <2>6. ASSUME NEW k \in 1..n PROVE object'.symbols[k].index = file[InTable(object.symoff, w, k, 0) + 1]
    <3>1. PICK x, y, z : /\ x = object'.symbols[k] /\ y = file[InTable(object.symoff, w, k, 0) + 1]
                         /\ z = file[InTable(object.symoff, w, k, 0) + 3]
      OBVIOUS
    <3>2. x = [index |-> y, value |-> z]
      BY <2>4, <3>1
    <3>3. x.index = y
      BY <3>2
    <3> QED BY <3>1, <3>3
  <2> QED BY <2>4, <2>5, <2>6 DEF TablesTaken, InTable
<1>3. CASE ReadDynSymbols
  <2>1. phase = "dynsymbols"
    BY <1>3 DEF ReadDynSymbols
  <2>2. order = "little"
    BY <2>1, AllCommandsRead DEF Reading
  <2>3. /\ phase' = "filling" /\ file' = file
        /\ object'.bits = object.bits /\ object'.symoff = object.symoff /\ object'.symnum = object.symnum
        /\ object'.symbols = object.symbols
        /\ object'.indirsymoff = object.indirsymoff /\ object'.indirsymnum = object.indirsymnum
        /\ Len(object'.dynsymbols) = object.indirsymnum
        /\ \A h \in 1..object.indirsymnum : object'.dynsymbols[h] = file[object.indirsymoff + h]
    BY <1>3, <2>2, ReadDynSymbolsIs
  <2>4. EntryWords' = EntryWords
    BY <2>3 DEF EntryWords
  <2> QED BY <2>1, <2>3, <2>4 DEF TablesTaken, InTable
<1>4. CASE NoSymbols
  <2>1. /\ \/ phase = "symbols" /\ object.symnum = 0 /\ phase' = "dynsymbols"
           \/ phase = "dynsymbols" /\ object.indirsymnum = 0 /\ phase' = "filling"
        /\ object' = object /\ file' = file
    BY <1>4 DEF NoSymbols
  <2>2. EntryWords' = EntryWords
    BY <2>1 DEF EntryWords
  <2> QED BY <2>1, <2>2 DEF TablesTaken, InTable
<1>5. ReadSymbols \/ ReadDynSymbols \/ NoSymbols \/ phase' \notin {"dynsymbols", "filling"}
  <2>1. CASE \E n : TakeCommand(n)
    <3>1. AtCommand => phase = "commands"
      BY DEF AtCommand
    <3>2. phase' = phase
      BY <2>1 DEF TakeCommand
    <3>3. phase = "commands" \/ ReadSymbols \/ ReadDynSymbols \/ NoSymbols \/ phase' \notin {"dynsymbols", "filling"}
      BY <3>1 DEF ParserNext, Detect, DetectFails, DetectThin, DetectFat, ReadArchs, ReadArchsFails, ParseHeader,
           ParseHeaderFails, ParseDone, CommandFails, SegmentFails, PassCommand, LoadSegment, LoadSymtab, LoadDysymtab,
           LoadVersionMin, LoadLinkEdit, CommandsDone, SymbolsFail, FinishObject, Fail
    <3> QED BY <3>2, <3>3
  <2>2. CASE Fail
    BY <2>2 DEF Fail
  <2>3. CASE ~Fail /\ ~\E n : TakeCommand(n)
    BY <2>3 DEF ParserNext, Detect, DetectFails, DetectThin, DetectFat, ReadArchs, ReadArchsFails, ParseHeader,
         ParseHeaderFails, ParseDone, CommandFails, SegmentFails, PassCommand, LoadSegment, LoadSymtab, LoadDysymtab,
         LoadVersionMin, LoadLinkEdit, CommandsDone, SymbolsFail, FinishObject
  <2> QED BY <2>1, <2>2, <2>3
<1> QED BY <1>1, <1>2, <1>3, <1>4, <1>5

\* The parser adds objects, and changes none.
LEMMA ObjectsGrow ==
  ASSUME ParserNext
  PROVE  objects' = objects \/ FinishObject
<1>1. CASE \E n : TakeCommand(n)
  BY <1>1 DEF TakeCommand
<1>2. CASE Fail
  BY <1>2 DEF Fail
<1>3. CASE ~Fail /\ ~\E n : TakeCommand(n)
  BY <1>3 DEF ParserNext, Detect, DetectFails, DetectThin, DetectFat, ReadArchs, ReadArchsFails, ParseHeader, ParseHeaderFails,
       ParseDone, CommandFails, SegmentFails, PassCommand, LoadSegment, LoadSymtab, LoadDysymtab, LoadVersionMin, LoadLinkEdit,
       CommandsDone, ReadSymbols, ReadDynSymbols, NoSymbols, SymbolsFail
<1> QED BY <1>1, <1>2, <1>3

\* And each that it adds has the right names.
LEMMA NamesKept ==
  ASSUME ParserInv, Progress, TablesTaken, NamesRight, UnderstoodFile, ParserNext
  PROVE  NamesRight'
<1>1. whole' = whole /\ file' = file
  BY ParserProgress
<1> SUFFICES ASSUME Len(file) = Len(whole), NEW i \in DOMAIN objects'
             PROVE  StubNames(whole, Bases(whole)[i], objects'[i])
  BY <1>1 DEF NamesRight
<1>2. CASE objects' = objects
  BY <1>2 DEF NamesRight
<1>3. CASE FinishObject
  <2>1. phase = "filling" /\ objects' = Append(objects, Finished)
    BY <1>3, FinishObjectIs
  <2>2. PICK b : b = archs[1] /\ b = Bases(whole)[Len(objects) + 1]
    BY <2>1, AllCommandsRead
  <2>3. objects \in Seq(Parsed) /\ Finished \in Parsed
    BY FinishedType DEF ParserInv, ParserTypeOK
  <2>4. CASE i = Len(objects) + 1
    <3>1. objects'[i] = Finished
      BY <2>1, <2>3, <2>4
    <3> QED BY <2>1, <2>2, <2>4, <3>1, FinishNames
  <2>5. CASE i # Len(objects) + 1
    <3>1. i \in DOMAIN objects /\ objects'[i] = objects[i]
      BY <2>1, <2>3, <2>5
    <3> QED BY <3>1 DEF NamesRight
  <2> QED BY <2>4, <2>5
<1> QED BY <1>2, <1>3, ObjectsGrow

-----------------------------------------------------------------------------
(***************************************************************************)
(* The target versions                                                     *)
(***************************************************************************)

\* The target versions by the format are at the sections of their platform.
LEMMA TargetSections ==
  ASSUME NEW f, NEW b, NEW platform \in Platforms
  PROVE  /\ \A s \in AllSections(f, b) : s.type = platform => s.offset \in TargetsIn(f, b, platform)
         /\ \A p \in TargetsIn(f, b, platform) : Listed(platform, 2, p) \in AllSections(f, b)
<1>1. PICK start : start = Starts(f, b)
  OBVIOUS
<1>2. ASSUME NEW p, NEW s \in SectionsOf(f, b, p), s.type = platform
      PROVE  f[p + 1] \in VersionMin /\ VersionSection[f[p + 1]] = platform /\ s.offset = p + 2
  <2>1. platform \notin {"TEXT", "SYMBOL_STUBS", "CSTRING", "STRING", "SYMBOLS", "DYN_SYMBOLS", "FUNC_STARTS", "CODE_SIG"}
    BY PlatformsAre
  <2>2. s \in Own(f, b, p)
    BY <1>2, <2>1 DEF Own
  <2>3. CASE f[p + 1] \in VersionMin
    <3>1. Own(f, b, p) = {Listed(VersionSection[f[p + 1]], 2, p + 2)}
      BY <2>3, OwnIs, ZenonT(60)
    <3> QED BY <1>2, <2>2, <2>3, <3>1 DEF Listed
  <2>4. CASE f[p + 1] \in Segment
    <3>1. SectionsOf(f, b, p) = SectionsInSegment(f, b, p)
      BY <2>4, SegmentSections
    <3>2. PICK n, z, o : n \in DOMAIN Kinds /\ s = Listed(Kinds[n], z, o)
      BY <3>1 DEF SectionsInSegment
    <3>3. Kinds[n] \in {"TEXT", "SYMBOL_STUBS", "CSTRING"}
      BY <3>2 DEF Kinds, Names
    <3> QED BY <1>2, <2>1, <3>2, <3>3 DEF Listed
  <2>5. CASE f[p + 1] = FunctionStarts
    <3>1. Own(f, b, p) = {Listed("FUNC_STARTS", f[p + 3 + 1], b + f[p + 2 + 1])}
      BY <2>5, OwnIs, ZenonT(60)
    <3> QED BY <1>2, <2>1, <2>2, <3>1 DEF Listed
  <2>6. CASE f[p + 1] = CodeSignature
    <3>1. Own(f, b, p) = {Listed("CODE_SIG", f[p + 3 + 1], b + f[p + 2 + 1])}
      BY <2>6, OwnIs, ZenonT(60)
    <3> QED BY <1>2, <2>1, <2>2, <3>1 DEF Listed
  <2>7. CASE f[p + 1] = Symtab
    <3>1. Own(f, b, p) = {Listed("STRING", f[p + 5 + 1], b + f[p + 4 + 1])}
      BY <2>7, OwnIs, ZenonT(60)
    <3> QED BY <1>2, <2>1, <2>2, <3>1 DEF Listed
  <2>8. CASE f[p + 1] \notin Segment \cup VersionMin \cup {FunctionStarts, CodeSignature, Symtab}
    <3>1. Own(f, b, p) = {}
      BY <2>8, OwnIs, ZenonT(60)
    <3> QED BY <2>2, <3>1
  <2> QED BY <2>3, <2>4, <2>5, <2>6, <2>7, <2>8
<1>3. ASSUME NEW s \in AllSections(f, b), s.type = platform PROVE s.offset \in TargetsIn(f, b, platform)
  <2>1. PICK i \in Commands(f, b) : s \in SectionsOf(f, b, start[i])
    BY <1>1, <1>3 DEF AllSections
  <2>2. f[start[i] + 1] \in VersionMin /\ VersionSection[f[start[i] + 1]] = platform /\ s.offset = start[i] + 2
    BY <1>2, <1>3, <2>1
  <2> QED BY <1>1, <2>2 DEF TargetsIn
<1>4. ASSUME NEW p \in TargetsIn(f, b, platform) PROVE Listed(platform, 2, p) \in AllSections(f, b)
  <2>1. PICK i \in Commands(f, b) :
          p = start[i] + 2 /\ f[start[i] + 1] \in VersionMin /\ VersionSection[f[start[i] + 1]] = platform
    BY <1>1, <1>4 DEF TargetsIn
  <2>2. SectionsOf(f, b, start[i]) = {Listed(VersionSection[f[start[i] + 1]], 2, start[i] + 2)}
    BY <2>1, SectionsOfIs, ZenonT(60)
  <2>3. Listed(platform, 2, p) \in SectionsOf(f, b, start[i])
    BY <2>1, <2>2
  <2> QED BY <1>1, <2>3 DEF AllSections
<1> QED BY <1>3, <1>4

\* The lowest number is the only one of its kind.
LEMMA LowestIs ==
  ASSUME NEW S, \A x \in S : x \in Int, NEW m \in S, \A y \in S : m =< y
  PROVE  Lowest(S) = m
<1>1. \A x \in S : (\A y \in S : x =< y) => x = m
  OBVIOUS
<1>2. \E x \in S : \A y \in S : x =< y
  OBVIOUS
<1> DEFINE l == CHOOSE x \in S : \A y \in S : x =< y
<1>3. l \in S /\ \A y \in S : l =< y
  BY <1>2
<1> HIDE DEF l
<1>4. l = m
  BY <1>1, <1>3
<1> QED BY <1>4 DEF l, Lowest

\* The first section of the platform holds the first target version, where the
\* sections are those of the format.
FirstVersion(sections, platform) == sections[Lowest(Having(sections, platform))]

\* The first section of the platform holds the target version of its first command.
LEMMA FirstVersionIs ==
  ASSUME NEW f, NEW b, NEW platform \in Platforms, NEW sections \in Seq(SectionRecords), NEW end,
         VersionsBefore(sections, end), Briefs(sections) = AllSections(f, b),
         TargetsIn(f, b, platform) # {}
  PROVE  /\ Having(sections, platform) # {}
         /\ Lowest(TargetsIn(f, b, platform)) = FirstVersion(sections, platform).offset
         /\ FirstVersion(sections, platform).offset \in TargetsIn(f, b, platform)
<1> DEFINE ps == TargetsIn(f, b, platform)
<1>1. \A j \in DOMAIN sections : sections[j].type = platform => sections[j].offset \in ps
  <2> SUFFICES ASSUME NEW j \in DOMAIN sections, sections[j].type = platform PROVE sections[j].offset \in ps
    OBVIOUS
  <2>1. Brief(sections[j]) \in AllSections(f, b)
    BY DEF Briefs
  <2>2. Brief(sections[j]).type = platform /\ Brief(sections[j]).offset = sections[j].offset
    BY DEF Brief, Listed
  <2> QED BY <2>1, <2>2, TargetSections
<1>2. ASSUME NEW p \in ps PROVE \E j \in DOMAIN sections : sections[j].type = platform /\ sections[j].offset = p
  <2>1. Listed(platform, 2, p) \in Briefs(sections)
    BY TargetSections
  <2>2. PICK j \in DOMAIN sections : Brief(sections[j]) = Listed(platform, 2, p)
    BY <2>1 DEF Briefs
  <2>3. Brief(sections[j]).type = platform /\ Brief(sections[j]).offset = p
    BY <2>2 DEF Listed
  <2> QED BY <2>3 DEF Brief, Listed
<1>3. Having(sections, platform) # {}
  BY <1>2 DEF Having
<1>4. PICK i \in DOMAIN sections :
        /\ i = Lowest(Having(sections, platform)) /\ sections[i].type = platform
        /\ \A j \in DOMAIN sections : sections[j].type = platform => i =< j
  BY <1>3, FirstOfIs
<1>5. sections[i].offset \in ps
  BY <1>1, <1>4
<1>6. ASSUME NEW p \in ps PROVE sections[i].offset =< p /\ p \in Int
  <2>1. PICK j \in DOMAIN sections : sections[j].type = platform /\ sections[j].offset = p
    BY <1>2
  <2>2. i =< j /\ i \in Int /\ j \in Int
    BY <1>4, <2>1
  <2>3. i < j => sections[i].offset < sections[j].offset
    BY <1>4, <2>1 DEF VersionsBefore
  <2>4. sections[i].offset \in Nat /\ sections[j].offset \in Nat
    BY <1>4, <2>1 DEF VersionsBefore
  <2> QED BY <2>1, <2>2, <2>3, <2>4
<1>7. Lowest(ps) = sections[i].offset
  <2> HIDE DEF ps
  <2> QED BY <1>5, <1>6, LowestIs
<1> QED BY <1>3, <1>4, <1>5, <1>7 DEF FirstVersion

-----------------------------------------------------------------------------
(***************************************************************************)
(* What dispar --patch-...-sdk-version keeps                               *)
(***************************************************************************)
Section(i) == objects[i].sections[Lowest(Candidates(i))]

\* The words of all versions: those that are patched, and those of the file.
VersionWords ==
  \A i \in DOMAIN objects : \A j \in DOMAIN objects[i].sections :
    LET s == objects[i].sections[j] IN
    s.type \in Platforms =>
      /\ Len(s.data) = 2
      /\ s.data[1] = IF <<i, j>> \in patched THEN Encode(request.version) ELSE file[s.offset + 1]

PatchedAre ==
  /\ patched # {} => request.version # List
  /\ \A x \in patched :
       \E i \in DOMAIN objects : i < next /\ Candidates(i) # {} /\ x = <<i, Lowest(Candidates(i))>>

\* The objects that had their turn are patched, or had the version.
Handled ==
  request.version # List =>
    \A i \in DOMAIN objects : i < next /\ Candidates(i) # {} =>
      \/ <<i, Lowest(Candidates(i))>> \in patched
      \/ Decode(file[Section(i).offset + 1]) = request.version

\* In the end each object has the version in the file, or had it.
Effect ==
  \A i \in DOMAIN objects : Candidates(i) # {} =>
    LET p == Section(i).offset + 1 IN
    file[p] = Encode(request.version) \/ (Decode(whole[p]) = request.version /\ file[p] = whole[p])

\* The inductive invariant of the whole.  While the parser runs it is that of the parser;
\* afterwards it says what was patched so far, and with what effect.
PatchInv ==
  /\ PatchTypeOK /\ FindsAllSections /\ NamesRight
  /\ Done /\ UnderstoodFile => Bases(whole) \in Seq(Int)
  /\ \A i \in DOMAIN objects : VersionsBefore(objects[i].sections, Len(file))
  /\ step # "exited" => CutOff /\ exit = 0
  /\ step = "loading" => Versions /\ patched = {} /\ next = 1 /\ (UnderstoodFile => Progress /\ TablesTaken)
  /\ step \in {"patching", "saving"} => phase = "parsed" /\ VersionWords /\ PatchedAre /\ Handled
  /\ step = "saving" => next = Len(objects) + 1
  /\ step = "exited" /\ exit = 0 => phase = "parsed" /\ (request.version # List => Effect)

-----------------------------------------------------------------------------
\* The section of an object that is looked at.
LEMMA SectionIs ==
  ASSUME ParserTypeOK, request \in Requests, NEW i \in DOMAIN objects, Candidates(i) # {}
  PROVE  /\ Lowest(Candidates(i)) \in DOMAIN objects[i].sections
         /\ Section(i).type = request.platform /\ request.platform \in Platforms
         /\ Section(i) \in SectionRecords /\ objects[i].sections \in Seq(SectionRecords)
         /\ Section(i) = FirstVersion(objects[i].sections, request.platform)
<1>1. objects[i] \in Parsed
  BY DEF ParserTypeOK
<1>2. objects[i].sections \in Seq(SectionRecords)
  BY <1>1 DEF Parsed
<1>3. PICK s : s = objects[i].sections /\ s \in Seq(SectionRecords)
  BY <1>2
<1>4. PICK k \in DOMAIN s : k = Lowest(Having(s, request.platform)) /\ s[k].type = request.platform
  BY <1>3, FirstOfIs DEF Candidates
<1>5. Lowest(Candidates(i)) = k /\ Section(i) = s[k] /\ s[k] \in SectionRecords
  BY <1>3, <1>4 DEF Section, Candidates
<1>6. request.platform \in Platforms
  BY RequestAssumption
<1> QED BY <1>3, <1>4, <1>5, <1>6 DEF FirstVersion

\* A sequence with one element changed.
LEMMA OneChanged ==
  ASSUME NEW S, NEW s \in Seq(S), NEW i \in DOMAIN s, NEW v \in S,
         NEW new, new = [s EXCEPT ![i] = v]
  PROVE  /\ new \in Seq(S) /\ Len(new) = Len(s) /\ DOMAIN new = DOMAIN s
         /\ new[i] = v /\ \A k \in DOMAIN s : k # i => new[k] = s[k]
<1>1. i \in 1..Len(s) /\ DOMAIN s = 1..Len(s)
  OBVIOUS
<1>2. [s EXCEPT ![i] = v] \in Seq(S) /\ Len([s EXCEPT ![i] = v]) = Len(s)
  BY <1>1, ExceptSeq
<1> QED BY <1>1, <1>2

\* The first word of section j of object i is w; other sections, and the names of stubs, are as they were.
WordReplaced(os, new, i, j, w) ==
  /\ Len(new) = Len(os) /\ DOMAIN new = DOMAIN os
  /\ \A k \in DOMAIN os :
       /\ new[k].dynsymbols = os[k].dynsymbols
       /\ DOMAIN new[k].sections = DOMAIN os[k].sections
       /\ \A l \in DOMAIN os[k].sections :
            LET s == os[k].sections[l]
                n == new[k].sections[l]
            IN
            /\ n.type = s.type /\ n.size = s.size /\ n.offset = s.offset
            /\ Len(n.data) = Len(s.data)
            /\ n.data[1] = IF k = i /\ l = j THEN w ELSE s.data[1]

\* Only a word of data is new in the objects.
LEMMA PatchedObjects ==
  ASSUME NEW os \in Seq(Parsed), NEW i \in DOMAIN os, NEW j \in DOMAIN os[i].sections,
         Len(os[i].sections[j].data) = 2, NEW w \in Int,
         NEW new, new = [os EXCEPT ![i].sections[j].data[1] = w]
  PROVE  new \in Seq(Parsed) /\ WordReplaced(os, new, i, j, w)
<1>1. PICK o : o = os[i] /\ o \in Parsed
  OBVIOUS
<1>2. PICK ss : ss = o.sections /\ ss \in Seq(SectionRecords)
  BY <1>1 DEF Parsed
<1>3. PICK s : s = ss[j] /\ s \in SectionRecords
  BY <1>1, <1>2
<1>4. PICK d : d = s.data /\ d \in Seq(Int) /\ Len(d) = 2
  BY <1>1, <1>2, <1>3 DEF SectionRecords
<1>5. PICK d2 : d2 = [d EXCEPT ![1] = w] /\ d2 \in Seq(Int) /\ Len(d2) = 2 /\ d2[1] = w
  <2>1. 1 \in DOMAIN d
    BY <1>4
  <2>2. PICK r : r = [d EXCEPT ![1] = w]
    OBVIOUS
  <2>3. r \in Seq(Int) /\ Len(r) = Len(d) /\ r[1] = w
    BY <1>4, <2>1, <2>2, OneChanged
  <2> QED BY <1>4, <2>2, <2>3
<1>6. PICK s2 : /\ s2 = [s EXCEPT !.data = d2] /\ s2 \in SectionRecords
                /\ s2.type = s.type /\ s2.size = s.size /\ s2.offset = s.offset /\ s2.data = d2
  <2>1. PICK r : r = [s EXCEPT !.data = d2]
    OBVIOUS
  <2>2. r \in SectionRecords
    BY <1>3, <1>5, <2>1 DEF SectionRecords
  <2>3. r.type = s.type /\ r.size = s.size /\ r.offset = s.offset /\ r.data = d2
    BY <1>3, <2>1 DEF SectionRecords
  <2> QED BY <2>1, <2>2, <2>3
<1>7. PICK ss2 : /\ ss2 = [ss EXCEPT ![j] = s2] /\ ss2 \in Seq(SectionRecords) /\ DOMAIN ss2 = DOMAIN ss
                 /\ ss2[j] = s2 /\ \A l \in DOMAIN ss : l # j => ss2[l] = ss[l]
  <2>1. j \in DOMAIN ss
    BY <1>1, <1>2
  <2>2. PICK r : r = [ss EXCEPT ![j] = s2]
    OBVIOUS
  <2>3. /\ r \in Seq(SectionRecords) /\ DOMAIN r = DOMAIN ss
        /\ r[j] = s2 /\ \A l \in DOMAIN ss : l # j => r[l] = ss[l]
    BY <1>2, <1>6, <2>1, <2>2, OneChanged
  <2> QED BY <2>2, <2>3
<1>8. PICK o2 : o2 = [o EXCEPT !.sections = ss2] /\ o2 \in Parsed /\ o2.sections = ss2 /\ o2.dynsymbols = o.dynsymbols
  <2>1. PICK r : r = [o EXCEPT !.sections = ss2]
    OBVIOUS
  <2>2. r \in Parsed
    BY <1>1, <1>7, <2>1 DEF Parsed
  <2>3. r.sections = ss2 /\ r.dynsymbols = o.dynsymbols
    BY <1>1, <2>1 DEF Parsed
  <2> QED BY <2>1, <2>2, <2>3
<1>9. PICK ns : /\ ns = [os EXCEPT ![i] = o2] /\ ns \in Seq(Parsed) /\ DOMAIN ns = DOMAIN os /\ Len(ns) = Len(os)
                 /\ ns[i] = o2 /\ \A k \in DOMAIN os : k # i => ns[k] = os[k]
  <2>1. PICK r : r = [os EXCEPT ![i] = o2]
    OBVIOUS
  <2>2. /\ r \in Seq(Parsed) /\ DOMAIN r = DOMAIN os /\ Len(r) = Len(os)
        /\ r[i] = o2 /\ \A k \in DOMAIN os : k # i => r[k] = os[k]
    BY <1>8, <2>1, OneChanged
  <2> QED BY <2>1, <2>2
<1>10. new = ns
  BY <1>1, <1>2, <1>3, <1>4, <1>5, <1>6, <1>7, <1>8, <1>9
<1>11. ASSUME NEW k \in DOMAIN os, NEW l \in DOMAIN os[k].sections
       PROVE  LET r == os[k].sections[l]
                  n == new[k].sections[l]
              IN
              /\ DOMAIN new[k].sections = DOMAIN os[k].sections
              /\ n.type = r.type /\ n.size = r.size /\ n.offset = r.offset
              /\ Len(n.data) = Len(r.data)
              /\ n.data[1] = IF k = i /\ l = j THEN w ELSE r.data[1]
  <2>1. CASE k # i
    BY <1>9, <1>10, <2>1
  <2>4. os[i].sections = ss /\ new[i].sections = ss2 /\ DOMAIN ss2 = DOMAIN ss
    BY <1>1, <1>2, <1>7, <1>8, <1>9, <1>10
  <2>2. CASE k = i /\ l # j
    <3>1. l \in DOMAIN ss /\ ss2[l] = ss[l]
      BY <1>7, <2>2, <2>4
    <3> QED BY <2>2, <2>4, <3>1
  <2>3. CASE k = i /\ l = j
    <3>1. os[k].sections[l] = s /\ new[k].sections[l] = s2
      BY <1>3, <1>7, <2>3, <2>4
    <3>2. Len(s2.data) = Len(s.data) /\ s2.data[1] = w
      BY <1>4, <1>5, <1>6
    <3>3. s2.type = s.type /\ s2.size = s.size /\ s2.offset = s.offset
      BY <1>6
    <3>4. DOMAIN new[k].sections = DOMAIN os[k].sections
      BY <2>3, <2>4
    <3> QED BY <2>3, <3>1, <3>2, <3>3, <3>4
  <2> QED BY <2>1, <2>2, <2>3
<1>12. \A k \in DOMAIN os : new[k].dynsymbols = os[k].dynsymbols /\ DOMAIN new[k].sections = DOMAIN os[k].sections
  BY <1>1, <1>2, <1>7, <1>8, <1>9, <1>10
<1>13. new \in Seq(Parsed) /\ Len(new) = Len(os) /\ DOMAIN new = DOMAIN os
  BY <1>9, <1>10
<1> QED BY <1>11, <1>12, <1>13, ZenonT(60) DEF WordReplaced

-----------------------------------------------------------------------------
\* Sections of the same kinds, at the same places.
SameSections ==
  /\ Len(objects') = Len(objects) /\ DOMAIN objects' = DOMAIN objects
  /\ \A i \in DOMAIN objects :
       /\ DOMAIN objects'[i].sections = DOMAIN objects[i].sections
       /\ \A j \in DOMAIN objects[i].sections :
            LET s == objects[i].sections[j]
                n == objects'[i].sections[j]
            IN  n.type = s.type /\ n.size = s.size /\ n.offset = s.offset

\* A patch changes words of sections, and no type, size or offset: the same sections
\* are candidates.
LEMMA SectionsStay ==
  ASSUME ParserTypeOK, request \in Requests, SameSections, request' = request, whole' = whole, phase' = phase
  PROVE  /\ \A i \in DOMAIN objects :
              /\ Candidates(i)' = Candidates(i)
              /\ Candidates(i) # {} => Section(i)'.offset = Section(i).offset
              /\ \A end : VersionsBefore(objects[i].sections, end) => VersionsBefore(objects'[i].sections, end)
         /\ FindsAllSections => FindsAllSections'
<1>1. ASSUME NEW i \in DOMAIN objects
      PROVE  /\ Candidates(i)' = Candidates(i)
             /\ Candidates(i) # {} => Section(i)'.offset = Section(i).offset
             /\ \A end : VersionsBefore(objects[i].sections, end) => VersionsBefore(objects'[i].sections, end)
             /\ Briefs(objects'[i].sections) = Briefs(objects[i].sections)
  <2>1. PICK s, n : s = objects[i].sections /\ n = objects'[i].sections
    OBVIOUS
  <2>2. /\ DOMAIN n = DOMAIN s
        /\ \A j \in DOMAIN s : n[j].type = s[j].type /\ n[j].size = s[j].size /\ n[j].offset = s[j].offset
    BY <2>1 DEF SameSections
  <2>3. Having(n, request.platform) = Having(s, request.platform)
    BY <2>2 DEF Having
  <2>4. Candidates(i)' = Candidates(i)
    BY <2>1, <2>3 DEF Candidates
  <2>5. Candidates(i) # {} => Section(i)'.offset = Section(i).offset
    <3>1. SUFFICES ASSUME Candidates(i) # {} PROVE Section(i)'.offset = Section(i).offset
      OBVIOUS
    <3>2. PICK k \in DOMAIN s : k = Lowest(Candidates(i))
      BY <2>1, <3>1, SectionIs
    <3>3. Section(i) = s[k] /\ Section(i)' = n[k]
      BY <2>1, <2>4, <3>2 DEF Section
    <3> QED BY <2>2, <3>3
  <2>6. ASSUME NEW end, VersionsBefore(s, end) PROVE VersionsBefore(n, end)
    BY <2>2, <2>6 DEF VersionsBefore
  <2>7. Briefs(n) = Briefs(s)
    <3>1. \A j \in DOMAIN s : Brief(n[j]) = Brief(s[j])
      BY <2>2 DEF Brief
    <3> QED BY <2>2, <3>1 DEF Briefs
  <2> QED BY <2>1, <2>4, <2>5, <2>6, <2>7
<1>2. ASSUME FindsAllSections PROVE FindsAllSections'
  <2>1. Done' = Done /\ UnderstoodFile' = UnderstoodFile
    BY DEF Done, UnderstoodFile
  <2>2. SUFFICES ASSUME Done, UnderstoodFile
                 PROVE  /\ Len(objects') = Len(Bases(whole))
                        /\ \A i \in DOMAIN objects' : Briefs(objects'[i].sections) = AllSections(whole, Bases(whole)[i])
    BY <2>1 DEF FindsAllSections, Briefs
  <2>3. /\ Len(objects) = Len(Bases(whole))
        /\ \A i \in DOMAIN objects : Briefs(objects[i].sections) = AllSections(whole, Bases(whole)[i])
    BY <1>2, <2>2 DEF FindsAllSections, Briefs
  <2> QED BY <1>1, <2>3 DEF SameSections
<1> QED BY <1>1, <1>2

\* The parser does not write.
LEMMA ParserReads ==
  ASSUME ParserNext
  PROVE  whole' = whole /\ file' = file
<1>1. CASE \E n : TakeCommand(n)
  BY <1>1 DEF TakeCommand
<1>2. CASE Fail
  BY <1>2 DEF Fail
<1>3. CASE ~Fail /\ ~\E n : TakeCommand(n)
  BY <1>3 DEF ParserNext, Detect, DetectFails, DetectThin, DetectFat, ReadArchs, ReadArchsFails, ParseHeader, ParseHeaderFails,
       ParseDone, CommandFails, SegmentFails, PassCommand, LoadSegment, LoadSymtab, LoadDysymtab, LoadVersionMin, LoadLinkEdit,
       CommandsDone, ReadSymbols, ReadDynSymbols, NoSymbols, SymbolsFail, FinishObject
<1> QED BY <1>1, <1>2, <1>3

\* In the beginning.
LEMMA PatchStarts ==
  ASSUME PatchInit
  PROVE  PatchInv
<1>1. PICK f \in Files : whole = f.words /\ file = SubSeq(f.words, 1, f.length)
  BY DEF PatchInit, ParserInit
<1>2. PICK n \in Nat : /\ n = Len(whole) /\ whole \in Seq(Int) /\ f.length \in 0..n
  BY <1>1, FilesAssumption
<1>3. PICK l \in 0..n : l = f.length /\ file = SubSeq(whole, 1, l)
  BY <1>1, <1>2
<1>4. file \in Seq(Int) /\ Len(file) = l /\ \A k \in 1..l : file[k] = whole[k]
  <2>1. \A i \in 1..l : whole[i] \in Int
    BY <1>2, <1>3
  <2>2. /\ file \in Seq(Int) /\ Len(file) = IF 1 <= l THEN l - 1 + 1 ELSE 0
        /\ \A i \in 1..(l - 1 + 1) : file[i] = whole[1 + i - 1]
    BY <1>3, <2>1, SubSeqProperties
  <2>3. l - 1 + 1 = l /\ \A i \in 1..l : 1 + i - 1 = i
    OBVIOUS
  <2> QED BY <1>3, <2>2, <2>3
<1>5. /\ phase = "detecting" /\ pos = 0 /\ order = "little" /\ archs = <<>> /\ left = 0 /\ object = NoObject /\ objects = <<>>
      /\ request \in Requests /\ step = "loading" /\ next = 1 /\ patched = {} /\ exit = 0
  BY DEF PatchInit, ParserInit
<1>6. object \in Opened
  <2>1. /\ <<>> \in Seq(SectionRecords) /\ <<>> \in Seq([index : Int, value : Int]) /\ <<>> \in Seq(Int)
    OBVIOUS
  <2> QED BY <1>5, <2>1 DEF NoObject, Opened
<1>7. <<>> \in Seq(Int) /\ <<>> \in Seq(Parsed) /\ Len(objects) = 0 /\ DOMAIN objects = {}
  BY <1>5
<1>8. ParserTypeOK
  BY <1>2, <1>4, <1>5, <1>6, <1>7 DEF ParserTypeOK, Phases
<1>9. CutOff
  BY <1>2, <1>3, <1>4 DEF CutOff
<1>10. Versions /\ Progress /\ TablesTaken /\ NamesRight
  BY <1>5, <1>7, <1>9 DEF Versions, Progress, InObject, TablesTaken, NamesRight
<1>11. FindsAllSections /\ ~Done
  BY <1>5 DEF FindsAllSections, Done
<1> QED BY <1>5, <1>7, <1>8, <1>9, <1>10, <1>11 DEF PatchInv, PatchTypeOK

\* loadFile: a step of the parser keeps what the program rests on.
LEMMA LoadKeeps ==
  ASSUME PatchInv, Load
  PROVE  PatchInv'
<1>1. step = "loading" /\ ParserNext /\ UNCHANGED <<request, step, next, patched, exit>>
  BY DEF Load, patchVars
<1>2. ParserInv'
  <2>1. ParserInv
    BY <1>1 DEF PatchInv, PatchTypeOK, ParserInv
  <2> QED BY <1>1, <2>1, ParserKeeps
<1>3. whole' = whole /\ file' = file
  BY <1>1, ParserReads
<1>4. UnderstoodFile' = UnderstoodFile
  BY <1>3 DEF UnderstoodFile
<1>5. UnderstoodFile => Progress' /\ TablesTaken' /\ NamesRight'
  <2>1. UnderstoodFile => ParserInv /\ Progress /\ TablesTaken /\ NamesRight
    BY <1>1 DEF PatchInv, PatchTypeOK, ParserInv
  <2> QED BY <1>1, <2>1, ParserProgress, TablesTakenKept, NamesKept
<1>12. NamesRight'
  BY <1>4, <1>5 DEF NamesRight
<1>6. FindsAllSections'
  <2>1. SUFFICES ASSUME Done', UnderstoodFile
                 PROVE  /\ Len(objects') = Len(Bases(whole'))
                        /\ \A i \in DOMAIN objects' : Briefs(objects'[i].sections) = AllSections(whole', Bases(whole')[i])
    BY <1>4 DEF FindsAllSections, Briefs
  <2> QED BY <1>5, <2>1 DEF Progress, Done
<1>11. Done' /\ UnderstoodFile' => Bases(whole') \in Seq(Int)
  BY <1>4, <1>5 DEF Progress, Done
<1>7. CutOff'
  BY <1>1, <1>3 DEF PatchInv, PatchTypeOK, CutOff
<1>8. next' \in 1..Len(objects') + 1
  <2>1. Len(objects') \in Nat
    BY <1>2 DEF ParserInv, ParserTypeOK
  <2> QED BY <1>1, <2>1 DEF PatchInv, PatchTypeOK
<1>9. \A i \in DOMAIN objects' : VersionsBefore(objects'[i].sections, Len(file'))
  BY <1>2 DEF ParserInv, Versions
<1>10. request' \in Requests /\ patched' = {} /\ next' = 1 /\ exit' = 0 /\ step' = "loading"
  BY <1>1 DEF PatchInv, PatchTypeOK
<1> QED BY <1>2, <1>4, <1>5, <1>6, <1>7, <1>8, <1>9, <1>10, <1>11, <1>12 DEF PatchInv, PatchTypeOK, ParserInv

-----------------------------------------------------------------------------
\* loadFile: when main goes on without a parsed file, it reports failure.
LEMMA LoadFailsKeeps ==
  ASSUME PatchInv, LoadFails
  PROVE  PatchInv'
<1>1. /\ step = "loading" /\ step' = "exited" /\ exit' = 1
      /\ UNCHANGED <<phase, whole, file, pos, order, archs, left, object, objects, request, next, patched>>
  BY DEF LoadFails, parserVars
<1>2. ParserTypeOK' /\ FindsAllSections' /\ NamesRight' /\ (Done' /\ UnderstoodFile' => Bases(whole') \in Seq(Int))
  BY <1>1 DEF PatchInv, PatchTypeOK, ParserTypeOK, FindsAllSections, Done, UnderstoodFile, NamesRight
<1> QED BY <1>1, <1>2 DEF PatchInv, PatchTypeOK

\* loadFile: the versions of a parsed file are as the file has them.
LEMMA LoadedKeeps ==
  ASSUME PatchInv, Loaded
  PROVE  PatchInv'
<1>1. /\ step = "loading" /\ phase = "parsed" /\ step' = "patching"
      /\ UNCHANGED <<phase, whole, file, pos, order, archs, left, object, objects, request, next, patched, exit>>
  BY DEF Loaded, parserVars
<1>2. ParserTypeOK' /\ FindsAllSections' /\ NamesRight' /\ CutOff' /\ (Done' /\ UnderstoodFile' => Bases(whole') \in Seq(Int))
  BY <1>1 DEF PatchInv, PatchTypeOK, ParserTypeOK, FindsAllSections, Done, UnderstoodFile, NamesRight, CutOff
<1>3. VersionWords'
  <2>1. patched' = {} /\ \A i \in DOMAIN objects : VersionData(objects[i].sections, file)
    BY <1>1 DEF PatchInv, PatchTypeOK, Versions
  <2> QED BY <1>1, <2>1 DEF VersionWords, VersionData
<1>4. PatchedAre'
  BY <1>1 DEF PatchInv, PatchTypeOK, PatchedAre
<1>5. Handled'
  <2>1. next' = 1 /\ \A i \in DOMAIN objects' : i >= 1
    BY <1>1 DEF PatchInv, PatchTypeOK, ParserTypeOK
  <2>2. \A i \in DOMAIN objects' : ~(i < next')
    BY <1>1, <2>1 DEF PatchInv, PatchTypeOK, ParserTypeOK
  <2> QED BY <2>2 DEF Handled
<1> QED BY <1>1, <1>2, <1>3, <1>4, <1>5 DEF PatchInv, PatchTypeOK

-----------------------------------------------------------------------------
(***************************************************************************)
(* handlePatchSdk                                                          *)
(***************************************************************************)

\* The version of an object that had no turn yet is that of the file.
LEMMA UnchangedVersion ==
  ASSUME PatchInv, step = "patching", next \in DOMAIN objects, Candidates(next) # {}
  PROVE  /\ Patchable(next)
         /\ <<next, Lowest(Candidates(next))>> \notin patched
         /\ TargetOf(next) = Decode(file[Section(next).offset + 1])
<1>1. PICK l : l = Lowest(Candidates(next))
  OBVIOUS
<1>2. /\ l \in DOMAIN objects[next].sections /\ Section(next) = objects[next].sections[l]
      /\ objects[next].sections[l].type \in Platforms
  BY <1>1, SectionIs DEF PatchInv, PatchTypeOK, Section
<1>3. <<next, l>> \notin patched
  <2>1. \A x \in patched : x[1] < next
    BY DEF PatchInv, PatchTypeOK, PatchedAre
  <2>2. next \in Nat
    BY DEF PatchInv, PatchTypeOK, ParserTypeOK
  <2> QED BY <2>1, <2>2
<1>4. /\ Len(objects[next].sections[l].data) = 2
      /\ objects[next].sections[l].data[1] = file[objects[next].sections[l].offset + 1]
  BY <1>2, <1>3 DEF PatchInv, PatchTypeOK, VersionWords
<1> QED BY <1>1, <1>2, <1>3, <1>4 DEF Patchable, TargetOf

\* What an object that is left alone keeps.
LEMMA LeftAlone ==
  ASSUME PatchInv, PatchObject, ~(request.version # List /\ Patchable(next) /\ TargetOf(next) # request.version)
  PROVE  PatchInv'
<1>1. /\ step = "patching" /\ next \in DOMAIN objects /\ next' = next + 1
      /\ UNCHANGED <<phase, whole, file, pos, order, archs, left, object, objects, request, step, patched, exit>>
  BY DEF PatchObject
<1>2. ParserTypeOK' /\ FindsAllSections' /\ NamesRight' /\ CutOff' /\ (Done' /\ UnderstoodFile' => Bases(whole') \in Seq(Int))
  BY <1>1 DEF PatchInv, PatchTypeOK, ParserTypeOK, FindsAllSections, Done, UnderstoodFile, NamesRight, CutOff
<1>3. PICK n \in Nat : n = next /\ DOMAIN objects = 1..Len(objects) /\ Len(objects) \in Nat
  BY DEF PatchInv, PatchTypeOK, ParserTypeOK
<1>4. next' \in 1..Len(objects') + 1
  BY <1>1, <1>3
<1>5. VersionWords'
  BY <1>1 DEF PatchInv, PatchTypeOK, VersionWords
<1>6. \A i : Candidates(i)' = Candidates(i) /\ Section(i)' = Section(i)
  BY <1>1 DEF Candidates, Section
<1>7. PatchedAre'
  <2>1. \A i \in DOMAIN objects : i < next => i < next'
    BY <1>1, <1>3
  <2> QED BY <1>1, <1>6, <2>1 DEF PatchInv, PatchTypeOK, PatchedAre
<1>8. Handled'
  <2> SUFFICES ASSUME request.version # List, NEW i \in DOMAIN objects, i < next + 1, Candidates(i) # {}
               PROVE  \/ <<i, Lowest(Candidates(i))>> \in patched
                      \/ Decode(file[Section(i).offset + 1]) = request.version
    BY <1>1, <1>6 DEF Handled, Decode
  <2>1. i < next \/ i = next
    BY <1>3
  <2>2. CASE i < next
    BY <1>1, <2>2 DEF PatchInv, PatchTypeOK, Handled
  <2>3. CASE i = next
    <3>1. Patchable(next) /\ TargetOf(next) = Decode(file[Section(next).offset + 1])
      BY <1>1, <2>3, UnchangedVersion
    <3> QED BY <2>3, <3>1
  <2> QED BY <2>1, <2>2, <2>3
<1> QED BY <1>1, <1>2, <1>4, <1>5, <1>7, <1>8 DEF PatchInv, PatchTypeOK

\* A version that is asked for is a word.
LEMMA EncodeType ==
  ASSUME request \in Requests, request.version # List
  PROVE  Encode(request.version) \in Int
<1>1. request.version \in (0..255) \X (0..255)
  BY RequestAssumption
<1>2. request.version[1] \in Int /\ request.version[2] \in Int
  BY <1>1
<1> QED BY <1>2 DEF Encode

\* What a patch keeps.
LEMMA Patched ==
  ASSUME PatchInv, PatchObject, request.version # List /\ Patchable(next) /\ TargetOf(next) # request.version
  PROVE  PatchInv'
<1>1. /\ step = "patching" /\ next \in DOMAIN objects /\ next' = next + 1
      /\ objects' = [objects EXCEPT ![next].sections[Lowest(Candidates(next))].data[1] = Encode(request.version)]
      /\ patched' = patched \cup {<<next, Lowest(Candidates(next))>>}
      /\ UNCHANGED <<phase, whole, file, pos, order, archs, left, object, request, step, exit>>
  BY DEF PatchObject
<1>2. PICK n \in Nat : n = next /\ DOMAIN objects = 1..Len(objects) /\ Len(objects) \in Nat
  BY DEF PatchInv, PatchTypeOK, ParserTypeOK
<1>3. PICK j : /\ j = Lowest(Candidates(next)) /\ j \in DOMAIN objects[next].sections
               /\ Candidates(next) # {} /\ Len(objects[next].sections[j].data) = 2
               /\ objects[next].sections \in Seq(SectionRecords)
  BY <1>1, SectionIs DEF PatchInv, PatchTypeOK, Patchable
<1>4. PICK w \in Int : w = Encode(request.version)
  BY EncodeType DEF PatchInv, PatchTypeOK
<1>5. /\ objects' \in Seq(Parsed) /\ Len(objects') = Len(objects) /\ DOMAIN objects' = DOMAIN objects
      /\ \A k \in DOMAIN objects :
           /\ objects'[k].dynsymbols = objects[k].dynsymbols
           /\ DOMAIN objects'[k].sections = DOMAIN objects[k].sections
           /\ \A l \in DOMAIN objects[k].sections :
                LET s == objects[k].sections[l]
                    m == objects'[k].sections[l]
                IN
                /\ m.type = s.type /\ m.size = s.size /\ m.offset = s.offset
                /\ Len(m.data) = Len(s.data)
                /\ m.data[1] = IF k = next /\ l = j THEN w ELSE s.data[1]
  <2>1. objects' = [objects EXCEPT ![next].sections[j].data[1] = w]
    BY <1>1, <1>3, <1>4
  <2>2. objects \in Seq(Parsed)
    BY DEF PatchInv, PatchTypeOK, ParserTypeOK
  <2>3. PICK new : new = objects'
    OBVIOUS
  <2>4. new = [objects EXCEPT ![next].sections[j].data[1] = w]
    BY <2>1, <2>3
  <2>5. new \in Seq(Parsed) /\ WordReplaced(objects, new, next, j, w)
    BY <1>1, <1>3, <1>4, <2>2, <2>4, PatchedObjects, Zenon
  <2> QED BY <2>3, <2>5 DEF WordReplaced
<1>6. SameSections
  BY <1>5 DEF SameSections
<1>7. /\ \A i \in DOMAIN objects :
           /\ Candidates(i)' = Candidates(i)
           /\ Candidates(i) # {} => Section(i)'.offset = Section(i).offset
           /\ VersionsBefore(objects'[i].sections, Len(file))
      /\ FindsAllSections'
  BY <1>1, <1>6, SectionsStay DEF PatchInv, PatchTypeOK
<1>8. ParserTypeOK' /\ CutOff' /\ (Done' /\ UnderstoodFile' => Bases(whole') \in Seq(Int))
  BY <1>1, <1>5 DEF PatchInv, PatchTypeOK, ParserTypeOK, CutOff, Done, UnderstoodFile
<1>14. NamesRight'
  <2> SUFFICES ASSUME UnderstoodFile, Len(file) = Len(whole), NEW i \in DOMAIN objects
               PROVE  StubNames(whole, Bases(whole)[i], objects'[i])
    BY <1>1, <1>5 DEF NamesRight, UnderstoodFile
  <2>1. StubNames(whole, Bases(whole)[i], objects[i])
    BY DEF PatchInv, NamesRight
  <2>2. objects'[i].dynsymbols = objects[i].dynsymbols
    BY <1>5
  <2> QED BY <2>1, <2>2, SameNames
<1>9. next' \in 1..Len(objects') + 1
  BY <1>1, <1>2, <1>5
<1>10. patched' \in SUBSET (Nat \X Nat)
  <2>1. j \in Nat
    BY <1>3
  <2> QED BY <1>1, <1>2, <1>3, <2>1 DEF PatchInv, PatchTypeOK
<1>11. VersionWords'
  <2> SUFFICES ASSUME NEW i \in DOMAIN objects, NEW l \in DOMAIN objects[i].sections,
                      objects'[i].sections[l].type \in Platforms
               PROVE  /\ Len(objects'[i].sections[l].data) = 2
                      /\ objects'[i].sections[l].data[1] =
                           IF <<i, l>> \in patched' THEN w ELSE file[objects'[i].sections[l].offset + 1]
    <3>1. DOMAIN objects' = DOMAIN objects
      BY <1>5
    <3>2. \A i \in DOMAIN objects : DOMAIN objects'[i].sections = DOMAIN objects[i].sections
      BY <1>5
    <3> QED BY <1>1, <1>4, <3>1, <3>2 DEF VersionWords, Encode
  <2>1. /\ objects[i].sections[l].type \in Platforms
        /\ objects'[i].sections[l].offset = objects[i].sections[l].offset
        /\ Len(objects'[i].sections[l].data) = Len(objects[i].sections[l].data)
        /\ objects'[i].sections[l].data[1] = IF i = next /\ l = j THEN w ELSE objects[i].sections[l].data[1]
    BY <1>5
  <2>2. /\ Len(objects[i].sections[l].data) = 2
        /\ objects[i].sections[l].data[1] =
             IF <<i, l>> \in patched THEN w ELSE file[objects[i].sections[l].offset + 1]
    BY <1>1, <1>4, <2>1 DEF PatchInv, PatchTypeOK, VersionWords
  <2>3. <<i, l>> \in patched' <=> <<i, l>> \in patched \/ (i = next /\ l = j)
    BY <1>1, <1>3
  <2> QED BY <2>1, <2>2, <2>3
<1>12. PatchedAre'
  <2>1. request'.version # List
    BY <1>1
  <2>2. ASSUME NEW x \in patched'
        PROVE  \E i \in DOMAIN objects' : i < next' /\ Candidates(i)' # {} /\ x = <<i, Lowest(Candidates(i)')>>
    <3>1. CASE x \in patched
      <4>1. PICK i \in DOMAIN objects : i < next /\ Candidates(i) # {} /\ x = <<i, Lowest(Candidates(i))>>
        BY <1>1, <3>1 DEF PatchInv, PatchTypeOK, PatchedAre
      <4>2. i < next'
        BY <1>1, <1>2, <4>1
      <4> QED BY <1>5, <1>7, <4>1, <4>2
    <3>2. CASE x = <<next, j>>
      <4>1. next < next'
        BY <1>1, <1>2
      <4> QED BY <1>1, <1>3, <1>5, <1>7, <3>2, <4>1
    <3> QED BY <1>1, <1>3, <3>1, <3>2
  <2> QED BY <2>1, <2>2 DEF PatchedAre
<1>13. Handled'
  <2>1. ASSUME NEW i \in DOMAIN objects, i < next + 1, Candidates(i) # {}
        PROVE  \/ <<i, Lowest(Candidates(i))>> \in patched'
               \/ Decode(file[Section(i).offset + 1]) = request.version
    <3>1. i < next \/ i = next
      BY <1>2, <2>1
    <3>2. CASE i < next
      BY <1>1, <2>1, <3>2 DEF PatchInv, PatchTypeOK, Handled
    <3>3. CASE i = next
      BY <1>1, <3>3
    <3> QED BY <3>1, <3>2, <3>3
  <2>2. ASSUME NEW i \in DOMAIN objects', i < next', Candidates(i)' # {}
        PROVE  \/ <<i, Lowest(Candidates(i)')>> \in patched'
               \/ Decode(file'[Section(i)'.offset + 1]) = request'.version
    <3>1. i \in DOMAIN objects /\ i < next + 1 /\ Candidates(i)' = Candidates(i) /\ Candidates(i) # {}
      BY <1>1, <1>5, <1>7, <2>2
    <3>2. Section(i)'.offset = Section(i).offset
      BY <1>7, <3>1
    <3> QED BY <1>1, <2>1, <3>1, <3>2
  <2> QED BY <2>2 DEF Handled, Decode
<1> QED BY <1>1, <1>5, <1>7, <1>8, <1>9, <1>10, <1>11, <1>12, <1>13, <1>14 DEF PatchInv, PatchTypeOK

\* One object has its turn.
LEMMA PatchObjectKeeps ==
  ASSUME PatchInv, PatchObject
  PROVE  PatchInv'
BY LeftAlone, Patched

-----------------------------------------------------------------------------
\* A section with a version is in the file.
LEMMA VersionInFile ==
  ASSUME PatchInv, NEW i \in DOMAIN objects, Candidates(i) # {}
  PROVE  /\ Section(i).offset \in Nat /\ Section(i).offset + 1 \in DOMAIN file
         /\ step # "exited" => file[Section(i).offset + 1] = whole[Section(i).offset + 1]
<1>1. PICK l : /\ l \in DOMAIN objects[i].sections /\ Section(i) = objects[i].sections[l]
               /\ objects[i].sections[l].type \in Platforms
  BY SectionIs DEF PatchInv, PatchTypeOK, Section
<1>2. PICK L \in Nat : L = Len(file) /\ DOMAIN file = 1..L
  BY DEF PatchInv, PatchTypeOK, ParserTypeOK
<1>3. Section(i).offset \in Nat /\ Section(i).offset + 2 =< L
  BY <1>1, <1>2 DEF PatchInv, PatchTypeOK, VersionsBefore
<1>4. Section(i).offset + 1 \in 1..L
  BY <1>3
<1>5. step # "exited" => file[Section(i).offset + 1] = whole[Section(i).offset + 1]
  BY <1>2, <1>4 DEF PatchInv, PatchTypeOK, CutOff
<1> QED BY <1>2, <1>3, <1>4, <1>5

\* handlePatchSdk after the last object: nothing to save means that all had the version.
LEMMA PatchDoneKeeps ==
  ASSUME PatchInv, PatchDone
  PROVE  PatchInv'
<1>1. /\ step = "patching" /\ next > Len(objects)
      /\ step' = IF patched = {} THEN "exited" ELSE "saving"
      /\ UNCHANGED <<phase, whole, file, pos, order, archs, left, object, objects, request, next, patched, exit>>
  BY DEF PatchDone, parserVars
<1>2. ParserTypeOK' /\ FindsAllSections' /\ NamesRight' /\ CutOff' /\ (Done' /\ UnderstoodFile' => Bases(whole') \in Seq(Int))
  BY <1>1 DEF PatchInv, PatchTypeOK, ParserTypeOK, FindsAllSections, Done, UnderstoodFile, NamesRight, CutOff
<1>3. next = Len(objects) + 1 /\ \A i \in DOMAIN objects : i < next
  <2>1. Len(objects) \in Nat /\ DOMAIN objects = 1..Len(objects)
    BY DEF PatchInv, PatchTypeOK, ParserTypeOK
  <2> QED BY <1>1, <2>1 DEF PatchInv, PatchTypeOK
<1>4. \A i : Candidates(i)' = Candidates(i) /\ Section(i)' = Section(i)
  BY <1>1 DEF Candidates, Section
<1>5. CASE patched # {}
  <2>1. VersionWords' /\ PatchedAre' /\ Handled'
    BY <1>1, <1>4 DEF PatchInv, PatchTypeOK, VersionWords, PatchedAre, Handled, Decode
  <2> QED BY <1>1, <1>2, <1>3, <1>5, <2>1 DEF PatchInv, PatchTypeOK
<1>6. CASE patched = {}
  <2>1. ASSUME request.version # List PROVE Effect
    <3> SUFFICES ASSUME NEW i \in DOMAIN objects, Candidates(i) # {}
                 PROVE  LET p == Section(i).offset + 1 IN Decode(whole[p]) = request.version /\ file[p] = whole[p]
      BY DEF Effect
    <3>1. Decode(file[Section(i).offset + 1]) = request.version
      BY <1>1, <1>3, <1>6, <2>1 DEF PatchInv, PatchTypeOK, Handled
    <3>2. file[Section(i).offset + 1] = whole[Section(i).offset + 1]
      BY <1>1, VersionInFile
    <3> QED BY <3>1, <3>2
  <2>2. request'.version # List => Effect'
    BY <1>1, <1>4, <2>1 DEF Effect, Decode, Encode
  <2> QED BY <1>1, <1>2, <1>3, <1>6, <2>2 DEF PatchInv, PatchTypeOK
<1> QED BY <1>5, <1>6

\* Format::write: the words of the patched sections, and no others, are written.
LEMMA SavedFile ==
  ASSUME PatchInv, SaveFile
  PROVE  /\ file' \in Seq(Int) /\ Len(file') = Len(file) /\ DOMAIN file' = DOMAIN file
         /\ \A b \in DOMAIN file :
              file'[b] = IF \E i \in DOMAIN objects : /\ <<i, Lowest(Candidates(i))>> \in patched /\ Candidates(i) # {}
                                                     /\ Section(i).offset + 1 = b
                         THEN Encode(request.version) ELSE file[b]
<1> DEFINE here(b) == {x \in patched : objects[x[1]].sections[x[2]].offset + 1 = b}
           x(b) == CHOOSE x \in here(b) : TRUE
<1>1. /\ step = "saving"
      /\ file' = [b \in DOMAIN file |-> IF here(b) = {} THEN file[b] ELSE objects[x(b)[1]].sections[x(b)[2]].data[1]]
  BY DEF SaveFile
<1>2. PICK L \in Nat : L = Len(file) /\ DOMAIN file = 1..L /\ file \in Seq(Int)
  BY DEF PatchInv, PatchTypeOK, ParserTypeOK
<1>3. ASSUME NEW b \in DOMAIN file, NEW y \in here(b)
      PROVE  /\ objects[y[1]].sections[y[2]].data[1] = Encode(request.version)
             /\ \E i \in DOMAIN objects : /\ <<i, Lowest(Candidates(i))>> \in patched /\ Candidates(i) # {}
                                          /\ Section(i).offset + 1 = b
  <2>1. PICK i \in DOMAIN objects : Candidates(i) # {} /\ y = <<i, Lowest(Candidates(i))>>
    BY <1>1, <1>3 DEF PatchInv, PatchTypeOK, PatchedAre
  <2>2. PICK l : l = Lowest(Candidates(i))
    OBVIOUS
  <2>3. l \in DOMAIN objects[i].sections /\ Section(i) = objects[i].sections[l] /\ Section(i).type \in Platforms
    BY <2>1, <2>2, SectionIs DEF PatchInv, PatchTypeOK, Section
  <2>4. y[1] = i /\ y[2] = l /\ <<i, l>> \in patched
    BY <1>3, <2>1, <2>2
  <2>5. objects[i].sections[l].data[1] = Encode(request.version)
    BY <1>1, <2>3, <2>4 DEF PatchInv, PatchTypeOK, VersionWords
  <2> QED BY <1>3, <2>1, <2>2, <2>3, <2>4, <2>5
<1>4. ASSUME NEW b \in DOMAIN file, NEW i \in DOMAIN objects,
             <<i, Lowest(Candidates(i))>> \in patched /\ Candidates(i) # {} /\ Section(i).offset + 1 = b
      PROVE  here(b) # {}
  BY <1>4 DEF Section
<1>5. ASSUME NEW b \in DOMAIN file, here(b) # {} PROVE x(b) \in here(b)
  <2> HIDE DEF here
  <2> QED BY <1>5
<1> HIDE DEF here, x
<1>6. ASSUME NEW b \in DOMAIN file
      PROVE  file'[b] = IF \E i \in DOMAIN objects : /\ <<i, Lowest(Candidates(i))>> \in patched /\ Candidates(i) # {}
                                                     /\ Section(i).offset + 1 = b
                        THEN Encode(request.version) ELSE file[b]
  <2>1. CASE here(b) = {}
    <3>1. file'[b] = file[b]
      BY <1>1, <2>1
    <3> QED BY <1>4, <2>1, <3>1
  <2>2. CASE here(b) # {}
    <3>1. file'[b] = objects[x(b)[1]].sections[x(b)[2]].data[1]
      BY <1>1, <2>2
    <3> QED BY <1>3, <1>5, <2>2, <3>1
  <2> QED BY <2>1, <2>2
<1>7. ASSUME NEW b \in DOMAIN file PROVE file'[b] \in Int
  <2>1. CASE \E i \in DOMAIN objects : /\ <<i, Lowest(Candidates(i))>> \in patched /\ Candidates(i) # {}
                                       /\ Section(i).offset + 1 = b
    <3>1. patched # {}
      BY <2>1
    <3>2. request \in Requests /\ request.version # List
      BY <1>1, <3>1 DEF PatchInv, PatchTypeOK, PatchedAre
    <3> QED BY <1>6, <2>1, <3>2, EncodeType
  <2>2. CASE ~\E i \in DOMAIN objects : /\ <<i, Lowest(Candidates(i))>> \in patched /\ Candidates(i) # {}
                                        /\ Section(i).offset + 1 = b
    BY <1>2, <1>6, <2>2
  <2> QED BY <2>1, <2>2
<1>8. DOMAIN file' = 1..L
  BY <1>1, <1>2
<1>9. file' \in Seq(Int) /\ Len(file') = L
  <2>1. file' \in [1..L -> Int]
    <3>1. file' = [b \in 1..L |-> file'[b]]
      BY <1>1, <1>2
    <3> QED BY <1>2, <1>7, <3>1
  <2> QED BY <2>1
<1> QED BY <1>2, <1>6, <1>8, <1>9

\* Format::write gives each object that had another version the one that is asked for.
LEMMA SaveFileKeeps ==
  ASSUME PatchInv, SaveFile
  PROVE  PatchInv'
<1>1. /\ step = "saving" /\ step' = "exited"
      /\ UNCHANGED <<phase, whole, pos, order, archs, left, object, objects, request, next, patched, exit>>
  BY DEF SaveFile
<1>2. /\ file' \in Seq(Int) /\ Len(file') = Len(file) /\ DOMAIN file' = DOMAIN file
      /\ \A b \in DOMAIN file :
           file'[b] = IF \E i \in DOMAIN objects : /\ <<i, Lowest(Candidates(i))>> \in patched /\ Candidates(i) # {}
                                                  /\ Section(i).offset + 1 = b
                      THEN Encode(request.version) ELSE file[b]
  BY SavedFile
<1>3. ParserTypeOK' /\ FindsAllSections' /\ NamesRight' /\ (Done' /\ UnderstoodFile' => Bases(whole') \in Seq(Int))
  BY <1>1, <1>2 DEF PatchInv, PatchTypeOK, ParserTypeOK, FindsAllSections, Done, UnderstoodFile, NamesRight
<1>4. \A i : Candidates(i)' = Candidates(i) /\ Section(i)' = Section(i)
  BY <1>1 DEF Candidates, Section
<1>5. request.version # List => Effect'
  <2> SUFFICES ASSUME request.version # List, NEW i \in DOMAIN objects, Candidates(i) # {}
               PROVE  LET p == Section(i).offset + 1 IN
                      file'[p] = Encode(request.version) \/ (Decode(whole[p]) = request.version /\ file'[p] = whole[p])
    BY <1>1, <1>4 DEF Effect, Encode, Decode
  <2>1. PICK p : p = Section(i).offset + 1
    OBVIOUS
  <2>2. p \in DOMAIN file /\ file[p] = whole[p]
    BY <1>1, <2>1, VersionInFile
  <2>3. file'[p] = Encode(request.version) \/ file'[p] = file[p]
    BY <1>2, <2>2
  <2>4. CASE <<i, Lowest(Candidates(i))>> \in patched
    <3>1. file'[p] = Encode(request.version)
      BY <1>2, <2>1, <2>2, <2>4
    <3> QED BY <2>1, <3>1
  <2>5. CASE <<i, Lowest(Candidates(i))>> \notin patched
    <3>1. i < next
      <4>1. Len(objects) \in Nat /\ DOMAIN objects = 1..Len(objects)
        BY DEF PatchInv, PatchTypeOK, ParserTypeOK
      <4> QED BY <1>1, <4>1 DEF PatchInv, PatchTypeOK
    <3>2. Decode(file[p]) = request.version
      BY <1>1, <2>1, <2>5, <3>1 DEF PatchInv, PatchTypeOK, Handled
    <3>3. Decode(whole[p]) = request.version
      BY <2>2, <3>2
    <3> QED BY <2>1, <2>2, <2>3, <3>3
  <2> QED BY <2>4, <2>5
<1> QED BY <1>1, <1>2, <1>3, <1>5 DEF PatchInv, PatchTypeOK

\* Format::write that cannot open the file reports failure.
LEMMA SaveFileFailsKeeps ==
  ASSUME PatchInv, SaveFileFails
  PROVE  PatchInv'
<1>1. /\ step = "saving" /\ step' = "exited" /\ exit' = 1
      /\ UNCHANGED <<phase, whole, file, pos, order, archs, left, object, objects, request, next, patched>>
  BY DEF SaveFileFails, parserVars
<1>2. ParserTypeOK' /\ FindsAllSections' /\ NamesRight' /\ (Done' /\ UnderstoodFile' => Bases(whole') \in Seq(Int))
  BY <1>1 DEF PatchInv, PatchTypeOK, ParserTypeOK, FindsAllSections, Done, UnderstoodFile, NamesRight
<1> QED BY <1>1, <1>2 DEF PatchInv, PatchTypeOK

\* Nothing happens.
LEMMA PatchStutters ==
  ASSUME PatchInv, UNCHANGED sdkVars
  PROVE  PatchInv'
<1>1. UNCHANGED <<phase, whole, file, pos, order, archs, left, object, objects, request, step, next, patched, exit>>
  BY DEF sdkVars, parserVars, patchVars
<1>2. ParserTypeOK' /\ FindsAllSections' /\ NamesRight' /\ CutOff' = CutOff /\ (Done' /\ UnderstoodFile' => Bases(whole') \in Seq(Int))
  BY <1>1 DEF PatchInv, PatchTypeOK, ParserTypeOK, FindsAllSections, Done, UnderstoodFile, NamesRight, CutOff
<1>3. Versions' = Versions /\ Progress' = Progress /\ TablesTaken' = TablesTaken /\ UnderstoodFile' = UnderstoodFile
  BY <1>1 DEF Versions, Progress, TablesTaken, InTable, EntryWords, Reading, TablesRead, Later, UnderstoodFile, CutOff
<1>4. \A i : Candidates(i)' = Candidates(i) /\ Section(i)' = Section(i)
  BY <1>1 DEF Candidates, Section
<1>5. VersionWords' = VersionWords /\ PatchedAre' = PatchedAre /\ Handled' = Handled /\ Effect' = Effect
  BY <1>1, <1>4 DEF VersionWords, PatchedAre, Handled, Effect, Decode, Encode
<1> QED BY <1>1, <1>2, <1>3, <1>5 DEF PatchInv, PatchTypeOK

\* Whatever dispar --patch-...-sdk-version does, it keeps what PatchInv says.
LEMMA PatchKeeps ==
  ASSUME PatchInv, [PatchNext]_sdkVars
  PROVE  PatchInv'
BY LoadKeeps, LoadFailsKeeps, LoadedKeeps, PatchObjectKeeps, PatchDoneKeeps, SaveFileKeeps, SaveFileFailsKeeps, PatchStutters
   DEF PatchNext

\* The invariant of the parser and of the patch.
THEOREM PatchInvariant == PatchSpec => []PatchInv
<1>1. PatchInit => PatchInv
  BY PatchStarts
<1>2. PatchInv /\ [PatchNext]_sdkVars => PatchInv'
  BY PatchKeeps
<1> QED BY <1>1, <1>2, PTL DEF PatchSpec

-----------------------------------------------------------------------------
(***************************************************************************)
(* The theorems                                                            *)
(***************************************************************************)

\* MachO::parse: of a file of well-known commands that is accepted, the objects
\* show every section that it has, and no other, also when the file is cut off.
THEOREM SectionsFound == PatchSpec => []FindsAllSections
<1>1. PatchInv => FindsAllSections
  BY DEF PatchInv, PatchTypeOK
<1> QED BY <1>1, PatchInvariant, PTL

\* The sections of the objects are those of the format, and the one that is
\* looked at is at the first target version.
LEMMA TargetIs ==
  ASSUME PatchInv, Done, UnderstoodFile
  PROVE  /\ DOMAIN Bases(whole) = DOMAIN objects
         /\ \A i \in DOMAIN objects :
              /\ Candidates(i) # {} => Section(i).offset \in TargetsIn(whole, Bases(whole)[i], request.platform)
              /\ TargetsIn(whole, Bases(whole)[i], request.platform) # {} =>
                   /\ Candidates(i) # {}
                   /\ Lowest(TargetsIn(whole, Bases(whole)[i], request.platform)) = Section(i).offset
<1>1. /\ Bases(whole) \in Seq(Int) /\ Len(objects) = Len(Bases(whole)) /\ objects \in Seq(Parsed)
      /\ \A i \in DOMAIN objects : Briefs(objects[i].sections) = AllSections(whole, Bases(whole)[i])
  BY DEF PatchInv, PatchTypeOK, FindsAllSections, Briefs, ParserTypeOK
<1>2. request.platform \in Platforms
  BY RequestAssumption DEF PatchInv, PatchTypeOK
<1>3. ASSUME NEW i \in DOMAIN objects, Candidates(i) # {}
      PROVE  Section(i).offset \in TargetsIn(whole, Bases(whole)[i], request.platform)
  <2>1. PICK l : /\ l \in DOMAIN objects[i].sections /\ Section(i) = objects[i].sections[l]
                 /\ objects[i].sections[l].type = request.platform
    BY <1>3, SectionIs DEF PatchInv, PatchTypeOK, Section
  <2>2. Brief(Section(i)) \in AllSections(whole, Bases(whole)[i])
    BY <1>1, <2>1 DEF Briefs
  <2>3. Brief(Section(i)).type = request.platform /\ Brief(Section(i)).offset = Section(i).offset
    BY <2>1 DEF Brief, Listed
  <2> QED BY <1>2, <2>2, <2>3, TargetSections
<1>4. ASSUME NEW i \in DOMAIN objects, TargetsIn(whole, Bases(whole)[i], request.platform) # {}
      PROVE  /\ Candidates(i) # {}
             /\ Lowest(TargetsIn(whole, Bases(whole)[i], request.platform)) = Section(i).offset
  <2>1. PICK b, s, end : b = Bases(whole)[i] /\ s = objects[i].sections /\ end = Len(file)
    OBVIOUS
  <2>2. s \in Seq(SectionRecords)
    <3>1. objects[i] \in Parsed
      BY <1>1
    <3> QED BY <2>1, <3>1 DEF Parsed
  <2>3. VersionsBefore(s, end) /\ Briefs(s) = AllSections(whole, b) /\ TargetsIn(whole, b, request.platform) # {}
    BY <1>1, <1>4, <2>1 DEF PatchInv, PatchTypeOK
  <2>4. /\ Having(s, request.platform) # {}
        /\ Lowest(TargetsIn(whole, b, request.platform)) = FirstVersion(s, request.platform).offset
    BY <1>2, <2>2, <2>3, FirstVersionIs
  <2> QED BY <2>1, <2>4 DEF Candidates, Section, FirstVersion
<1>5. DOMAIN Bases(whole) = DOMAIN objects
  BY <1>1
<1> QED BY <1>3, <1>4, <1>5

\* handlePatchSdk and Format::write: whatever is asked of a file of well-known
\* commands, no other words of it change than the target versions of the platform.
THEOREM TargetsPatched == PatchSpec => PatchesOnlyTargets
<1>1. ASSUME PatchInv, [PatchNext]_sdkVars, UnderstoodFile, NEW b \in DOMAIN file, file'[b] # file[b]
      PROVE  b - 1 \in Targets(whole, request.platform)
  <2>1. SaveFile
    <3>1. Load => file' = file
      BY ParserReads DEF Load
    <3>2. LoadFails \/ Loaded \/ PatchObject \/ PatchDone \/ SaveFileFails => file' = file
      BY DEF LoadFails, Loaded, PatchObject, PatchDone, SaveFileFails, parserVars
    <3>3. UNCHANGED sdkVars => file' = file
      BY DEF sdkVars, parserVars
    <3> QED BY <1>1, <3>1, <3>2, <3>3 DEF PatchNext
  <2>2. PICK i \in DOMAIN objects : Candidates(i) # {} /\ Section(i).offset + 1 = b
    BY <1>1, <2>1, SavedFile
  <2>3. Done
    BY <1>1, <2>1 DEF SaveFile, PatchInv, PatchTypeOK, Done
  <2>4. Section(i).offset \in Nat
    BY <1>1, <2>2, VersionInFile
  <2>5. b - 1 = Section(i).offset
    BY <2>2, <2>4
  <2>6. DOMAIN Bases(whole) = DOMAIN objects /\ Section(i).offset \in TargetsIn(whole, Bases(whole)[i], request.platform)
    BY <1>1, <2>2, <2>3, TargetIs
  <2> QED BY <2>2, <2>5, <2>6 DEF Targets
<1>2. PatchInv /\ [PatchNext]_sdkVars =>
        [UnderstoodFile => \A b \in DOMAIN file : file'[b] # file[b] => b - 1 \in Targets(whole, request.platform)]_sdkVars
  BY <1>1
<1> QED BY <1>2, PatchInvariant, PTL DEF PatchSpec, PatchesOnlyTargets

\* Two numbers of a byte each, in one word.
LEMMA TwoBytes ==
  ASSUME NEW x \in 0..255, NEW y \in 0..255
  PROVE  (x * 65536 + y * 256) \div 65536 = x /\ ((x * 65536 + y * 256) \div 256) % 256 = y
<1>1. (x * 65536 + y * 256) \div 65536 = x
  BY Z3T(60)
<1>2. (x * 65536 + y * 256) \div 256 = x * 256 + y
  BY Z3T(60)
<1>3. (x * 256 + y) % 256 = y
  BY Z3T(60)
<1> QED BY <1>1, <1>2, <1>3

\* A word that encodeMacSdkVersion makes says the version by the format.
LEMMA EncodedVersion ==
  ASSUME NEW v \in (0..255) \X (0..255)
  PROVE  <<Encode(v) \div 65536, (Encode(v) \div 256) % 256>> = v
<1>1. PICK x \in 0..255, y \in 0..255 : v = <<x, y>>
  <2>1. v[1] \in 0..255 /\ v[2] \in 0..255 /\ v = <<v[1], v[2]>>
    OBVIOUS
  <2> QED BY <2>1
<1>2. Encode(v) = x * 65536 + y * 256
  BY <1>1 DEF Encode
<1>3. (x * 65536 + y * 256) \div 65536 = x /\ ((x * 65536 + y * 256) \div 256) % 256 = y
  BY TwoBytes
<1> QED BY <1>1, <1>2, <1>3

\* A second number that fits four bits is read as the format means it.
LEMMA DecodedVersion ==
  ASSUME NEW w \in Int, (w \div 256) % 256 < 16
  PROVE  Decode(w) = <<w \div 65536, (w \div 256) % 256>>
<1>1. PICK q \in Int, r \in 0..255 : w = 256 * q + r /\ w \div 256 = q
  OBVIOUS
<1>2. PICK s \in Int, t \in 0..15 : q = 256 * s + t /\ q % 256 = t
  <2>1. q % 256 \in 0..255 /\ q = 256 * (q \div 256) + (q % 256)
    OBVIOUS
  <2> QED BY <1>1, <2>1
<1>3. w = 4096 * (16 * s) + (256 * t + r) /\ 256 * t + r \in 0..4095
  BY <1>1, <1>2
<1>4. w % 4096 = 256 * t + r
  BY <1>3
<1>5. (256 * t + r) \div 256 = t
  OBVIOUS
<1> QED BY <1>1, <1>2, <1>4, <1>5 DEF Decode

\* decodeMacSdkVersion, encodeMacSdkVersion and Format::write: a patch that
\* reports success has given every object that has a target version, in its first
\* one, the version that was asked for, where second numbers fit four bits.
THEOREM PatchEffect == PatchSpec => []PatchTakesEffect
<1>1. ASSUME PatchInv PROVE PatchTakesEffect
  <2> SUFFICES ASSUME step = "exited", exit = 0, request.version # List, UnderstoodFile, ShortNumbers,
                      NEW i \in DOMAIN Bases(whole), TargetsIn(whole, Bases(whole)[i], request.platform) # {}
               PROVE  VersionAt(Lowest(TargetsIn(whole, Bases(whole)[i], request.platform))) = request.version
    BY DEF PatchTakesEffect
  <2>1. Done /\ Effect
    BY <1>1 DEF PatchInv, PatchTypeOK, Done
  <2>2. PICK o : o = Section(i).offset
    OBVIOUS
  <2>3. /\ i \in DOMAIN objects /\ Candidates(i) # {}
        /\ o = Lowest(TargetsIn(whole, Bases(whole)[i], request.platform))
        /\ o \in TargetsIn(whole, Bases(whole)[i], request.platform)
    BY <1>1, <2>1, <2>2, TargetIs
  <2>4. o \in Nat /\ o + 1 \in DOMAIN file
    BY <1>1, <2>2, <2>3, VersionInFile
  <2>5. PICK w \in Int : w = file[o + 1]
    BY <1>1, <2>4 DEF PatchInv, PatchTypeOK, ParserTypeOK
  <2>6. <<w \div 65536, (w \div 256) % 256>> = request.version
    <3>1. w = Encode(request.version) \/ (Decode(whole[o + 1]) = request.version /\ w = whole[o + 1])
      BY <2>1, <2>2, <2>3, <2>5 DEF Effect
    <3>2. CASE w = Encode(request.version)
      <4>1. request.version \in (0..255) \X (0..255)
        BY <1>1, RequestAssumption DEF PatchInv, PatchTypeOK
      <4> QED BY <3>2, <4>1, EncodedVersion
    <3>3. CASE Decode(w) = request.version /\ w = whole[o + 1]
      <4>1. o \in Targets(whole, request.platform)
        BY <2>3 DEF Targets
      <4>2. (w \div 256) % 256 < 16
        BY <3>3, <4>1 DEF ShortNumbers
      <4>3. Decode(w) = <<w \div 65536, (w \div 256) % 256>>
        BY <4>2, DecodedVersion
      <4> QED BY <3>3, <4>3
    <3> QED BY <3>1, <3>2, <3>3
  <2> QED BY <2>3, <2>5, <2>6 DEF VersionAt
<1> QED BY <1>1, PatchInvariant, PTL

\* handlePatchSdk and the parser below it keep their data what their types say.
THEOREM PatchTyped == PatchSpec => []PatchTypeOK
<1>1. PatchInv => PatchTypeOK
  BY DEF PatchInv
<1> QED BY <1>1, PatchInvariant, PTL

\* MachO::parseHeader: in a thin file with stubs and a string table, an entry of the
\* dynamic table has the name of the symbol that it points to.
THEOREM StubsNamed == PatchSpec => []StubsAreNamed
<1>1. ASSUME PatchInv PROVE StubsAreNamed
  <2> DEFINE starts == {Starts(whole, 0)[i] : i \in Commands(whole, 0)}
             has(t) == \E i \in Commands(whole, 0) : whole[Starts(whole, 0)[i] + 1] = t
             the(t) == CHOOSE p \in starts : whole[p + 1] = t
  <2>1. PICK p, q : p = the(Symtab) /\ q = the(Dysymtab)
    OBVIOUS
  <2>2. PICK width : width = IF IsWide(whole, 0) THEN 4 ELSE 3
    OBVIOUS
  <2> DEFINE symbol(h) == whole[whole[q + 14 + 1] + h]
             index(k) == whole[whole[p + 2 + 1] + k * width + 1]
  <2>3. SUFFICES ASSUME Done, UnderstoodFile, file = whole, Bases(whole) = << 0 >>, has(Symtab), has(Dysymtab),
                        whole[p + 4 + 1] >= 0, whole[p + 4 + 1] + whole[p + 5 + 1] =< Len(whole),
                        \E s \in AllSections(whole, 0) : s.type = "SYMBOL_STUBS",
                        NEW h \in 1..whole[q + 15 + 1],
                        symbol(h) \in 0..whole[p + 3 + 1] - 1, index(symbol(h)) \in 0..whole[p + 5 + 1] - 1
                 PROVE  objects[1].dynsymbols[h].name = whole[whole[p + 4 + 1] + index(symbol(h)) + 1]
    BY <2>1, <2>2, ZenonT(100) DEF StubsAreNamed
  <2>4. ASSUME NEW t, has(t) PROVE the(t) \in starts /\ whole[the(t) + 1] = t
    <3>1. \E x \in starts : whole[x + 1] = t
      BY <2>4
    <3> QED BY <3>1
  <2>5. p \in starts /\ whole[p + 1] = Symtab /\ q \in starts /\ whole[q + 1] = Dysymtab
    <3> HIDE DEF starts, has, the
    <3> QED BY <2>1, <2>3, <2>4
  <2>6. whole \in Seq(Int) /\ objects \in Seq(Parsed) /\ Len(objects) = Len(Bases(whole)) /\ Understood(whole, 0)
    <3>1. 1 \in DOMAIN Bases(whole) /\ Bases(whole)[1] = 0
      BY <2>3
    <3> QED BY <1>1, <2>3, <3>1 DEF PatchInv, PatchTypeOK, ParserTypeOK, FindsAllSections, UnderstoodFile
  <2>7. \A i \in Commands(whole, 0) : Starts(whole, 0)[i] \in Nat /\ ReadInFull(whole, 0, Starts(whole, 0)[i])
    BY <2>6, CommandsFollow
  <2>8. p \in Nat /\ q \in Nat /\ ReadInFull(whole, 0, p)
    BY <2>5, <2>7
  <2>9. whole[p + 5] \in Int
    <3>1. SizedAs(whole, 0, p)
      BY <2>8 DEF ReadInFull
    <3>2. whole[p + 2] = 6
      BY <2>5, <3>1, SizedAsIs, ZenonT(60)
    <3>3. \A m \in 1..6 : whole[p + m] \in Int
      BY <2>6, <2>8, <3>2, ReadInFullIs, SMTT(60)
    <3> QED BY <3>3
  <2>10. PICK o \in Int : o = whole[p + 4 + 1] /\ 0 + o = o
    <3>1. p + 4 + 1 = p + 5
      BY <2>8
    <3> QED BY <2>9, <3>1
  <2>11. HasTables(whole, 0, p, q)
    BY <2>3, <2>5, <2>10 DEF HasTables
  <2>12. StubNames(whole, 0, objects[1])
    <3>1. Len(objects) = 1 /\ Bases(whole)[1] = 0
      BY <2>3, <2>6
    <3>2. 1 \in DOMAIN objects
      BY <2>6, <3>1
    <3> QED BY <1>1, <2>3, <3>1, <3>2 DEF PatchInv, NamesRight
  <2>13. StubNamed(whole, 0, p, q, objects[1], h)
    BY <2>8, <2>11, <2>12 DEF StubNames
  <2>14. objects[1].dynsymbols[h].name = whole[0 + whole[p + 4 + 1] + index(symbol(h)) + 1]
    BY <2>2, <2>3, <2>13 DEF StubNamed
  <2> QED BY <2>10, <2>14
<1> QED BY <1>1, PatchInvariant, PTL
=============================================================================
