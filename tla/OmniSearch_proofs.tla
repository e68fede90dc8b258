------------------------- MODULE OmniSearch_proofs -------------------------
(***************************************************************************)
(* OmniSearch with its main view and its tags, for every binary, column    *)
(* width, pattern, number of threads and bound.  The argument goes from    *)
(* data to dialog.  The document is always laid out as setup would, line   *)
(* by line (ViewOK), and a tag is always used once (Tidy).  The text of    *)
(* such a document ends with a line, so that chunks cut at line ends tile  *)
(* it and each match lies in one chunk and in one line.  On that rests     *)
(* what the dialog promises (DialogOK): candidates are right for the input *)
(* on show until a step takes the promise back, and the line an activated  *)
(* one leads to is the one that was found.                                 *)
(***************************************************************************)
EXTENDS OmniSearch, Regions_proofs

-----------------------------------------------------------------------------
(***************************************************************************)
(* Tags                                                                    *)
(***************************************************************************)

\* A list of tags for some addresses.
TagTable(ts) == IsFiniteSet(DOMAIN ts) /\ ts \in [DOMAIN ts -> Seq(Tag)]
\* A tag is used once, at one address.
UsedOnce(ts) ==
  \A a, b \in DOMAIN ts : \A i \in DOMAIN ts[a], j \in DOMAIN ts[b] :
    ts[a][i] = ts[b][j] => a = b /\ i = j

\* What the project keeps.
Tidy(ts) == TagTable(ts) /\ UsedOnce(ts)

\* A list put in for an address.
With(ts, a, list) == [x \in DOMAIN ts \union {a} |-> IF x = a THEN list ELSE ts[x]]

\* A list of tags as a sequence.
LEMMA ListType ==
  ASSUME NEW ts, TagTable(ts), NEW a \in DOMAIN ts
  PROVE  /\ ts[a] \in Seq(Tag) /\ Len(ts[a]) \in Nat /\ DOMAIN ts[a] = 1..Len(ts[a])
         /\ \A i \in DOMAIN ts[a] : ts[a][i] \in Tag
<1>1. ts[a] \in Seq(Tag)
  BY DEF TagTable
<1> QED BY ONLY <1>1

\* So are the tags of any address.
LEMMA TagsAtType ==
  ASSUME NEW ts, TagTable(ts), NEW a
  PROVE  TagsAt(ts, a) \in Seq(Tag)
BY ListType DEF TagsAt

\* A tag is used if it is somewhere in the table.
LEMMA UsedIs ==
  ASSUME NEW ts, TagTable(ts), NEW tag
  PROVE  IsUsed(ts, tag) <=> \E a \in DOMAIN ts : \E i \in DOMAIN ts[a] : ts[a][i] = tag
BY ListType DEF IsUsed, Contains

\* Added, where the tag is not used.
LEMMA AddedWith ==
  ASSUME NEW ts, NEW tag, NEW a, ~IsUsed(ts, tag)
  PROVE  Added(ts, tag, a) = With(ts, a, Append(TagsAt(ts, a), tag))
BY DEF Added, With

\* What has become of the table then.
IsWith(new, ts, a, list) ==
  /\ TagTable(new)
  /\ DOMAIN new = DOMAIN ts \union {a}
  /\ new[a] = list
  /\ \A x \in DOMAIN ts : x # a => new[x] = ts[x]

\* The table with one more list is a table, and the other lists stay.
LEMMA WithTable ==
  ASSUME NEW ts, TagTable(ts), NEW list \in Seq(Tag), NEW a
  PROVE  IsWith(With(ts, a, list), ts, a, list)
<1>1. IsFiniteSet(DOMAIN ts \union {a})
  BY FS_AddElement DEF TagTable
<1>2. With(ts, a, list) \in [DOMAIN ts \union {a} -> Seq(Tag)]
  BY DEF TagTable, With
<1> QED BY <1>1, <1>2 DEF TagTable, With, IsWith

\* addAddressTag keeps the table tidy.
LEMMA AddedIs ==
  ASSUME NEW ts, Tidy(ts), NEW tag \in Tag, NEW a
  PROVE  Tidy(Added(ts, tag, a))
<1>1. CASE IsUsed(ts, tag)
  BY <1>1 DEF Added
<1>2. CASE ~IsUsed(ts, tag)
  <2>0. PICK s \in Seq(Tag) : s = TagsAt(ts, a)
    BY TagsAtType DEF Tidy
  <2>1. PICK new : s = TagsAt(ts, a) /\ new = Append(s, tag)
    BY <2>0
  <2>2. PICK t : t = With(ts, a, new)
    OBVIOUS
  <2>3. new \in Seq(Tag) /\ Len(s) \in Nat /\ DOMAIN new = 1..(Len(s) + 1) /\ new[Len(s) + 1] = tag
        /\ \A i \in 1..Len(s) : new[i] = s[i]
    BY <2>1
  <2>4. /\ TagTable(t) /\ DOMAIN t = DOMAIN ts \union {a} /\ t[a] = new
        /\ \A x \in DOMAIN ts : x # a => t[x] = ts[x]
    <3>1. TagTable(ts) /\ new \in Seq(Tag)
      BY <2>3 DEF Tidy
    <3>2. IsWith(With(ts, a, new), ts, a, new)
      BY ONLY <3>1, WithTable
    <3> QED BY ONLY <2>2, <3>2 DEF IsWith
  \* An entry is the new one or an old one.
  <2>5. ASSUME NEW x \in DOMAIN t, NEW i \in DOMAIN t[x]
        PROVE  \/ x = a /\ i = Len(s) + 1 /\ t[x][i] = tag
               \/ x \in DOMAIN ts /\ i \in DOMAIN ts[x] /\ t[x][i] = ts[x][i]
    <3>1. CASE x # a
      BY <2>4, <3>1
    <3>2. CASE x = a /\ i = Len(s) + 1
      BY <2>3, <2>4, <3>2
    <3>3. CASE x = a /\ i # Len(s) + 1
      <4>1. i \in 1..Len(s) /\ t[x][i] = s[i]
        BY <2>3, <2>4, <3>3
      <4>2. s # <<>>
        BY <2>1, <4>1
      <4>3. a \in DOMAIN ts /\ s = ts[a]
        BY <2>1, <4>2 DEF TagsAt
      <4>4. DOMAIN s = 1..Len(s)
        BY <2>1
      <4> QED BY <3>3, <4>1, <4>3, <4>4
    <3> QED BY <3>1, <3>2, <3>3
  <2>6. \A x \in DOMAIN ts : \A i \in DOMAIN ts[x] : ts[x][i] # tag
    BY <1>2, UsedIs DEF Tidy
  <2>7. UsedOnce(t)
    <3>1. ASSUME NEW x \in DOMAIN t, NEW y \in DOMAIN t, NEW i \in DOMAIN t[x], NEW j \in DOMAIN t[y], t[x][i] = t[y][j]
          PROVE  x = y /\ i = j
      <4>1. \/ x = a /\ i = Len(s) + 1 /\ t[x][i] = tag
            \/ x \in DOMAIN ts /\ i \in DOMAIN ts[x] /\ t[x][i] = ts[x][i]
        BY <2>5
      <4>2. \/ y = a /\ j = Len(s) + 1 /\ t[y][j] = tag
            \/ y \in DOMAIN ts /\ j \in DOMAIN ts[y] /\ t[y][j] = ts[y][j]
        BY <2>5
      <4>3. UsedOnce(ts)
        BY DEF Tidy
      <4> QED BY <2>6, <3>1, <4>1, <4>2, <4>3 DEF UsedOnce
    <3> QED BY <3>1 DEF UsedOnce
  <2> QED BY <1>2, <2>1, <2>2, <2>4, <2>7, AddedWith DEF Tidy
<1> QED BY <1>1, <1>2

\* So does removeAddressTags, which leaves the addresses there, even without tags.
LEMMA WithoutIs ==
  ASSUME NEW ts, Tidy(ts), NEW gone
  PROVE  Tidy(Without(ts, gone)) /\ DOMAIN Without(ts, gone) = DOMAIN ts
<1>1. PICK t : t = Without(ts, gone)
  OBVIOUS
<1> DEFINE K(a) == {i \in DOMAIN ts[a] : ts[a][i] \notin gone}
<1>2. DOMAIN t = DOMAIN ts /\ t = [a \in DOMAIN ts |-> Selected(ts[a], K(a))]
  BY <1>1 DEF Without
<1>3. ASSUME NEW a \in DOMAIN ts
      PROVE  /\ t[a] \in Seq(Tag)
             /\ \A k \in DOMAIN t[a] : Nth(K(a), k) \in DOMAIN ts[a] /\ t[a][k] = ts[a][Nth(K(a), k)]
             /\ \A k, l \in DOMAIN t[a] : k < l => Nth(K(a), k) < Nth(K(a), l)
             /\ DOMAIN t[a] \subseteq Nat
  <2>1. ts[a] \in Seq(Tag) /\ DOMAIN ts[a] = 1..Len(ts[a])
    BY ListType DEF Tidy
  <2>2. PICK s, S : s = ts[a] /\ S = K(a) /\ S \subseteq DOMAIN s
    OBVIOUS
  <2>3. s \in Seq(Tag)
    BY <2>1, <2>2
  <2> HIDE DEF K
  <2>4. /\ Selected(s, S) \in Seq(Tag)
        /\ Len(Selected(s, S)) = Cardinality(S)
        /\ DOMAIN Selected(s, S) = 1..Cardinality(S)
        /\ \A k \in DOMAIN Selected(s, S) :
             Nth(S, k) \in S /\ Selected(s, S)[k] = s[Nth(S, k)]
        /\ \A k, l \in DOMAIN Selected(s, S) : k < l => Nth(S, k) < Nth(S, l)
        /\ \A i \in S : Rank(S, i) \in DOMAIN Selected(s, S) /\ Nth(S, Rank(S, i)) = i
        /\ S \subseteq DOMAIN s
    BY ONLY <2>2, <2>3, SelectedEnumerates
  <2>5. t[a] = Selected(s, S)
    BY <1>2, <2>2
  <2>6. DOMAIN t[a] \subseteq Nat
    BY <2>4, <2>5
  <2> QED BY <2>2, <2>4, <2>5, <2>6
<1>4. TagTable(t)
  BY <1>2, <1>3 DEF TagTable, Tidy
<1>5. UsedOnce(t)
  <2>1. ASSUME NEW x \in DOMAIN t, NEW y \in DOMAIN t, NEW i \in DOMAIN t[x], NEW j \in DOMAIN t[y], t[x][i] = t[y][j]
        PROVE  x = y /\ i = j
    <3>1. PICK p \in DOMAIN ts[x], q \in DOMAIN ts[y] :
            p = Nth(K(x), i) /\ q = Nth(K(y), j) /\ ts[x][p] = ts[y][q]
      <4> HIDE DEF K
      <4>1. x \in DOMAIN ts /\ y \in DOMAIN ts
        BY <1>2
      <4>2. Nth(K(x), i) \in DOMAIN ts[x] /\ t[x][i] = ts[x][Nth(K(x), i)]
        BY <1>3, <4>1
      <4>3. Nth(K(y), j) \in DOMAIN ts[y] /\ t[y][j] = ts[y][Nth(K(y), j)]
        BY <1>3, <4>1
      <4> QED BY ONLY <2>1, <4>2, <4>3
    <3>2. x = y /\ p = q
      BY <1>2, <3>1 DEF Tidy, UsedOnce
    <3>3. Nth(K(x), i) = Nth(K(x), j) /\ p \in Nat
      <4>1. p \in Nat
        BY <1>2, ListType DEF Tidy
      <4> QED BY <3>1, <3>2, <4>1
    <3>4. i \in Nat /\ j \in Nat
      BY <1>2, <1>3, <3>2
    <3>5. ~(i < j) /\ ~(j < i)
      <4> HIDE DEF K
      <4>1. i < j => Nth(K(x), i) < Nth(K(x), j)
        BY <1>2, <1>3, <3>2
      <4>2. j < i => Nth(K(x), j) < Nth(K(x), i)
        BY <1>2, <1>3, <3>2
      <4> QED BY <3>1, <3>2, <3>3, <4>1, <4>2
    <3> QED BY <3>2, <3>4, <3>5
  <2> QED BY <2>1 DEF UsedOnce
<1> QED BY <1>1, <1>2, <1>4, <1>5 DEF Tidy

\* Tags added one by one, to an address without any.
LEMMA AddedAllIs ==
  ASSUME NEW ts, TagTable(ts), NEW list \in Seq(Tag), NEW a, a \notin DOMAIN ts,
         \A i, j \in DOMAIN list : list[i] = list[j] => i = j,
         \A i \in DOMAIN list : ~IsUsed(ts, list[i])
  PROVE  AddedAll(ts, list, a) = IF list = <<>> THEN ts ELSE With(ts, a, list)
<1> DEFINE n == Len(list)
           Upto(k) == IF k = 0 THEN ts ELSE With(ts, a, SubSeq(list, 1, k))
           g == [k \in 0..n |-> Upto(k)]
<1>1. n \in Nat /\ DOMAIN list = 1..n
  OBVIOUS
<1>2. ASSUME NEW k \in 1..n PROVE Added(Upto(k - 1), list[k], a) = Upto(k)
  <2>1. k - 1 \in 0..n /\ (k - 1 = 0 <=> k = 1) /\ k # 0 /\ list[k] \in Tag
    BY <1>1
  <2>2. CASE k = 1
    <3>1. Upto(k - 1) = ts /\ TagsAt(ts, a) = <<>> /\ ~IsUsed(ts, list[k])
      BY <1>1, <2>2 DEF TagsAt
    <3>2. Append(<<>>, list[k]) = SubSeq(list, 1, k)
      BY <1>1, <2>2
    <3> QED BY <2>1, <3>1, <3>2, AddedWith
  <2>3. CASE k # 1
    <3>1. PICK t, s : t = With(ts, a, s) /\ s = SubSeq(list, 1, k - 1)
      OBVIOUS
    <3>2. s \in Seq(Tag) /\ DOMAIN s = 1..(k - 1) /\ \A i \in 1..(k - 1) : s[i] = list[i]
      BY <1>1, <3>1
    <3>3. /\ TagTable(t) /\ DOMAIN t = DOMAIN ts \union {a} /\ t[a] = s
          /\ \A x \in DOMAIN ts : x # a => t[x] = ts[x]
      <4>1. TagTable(ts) /\ s \in Seq(Tag)
        BY <3>2
      <4>2. IsWith(With(ts, a, s), ts, a, s)
        BY ONLY <4>1, WithTable
      <4> QED BY ONLY <3>1, <4>2 DEF IsWith
    <3>4. ~IsUsed(t, list[k])
      <4>1. \A x \in DOMAIN ts : x # a /\ \A i \in DOMAIN ts[x] : ts[x][i] # list[k]
        BY <1>1, UsedIs
      <4>2. \A i \in 1..(k - 1) : list[i] # list[k]
        BY <1>1
      <4> QED BY <3>2, <3>3, <4>1, <4>2, UsedIs
    <3>5. TagsAt(t, a) = s
      BY <3>3 DEF TagsAt
    <3>6. Append(s, list[k]) = SubSeq(list, 1, k)
      BY <1>1, <2>3, <3>1
    <3>7. With(t, a, SubSeq(list, 1, k)) = With(ts, a, SubSeq(list, 1, k))
      BY <3>3 DEF With
    <3>8. Upto(k - 1) = t
      BY <2>1, <2>3, <3>1
    <3> QED BY <2>1, <3>4, <3>5, <3>6, <3>7, <3>8, AddedWith
  <2> QED BY <2>2, <2>3
<1>3. g = [k \in 0..n |-> IF k = 0 THEN ts ELSE Added(g[k - 1], list[k], a)]
  <2> HIDE DEF Upto
  <2>1. ASSUME NEW k \in 0..n PROVE g[k] = IF k = 0 THEN ts ELSE Added(g[k - 1], list[k], a)
    <3>1. CASE k = 0
      BY <3>1 DEF Upto
    <3>2. CASE k # 0
      <4>1. k \in 1..n /\ k - 1 \in 0..n
        BY <1>1, <3>2
      <4> QED BY <1>2, <3>2, <4>1
    <3> QED BY <3>1, <3>2
  <2> QED BY <2>1
<1> HIDE DEF g, Upto
<1> DEFINE f == CHOOSE h : h = [k \in 0..n |-> IF k = 0 THEN ts ELSE Added(h[k - 1], list[k], a)]
<1>4. f = [k \in 0..n |-> IF k = 0 THEN ts ELSE Added(f[k - 1], list[k], a)]
  BY <1>3
<1>5. AddedAll(ts, list, a) = f[n]
  BY DEF AddedAll
<1> HIDE DEF f
<1>6. f[0] = ts /\ \A k \in 1..n : f[k] = Added(f[k - 1], list[k], a)
  <2>1. ASSUME NEW k \in 0..n PROVE f[k] = IF k = 0 THEN ts ELSE Added(f[k - 1], list[k], a)
    BY <1>4
  <2>2. 0 \in 0..n /\ \A k \in 1..n : k \in 0..n /\ k # 0
    BY <1>1
  <2> QED BY <2>1, <2>2
<1> DEFINE P == {k \in 1..n : f[k] = Upto(k)}
<1>7. n > 0 => 1 \in P
  <2>1. 1 - 1 = 0 /\ Upto(0) = ts
    BY DEF Upto
  <2> QED BY <1>1, <1>2, <1>6, <2>1
<1>8. ASSUME NEW k \in 1..n, k < n, k \in P PROVE k + 1 \in P
  <2>1. PICK i \in 1..n : i = k + 1 /\ i - 1 = k
    BY <1>1, <1>8
  <2> QED BY <1>2, <1>6, <1>8, <2>1
<1>9. \A k \in 1..n : k \in P
  <2> HIDE DEF P, n
  <2> QED BY <1>1, <1>7, <1>8, Climb
<1>10. f[n] = IF list = <<>> THEN ts ELSE With(ts, a, list)
  <2>1. CASE n = 0
    BY <1>6, <2>1
  <2>2. CASE n # 0
    <3>1. n \in 1..n /\ list # <<>> /\ SubSeq(list, 1, n) = list
      BY <1>1, <2>2
    <3> QED BY <1>9, <2>2, <3>1 DEF Upto
  <2> QED BY <2>1, <2>2
<1> QED BY <1>5, <1>10

\* The keys of a table, in some order.
LEMMA KeysAre ==
  ASSUME NEW S, IsFiniteSet(S)
  PROVE  /\ Cardinality(S) \in Nat /\ Len(SetToSeq(S)) = Cardinality(S)
         /\ SetToSeq(S) \in [1..Cardinality(S) -> S]
         /\ \A i, j \in 1..Cardinality(S) : SetToSeq(S)[i] = SetToSeq(S)[j] => i = j
         /\ \A x \in S : \E i \in 1..Cardinality(S) : SetToSeq(S)[i] = x
<1>1. PICK n : n = Cardinality(S) /\ n \in Nat
  BY FS_CardinalityType
<1>2. PICK b : b \in Bijection(1..n, S)
  BY <1>1, FS_CardinalityType DEF ExistsBijection
<1>3. b \in [1..n -> S] /\ IsInjective(b)
  BY <1>2 DEF Bijection, Injection
<1>4. SetToSeq(S) \in [1..n -> S] /\ IsInjective(SetToSeq(S))
  BY <1>1, <1>3 DEF SetToSeq
<1>5. SetToSeq(S) \in Injection(1..n, S)
  BY <1>4 DEF Injection
<1>6. IsFiniteSet(1..n) /\ Cardinality(1..n) = n
  <2>1. IsFiniteSet(1..n) /\ Cardinality(1..n) = IF 1 > n THEN 0 ELSE n - 1 + 1
    <3>1. 1 \in Int /\ n \in Int
      BY <1>1
    <3> QED BY ONLY <3>1, FS_Interval
  <2> QED BY <1>1, <2>1
<1>7. SetToSeq(S) \in Surjection(1..n, S)
  BY <1>1, <1>5, <1>6, FS_Injection
<1>8. \A x \in S : \E i \in 1..n : SetToSeq(S)[i] = x
  BY <1>7 DEF Surjection
<1>9. \A i, j \in 1..n : SetToSeq(S)[i] = SetToSeq(S)[j] => i = j
  BY <1>4 DEF IsInjective
<1>10. Len(SetToSeq(S)) = n
  BY <1>1, <1>4
<1> QED BY <1>1, <1>4, <1>8, <1>9, <1>10

\* What is read back are the addresses that have tags, with all of them.
LEMMA RereadIs ==
  ASSUME NEW ts, Tidy(ts)
  PROVE  Reread(ts) = [a \in {x \in DOMAIN ts : ts[x] # <<>>} |-> ts[a]]
<1> DEFINE keys == SetToSeq(DOMAIN ts)
           n == Len(keys)
           Had(k) == {x \in DOMAIN ts : ts[x] # <<>> /\ \E j \in 1..k : keys[j] = x}
           Upto(k) == [a \in Had(k) |-> ts[a]]
           g == [k \in 0..n |-> Upto(k)]
<1>1. /\ n \in Nat /\ keys \in [1..n -> DOMAIN ts]
      /\ \A i, j \in 1..n : keys[i] = keys[j] => i = j
      /\ \A x \in DOMAIN ts : \E i \in 1..n : keys[i] = x
  BY KeysAre DEF Tidy, TagTable
<1> HIDE DEF keys
<1>2. ASSUME NEW k \in 1..n PROVE AddedAll(Upto(k - 1), ts[keys[k]], keys[k]) = Upto(k)
  <2>1. PICK a \in DOMAIN ts : a = keys[k]
    BY <1>1
  <2>2. PICK list \in Seq(Tag) : list = ts[a]
    BY ListType DEF Tidy
  <2>3. PICK t : t = Upto(k - 1)
    OBVIOUS
  <2>4. DOMAIN t = Had(k - 1) /\ DOMAIN t \subseteq DOMAIN ts /\ \A x \in DOMAIN t : t[x] = ts[x]
    BY <2>3
  <2>5. TagTable(t)
    <3>1. IsFiniteSet(DOMAIN t)
      BY <2>4, FS_Subset DEF Tidy, TagTable
    <3>2. t = [x \in DOMAIN t |-> t[x]]
      BY <2>3
    <3> QED BY <2>4, <3>1, <3>2 DEF Tidy, TagTable
  <2>6. a \notin DOMAIN t
    <3>1. \A j \in 1..(k - 1) : j \in 1..n /\ j # k
      BY <1>1
    <3> QED BY <1>1, <2>1, <2>4, <3>1 DEF Tidy, TagTable
  <2>7. \A i, j \in DOMAIN list : list[i] = list[j] => i = j
    BY <2>2 DEF Tidy, UsedOnce
  <2>8. \A i \in DOMAIN list : ~IsUsed(t, list[i])
    <3>1. ASSUME NEW i \in DOMAIN list, NEW x \in DOMAIN t, NEW j \in DOMAIN t[x] PROVE t[x][j] # list[i]
      <4>1. x \in DOMAIN ts /\ t[x] = ts[x] /\ x # a
        BY <2>4, <2>6
      <4> QED BY <2>2, <4>1 DEF Tidy, UsedOnce
    <3> QED BY <2>5, <3>1, UsedIs
  <2>9. AddedAll(t, list, a) = IF list = <<>> THEN t ELSE With(t, a, list)
    BY <2>5, <2>6, <2>7, <2>8, AddedAllIs
  <2>10. Had(k) = IF list = <<>> THEN Had(k - 1) ELSE Had(k - 1) \union {a}
    <3>1. \A j \in 1..k : j \in 1..(k - 1) \/ j = k
      BY <1>1
    <3>2. k \in 1..k /\ \A j \in 1..(k - 1) : j \in 1..k
      BY <1>1
    <3> QED BY <2>1, <2>2, <3>1, <3>2
  <2>11. Upto(k) = IF list = <<>> THEN t ELSE With(t, a, list)
    <3>1. CASE list = <<>>
      BY <2>3, <2>10, <3>1
    <3>2. CASE list # <<>>
      <4>1. Had(k) = DOMAIN t \union {a}
        BY <2>4, <2>10, <3>2
      <4>2. \A x \in DOMAIN t : x # a
        BY <2>6
      <4> HIDE DEF Had
      <4> QED BY <2>2, <2>4, <3>2, <4>1, <4>2 DEF With
    <3> QED BY <3>1, <3>2
  <2> QED BY <2>1, <2>2, <2>3, <2>9, <2>11
<1>3. Upto(0) = NoTags
  <2>1. Had(0) = {}
    OBVIOUS
  <2> QED BY <2>1 DEF NoTags
<1> HIDE DEF Upto
<1>4. g = [k \in 0..n |-> IF k = 0 THEN NoTags ELSE AddedAll(g[k - 1], ts[keys[k]], keys[k])]
  <2>1. ASSUME NEW k \in 0..n PROVE g[k] = IF k = 0 THEN NoTags ELSE AddedAll(g[k - 1], ts[keys[k]], keys[k])
    <3>1. CASE k = 0
      BY <1>3, <3>1
    <3>2. CASE k # 0
      <4>1. k \in 1..n /\ k - 1 \in 0..n
        BY <1>1, <3>2
      <4> QED BY <1>2, <3>2, <4>1
    <3> QED BY <3>1, <3>2
  <2> QED BY <2>1
<1> HIDE DEF g
<1> DEFINE f == CHOOSE h : h = [k \in 0..n |-> IF k = 0 THEN NoTags ELSE AddedAll(h[k - 1], ts[keys[k]], keys[k])]
<1>5. f = [k \in 0..n |-> IF k = 0 THEN NoTags ELSE AddedAll(f[k - 1], ts[keys[k]], keys[k])]
  BY <1>4
<1>6. Reread(ts) = f[n]
  BY DEF Reread, keys
<1> HIDE DEF f
<1>7. f[0] = NoTags /\ \A k \in 1..n : f[k] = AddedAll(f[k - 1], ts[keys[k]], keys[k])
  <2>1. ASSUME NEW k \in 0..n PROVE f[k] = IF k = 0 THEN NoTags ELSE AddedAll(f[k - 1], ts[keys[k]], keys[k])
    BY <1>5
  <2>2. 0 \in 0..n /\ \A k \in 1..n : k \in 0..n /\ k # 0
    BY <1>1
  <2> QED BY <2>1, <2>2
<1> DEFINE P == {k \in 1..n : f[k] = Upto(k)}
<1>8. n > 0 => 1 \in P
  <2>1. 1 - 1 = 0
    OBVIOUS
  <2> QED BY <1>1, <1>2, <1>3, <1>7, <2>1
<1>9. ASSUME NEW k \in 1..n, k < n, k \in P PROVE k + 1 \in P
  <2>1. PICK i \in 1..n : i = k + 1 /\ i - 1 = k
    BY <1>1, <1>9
  <2> QED BY <1>2, <1>7, <1>9, <2>1
<1>10. \A k \in 1..n : k \in P
  <2> HIDE DEF P, n
  <2> QED BY <1>1, <1>8, <1>9, Climb
<1>11. f[n] = Upto(n)
  <2>1. CASE n = 0
    BY <1>3, <1>7, <2>1
  <2>2. CASE n # 0
    BY <1>1, <1>10, <2>2
  <2> QED BY <2>1, <2>2
<1>12. Had(n) = {x \in DOMAIN ts : ts[x] # <<>>}
  BY <1>1
<1> QED BY <1>6, <1>11, <1>12 DEF Upto

\* The project read back is tidy and has the same tags at every address.
LEMMA ReadBack ==
  ASSUME NEW ts, Tidy(ts)
  PROVE  /\ Tidy(Reread(ts))
         /\ \A a : TagsAt(Reread(ts), a) = TagsAt(ts, a)
<1>1. PICK r : r = Reread(ts)
  OBVIOUS
<1>2. /\ DOMAIN r = {x \in DOMAIN ts : ts[x] # <<>>} /\ \A a \in DOMAIN r : r[a] = ts[a]
      /\ r = [a \in DOMAIN r |-> ts[a]]
  BY <1>1, RereadIs
<1>3. TagTable(r)
  <2>1. IsFiniteSet(DOMAIN r)
    BY <1>2, FS_Subset DEF Tidy, TagTable
  <2> QED BY <1>2, <2>1 DEF Tidy, TagTable
<1>4. UsedOnce(r)
  BY <1>2 DEF Tidy, UsedOnce
<1>5. \A a : TagsAt(r, a) = TagsAt(ts, a)
  BY <1>2 DEF TagsAt
<1> QED BY <1>1, <1>3, <1>4, <1>5 DEF Tidy

-----------------------------------------------------------------------------
(***************************************************************************)
(* The lines of the document                                               *)
(***************************************************************************)

\* Every instruction has an address.
LEMMA CodeAtIs == \A i \in DOMAIN Code : CodeAt[i] \in Nat
<1>1. PICK n \in Nat : n = Len(Code) /\ n > 0 /\ DOMAIN Code = 1..n /\ \A i \in 1..n : Code[i] \in Nat
  BY ViewAssumption
<1>2. CodeAddress \in Nat
  BY ViewAssumption
<1> DEFINE back == [i \in 1..n |-> i - 1]
           step == [i \in 1..n |-> [x \in Nat |-> IF i = 1 THEN CodeAddress ELSE x + Code[i - 1]]]
<1>3. back \in [1..n -> Nat] /\ \A i \in 1..n : back[i] < i
  BY <1>1
<1>4. step \in [1..n -> [Nat -> Nat]]
  <2>1. \A i \in 1..n : i # 1 => Code[i - 1] \in Nat
    BY <1>1
  <2> QED BY <1>2, <2>1
<1>5. PICK g : g \in [1..n -> Nat] /\ \A i \in 1..n : g[i] = step[i][IF back[i] = 0 THEN 0 ELSE g[back[i]]]
  <2> HIDE DEF back, step
  <2>1. Solutions(n, Nat, back, step, 0) # {}
    BY <1>3, <1>4, LeapRecursion
  <2> QED BY <2>1 DEF Solutions
<1>6. g = [i \in DOMAIN Code |-> IF i = 1 THEN CodeAddress ELSE g[i - 1] + Code[i - 1]]
  <2>1. ASSUME NEW i \in 1..n PROVE g[i] = IF i = 1 THEN CodeAddress ELSE g[i - 1] + Code[i - 1]
    <3>1. PICK x \in Nat : x = IF back[i] = 0 THEN 0 ELSE g[back[i]]
      BY <1>3, <1>5
    <3>2. g[i] = step[i][x]
      BY <1>5, <3>1
    <3>3. i # 1 => x = g[i - 1]
      BY <3>1
    <3> QED BY <3>2, <3>3
  <2> QED BY <1>1, <1>5, <2>1
<1>7. CodeAt = [i \in DOMAIN Code |-> IF i = 1 THEN CodeAddress ELSE CodeAt[i - 1] + Code[i - 1]]
  BY <1>6 DEF CodeAt
<1>8. ASSUME NEW i \in 1..n PROVE CodeAt[i] = IF i = 1 THEN CodeAddress ELSE CodeAt[i - 1] + Code[i - 1]
  BY <1>1, <1>7
<1> DEFINE P == {i \in 1..n : CodeAt[i] \in Nat}
<1>9. 1 \in P
  BY <1>1, <1>2, <1>8
<1>10. ASSUME NEW k \in 1..n, k < n, k \in P PROVE k + 1 \in P
  <2>1. PICK i \in 1..n : i = k + 1 /\ i - 1 = k /\ i # 1
    BY <1>10
  <2> QED BY <1>1, <1>8, <1>10, <2>1
<1>11. \A k \in 1..n : k \in P
  <2> HIDE DEF P
  <2> QED BY <1>9, <1>10, Climb
<1> QED BY <1>1, <1>11

\* firstAddress is the address of an instruction.
LEMMA FirstIs == \E i \in DOMAIN Code : CodeAt[i] = FirstAddress /\ i \in 1..Len(Code) /\ FirstAddress \in Nat
<1>1. PICK n \in Nat : n = Len(Code) /\ n > 0 /\ DOMAIN Code = 1..n
  BY ViewAssumption
<1>2. PICK i \in 1..n : i = IF CodeAddress = 0 /\ Len(Code) > 1 THEN 2 ELSE 1
  <2>1. 1 \in 1..n /\ (n > 1 => 2 \in 1..n)
    BY <1>1
  <2> QED BY <1>1, <2>1
<1>3. CodeAt[i] = FirstAddress
  BY <1>2 DEF FirstAddress
<1>4. CodeAt[i] \in Nat
  BY <1>1, CodeAtIs
<1> QED BY <1>1, <1>3, <1>4

\* A string: where it begins and how long its first part is.
StringPlace == [offset : Nat, first : Nat]

\* The least of some numbers.
LEMMA MinIs ==
  ASSUME NEW S, S \subseteq Nat, S # {}
  PROVE  Min(S) \in S /\ \A x \in S : Min(S) =< x
<1>1. \E x \in S : \A y \in S : x =< y
  <2>1. PICK a \in S : TRUE
    OBVIOUS
  <2> DEFINE K == {x \in 1..(a + 1) : x - 1 \in S}
  <2>2. K \subseteq 1..(a + 1) /\ a + 1 \in Nat /\ a + 1 \in K
    BY <2>1
  <2>3. PICK m \in K : \A i \in K : m =< i
    <3> HIDE DEF K
    <3> QED BY <2>2, LeastIndex
  <2>4. m - 1 \in S
    OBVIOUS
  <2>5. ASSUME NEW y \in S PROVE m - 1 =< y
    <3>1. CASE y =< a
      <4>1. y + 1 \in K
        BY <3>1
      <4> QED BY <2>3, <4>1
    <3>2. CASE y > a
      BY <2>1, <2>3, <3>2
    <3> QED BY <3>1, <3>2
  <2> QED BY <2>4, <2>5
<1> QED BY <1>1 DEF Min

\* The strings of the C string section are places in it.
LEMMA StringsType == Strings \in Seq(StringPlace)
<1> DEFINE D == Seq(StringPlace)
           Begins(p) == {q \in p..Len(StringData) : StringData[q] # 0}
           Ends(p) == {q \in Min(Begins(p))..Len(StringData) : StringData[q] = 0}
           After(p) == IF Ends(p) = {} THEN Len(StringData) + 1 ELSE Min(Ends(p))
           Place(p) == [offset |-> p - 1, first |-> Min(Begins(p))]
<1>1. PICK n \in Nat : n = Len(StringData) + 2 /\ n - 2 \in Nat /\ Len(StringData) = n - 2 /\ Len(StringData) + 1 = n - 1
  BY ViewAssumption
<1>2. ASSUME NEW p \in 1..n, Begins(p) # {}
      PROVE  Place(p) \in StringPlace /\ After(p) \in p..(n - 1)
  <2>1. Begins(p) \subseteq Nat
    BY <1>1
  <2>2. Min(Begins(p)) \in Begins(p)
    <3> HIDE DEF Begins
    <3> QED BY <1>2, <2>1, MinIs
  <2>3. PICK b \in p..(n - 2) : b = Min(Begins(p))
    BY <1>1, <2>2
  <2>4. Ends(p) \subseteq b..(n - 2)
    BY <1>1, <2>3
  <2>5. Ends(p) # {} => Min(Ends(p)) \in Ends(p)
    <3>1. Ends(p) \subseteq Nat
      <4>1. b..(n - 2) \subseteq Nat
        <5>1. b \in Nat /\ n - 2 \in Nat
          BY ONLY <1>1, p \in 1..n, n \in Nat, b \in p..(n - 2)
        <5> QED BY ONLY <5>1
      <4> HIDE DEF Ends
      <4> QED BY ONLY <2>4, <4>1
    <3> HIDE DEF Ends
    <3> QED BY <3>1, MinIs
  <2>6. After(p) \in p..(n - 1)
    <3> HIDE DEF Ends, Begins
    <3> QED BY <1>1, <2>3, <2>4, <2>5
  <2>7. p - 1 \in Nat /\ b \in Nat
    BY <1>1
  <2> QED BY <2>3, <2>6, <2>7 DEF StringPlace
<1> HIDE DEF Begins, After, Place
\* Counted from the end.
<1> DEFINE back == [i \in 1..n |-> IF Begins(n + 1 - i) = {} THEN 0 ELSE n - After(n + 1 - i)]
           step == [i \in 1..n |-> [x \in D |-> IF Begins(n + 1 - i) = {} THEN <<>> ELSE <<Place(n + 1 - i)>> \o x]]
<1>3. ASSUME NEW i \in 1..n PROVE back[i] \in Nat /\ back[i] < i
  <2>1. PICK p \in 1..n : p = n + 1 - i
    BY ONLY n \in Nat, i \in 1..n
  <2>2. CASE Begins(p) = {}
    BY <2>1, <2>2
  <2>3. CASE Begins(p) # {}
    <3>1. After(p) \in p..(n - 1) /\ back[i] = n - After(p)
      BY <1>2, <2>1, <2>3
    <3> QED BY <2>1, <3>1
  <2> QED BY <2>2, <2>3
<1>4. step \in [1..n -> [D -> D]]
  <2>1. ASSUME NEW i \in 1..n, NEW x \in D
        PROVE  (IF Begins(n + 1 - i) = {} THEN <<>> ELSE <<Place(n + 1 - i)>> \o x) \in D
    <3>1. n + 1 - i \in 1..n
      BY ONLY n \in Nat, i \in 1..n
    <3>2. CASE Begins(n + 1 - i) = {}
      BY ONLY <3>2, <<>> \in D
    <3>3. CASE Begins(n + 1 - i) # {}
      <4>1. Place(n + 1 - i) \in StringPlace
        BY <1>2, <3>1, <3>3
      <4>2. <<Place(n + 1 - i)>> \o x \in D
        BY ONLY <4>1, x \in D
      <4> QED BY <3>3, <4>2
    <3> QED BY <3>2, <3>3
  <2> QED BY <2>1
<1>5. PICK g : g \in [1..n -> D] /\ \A i \in 1..n : g[i] = step[i][IF back[i] = 0 THEN <<>> ELSE g[back[i]]]
  <2>1. back \in [1..n -> Nat] /\ \A i \in 1..n : back[i] < i
    <3>1. back = [i \in 1..n |-> back[i]]
      OBVIOUS
    <3> HIDE DEF back
    <3> QED BY <1>3, <3>1
  <2>2. <<>> \in D
    OBVIOUS
  <2> HIDE DEF back, step, D
  <2>3. Solutions(n, D, back, step, <<>>) # {}
    BY <1>4, <2>1, <2>2, LeapRecursion
  <2> QED BY <2>3 DEF Solutions
<1> DEFINE h == [p \in 1..n |-> g[n + 1 - p]]
<1>6. h = [p \in 1..n |-> IF Begins(p) = {} THEN <<>> ELSE <<Place(p)>> \o h[After(p) + 1]]
  <2>1. ASSUME NEW p \in 1..n PROVE h[p] = IF Begins(p) = {} THEN <<>> ELSE <<Place(p)>> \o h[After(p) + 1]
    <3>1. PICK i \in 1..n : i = n + 1 - p /\ n + 1 - i = p
      <4>1. n + 1 - p \in 1..n /\ n + 1 - (n + 1 - p) = p
        BY ONLY n \in Nat, p \in 1..n
      <4> QED BY ONLY <4>1
    <3>2. PICK x \in D : x = IF back[i] = 0 THEN <<>> ELSE g[back[i]]
      <4>1. back[i] # 0 => back[i] \in 1..n
        BY <1>3
      <4>2. <<>> \in D
        OBVIOUS
      <4> HIDE DEF back, D
      <4> QED BY <1>5, <4>1, <4>2
    <3>3. h[p] = IF Begins(p) = {} THEN <<>> ELSE <<Place(p)>> \o x
      <4>1. h[p] = step[i][x]
        BY <1>5, <3>1, <3>2
      <4> QED BY <3>1, <4>1
    <3>4. Begins(p) # {} => x = h[After(p) + 1]
      <4>1. SUFFICES ASSUME Begins(p) # {} PROVE x = h[After(p) + 1]
        OBVIOUS
      <4>2. back[i] = n - After(p) /\ After(p) \in p..(n - 1)
        BY <1>2, <3>1, <4>1
      <4>3. PICK r \in 1..n : r = After(p) + 1 /\ n + 1 - r = back[i] /\ back[i] # 0
        BY <4>2
      <4> QED BY <3>2, <4>3
    <3> QED BY <3>3, <3>4
  <2> QED BY <2>1
<1> HIDE DEF h
<1>7. StringsFrom = [p \in 1..n |-> IF Begins(p) = {} THEN <<>> ELSE <<Place(p)>> \o StringsFrom[After(p) + 1]]
  BY <1>1, <1>6 DEF StringsFrom, Begins, Place, After
<1>8. ASSUME NEW p \in 1..n
      PROVE  StringsFrom[p] = IF Begins(p) = {} THEN <<>> ELSE <<Place(p)>> \o StringsFrom[After(p) + 1]
  BY <1>7
<1> DEFINE P == {i \in 1..n : StringsFrom[n + 1 - i] \in D}
<1>9. ASSUME NEW k \in 1..n, \A j \in 1..n : j < k => j \in P PROVE k \in P
  <2>1. PICK p \in 1..n : p = n + 1 - k
    BY ONLY n \in Nat, k \in 1..n
  <2>2. CASE Begins(p) = {}
    <3>1. StringsFrom[p] = <<>>
      BY <1>8, <2>2
    <3>2. <<>> \in D
      OBVIOUS
    <3> QED BY <2>1, <3>1, <3>2
  <2>3. CASE Begins(p) # {}
    <3>1. After(p) \in p..(n - 1) /\ Place(p) \in StringPlace
      BY <1>2, <2>3
    <3>2. PICK j \in 1..n : j = n - After(p) /\ j < k /\ n + 1 - j = After(p) + 1
      BY <2>1, <3>1
    <3>3. StringsFrom[After(p) + 1] \in D
      BY <1>9, <3>2
    <3>4. <<Place(p)>> \o StringsFrom[After(p) + 1] \in D
      BY <3>1, <3>3
    <3> QED BY <1>8, <2>1, <2>3, <3>4
  <2> QED BY <2>2, <2>3
<1>10. \A k \in 1..n : k \in P
  <2> HIDE DEF P
  <2> QED BY <1>9, LeapClimb
<1>11. n \in 1..n /\ n + 1 - n = 1
  BY <1>1
<1> QED BY <1>10, <1>11 DEF Strings

\* The characters of lines: none ends one.
Glyph == {"@", "b", "_", "i", "p", "s", "v", "d", "="}

\* No character of a line is the one that ends lines.
LEMMA GlyphsEndNoLine == LineEnd \notin Glyph
BY DEF LineEnd, Glyph

\* Any line of the document, with the section it belongs to or begins.
AnyLine == [text : Seq(Glyph), address : Nat \cup {NoAddress}, bytes : Nat, inText : BOOLEAN, section : 0..4]
\* Lines that never change.
Fixed(l) == l \in AnyLine /\ l.bytes = 0
\* A line without machine code and the same line with it.
Twins(l, m) ==
  \/ l = m /\ Fixed(l)
  \/ \E i \in DOMAIN Code : l = Instruction(i, FALSE) /\ m = Instruction(i, TRUE)

\* Lines of which each is the twin of the other.
Alike(s, t) ==
  /\ s \in Seq(AnyLine) /\ t \in Seq(AnyLine) /\ Len(s) = Len(t)
  /\ \A k \in 1..Len(s) : Twins(s[k], t[k])

\* A member of a sequence.
InSeq(x, s) == \E k \in 1..Len(s) : s[k] = x

\* The column of the machine code, as wide as it is or as the bytes need.
LEMMA PaddedIs ==
  ASSUME NEW n \in Nat
  PROVE  /\ Padded(n) \in Seq(Glyph)
         /\ Len(Padded(n)) = IF n < Width THEN Width ELSE n
<1>1. PICK m \in Nat : m = IF n < Width THEN Width ELSE n
  BY ViewAssumption
<1>2. Padded(n) = [i \in 1..m |-> IF i =< n THEN "b" ELSE "_"]
  BY <1>1 DEF Padded
<1>3. PICK p : p = Padded(n) /\ p \in [1..m -> Glyph]
  BY <1>2 DEF Glyph
<1>4. p \in Seq(Glyph) /\ Len(p) = m
  BY ONLY <1>3, m \in Nat
<1> QED BY <1>1, <1>3, <1>4

\* The texts of the lines without a column.
LEMMA ShortTexts ==
  /\ <<>> \in Seq(Glyph) /\ <<"@">> \in Seq(Glyph) /\ <<"i">> \in Seq(Glyph) /\ <<"p">> \in Seq(Glyph)
  /\ <<"=">> \in Seq(Glyph) /\ <<"@", "s">> \in Seq(Glyph) /\ <<"@", "v">> \in Seq(Glyph)
  /\ <<"@", "d">> \in Seq(Glyph)
<1>1. \A a, b \in Glyph : <<a>> \in Seq(Glyph) /\ <<a, b>> \in Seq(Glyph)
  OBVIOUS
<1>2. {"@", "i", "p", "=", "s", "v", "d"} \subseteq Glyph
  BY DEF Glyph
<1> QED BY <1>1, <1>2

\* The text of an instruction with and without its machine code.
ShownText(i, show) == <<"@">> \o (IF show THEN Padded(Code[i]) ELSE <<>>) \o <<"i">>

\* It is never empty.
LEMMA ShownTextIs ==
  ASSUME NEW i \in DOMAIN Code, NEW show \in BOOLEAN
  PROVE  ShownText(i, show) \in Seq(Glyph) /\ Len(ShownText(i, show)) >= 1
<1>1. Code[i] \in Nat
  BY ViewAssumption
<1>2. PICK p \in Seq(Glyph) : p = IF show THEN Padded(Code[i]) ELSE <<>>
  BY <1>1, PaddedIs, ShortTexts
<1>3. PICK a, b : a = <<"@">> /\ b = <<"i">> /\ a \in Seq(Glyph) /\ b \in Seq(Glyph) /\ Len(a) = 1
  <2>1. Len(<<"@">>) = 1
    OBVIOUS
  <2> QED BY <2>1, ShortTexts
<1>4. (a \o p) \o b \in Seq(Glyph) /\ Len((a \o p) \o b) >= 1
  BY <1>3
<1> QED BY <1>2, <1>3, <1>4 DEF ShownText

\* The line of an instruction.
LEMMA InstructionIs ==
  ASSUME NEW i \in DOMAIN Code, NEW show \in BOOLEAN
  PROVE  /\ Instruction(i, show) = [text |-> ShownText(i, show), address |-> CodeAt[i], bytes |-> Code[i],
                                    inText |-> show, section |-> NoSection]
         /\ Instruction(i, show) \in AnyLine
         /\ Code[i] \in Nat /\ Code[i] > 0 /\ CodeAt[i] \in Nat
<1>1. Instruction(i, show) = [text |-> ShownText(i, show), address |-> CodeAt[i], bytes |-> Code[i],
                              inText |-> show, section |-> NoSection]
  BY DEF Instruction, Block, ShownText
<1>2. Code[i] \in Nat /\ Code[i] > 0 /\ CodeAt[i] \in Nat
  BY ViewAssumption, CodeAtIs
<1>3. ShownText(i, show) \in Seq(Glyph)
  BY ShownTextIs
<1> QED BY <1>1, <1>2, <1>3 DEF AnyLine, NoSection

\* Lines that never change are alike with and without machine code.
LEMMA AlikeSelf ==
  ASSUME NEW s, s \in Seq(AnyLine), \A k \in 1..Len(s) : Fixed(s[k])
  PROVE  Alike(s, s)
BY DEF Alike, Twins

\* One after the other, lines that are alike stay alike.
LEMMA AlikeJoin ==
  ASSUME NEW s, NEW t, NEW u, NEW v, Alike(s, t), Alike(u, v)
  PROVE  Alike(s \o u, t \o v)
<1>1. /\ s \in Seq(AnyLine) /\ t \in Seq(AnyLine) /\ u \in Seq(AnyLine) /\ v \in Seq(AnyLine)
      /\ Len(t) = Len(s) /\ Len(v) = Len(u)
  BY DEF Alike
<1>2. PICK m \in Nat, n \in Nat : m = Len(s) /\ n = Len(u)
  BY <1>1
<1>3. /\ s \o u \in Seq(AnyLine) /\ Len(s \o u) = m + n
      /\ \A i \in 1 .. m + n : (s \o u)[i] = IF i <= m THEN s[i] ELSE u[i - m]
  <2>1. s \in Seq(AnyLine) /\ u \in Seq(AnyLine)
    BY <1>1
  <2>2. /\ s \o u \in Seq(AnyLine)
        /\ Len(s \o u) = Len(s) + Len(u)
        /\ \A i \in 1 .. Len(s) + Len(u) : (s \o u)[i] = IF i <= Len(s) THEN s[i] ELSE u[i - Len(s)]
    BY ONLY <2>1, ConcatProperties
  <2>3. Len(s) = m /\ Len(u) = n
    BY <1>1, <1>2
  <2> QED BY ONLY <2>2, <2>3
<1>4. /\ t \o v \in Seq(AnyLine) /\ Len(t \o v) = m + n
      /\ \A i \in 1 .. m + n : (t \o v)[i] = IF i <= m THEN t[i] ELSE v[i - m]
  <2>1. t \in Seq(AnyLine) /\ v \in Seq(AnyLine)
    BY <1>1
  <2>2. /\ t \o v \in Seq(AnyLine)
        /\ Len(t \o v) = Len(t) + Len(v)
        /\ \A i \in 1 .. Len(t) + Len(v) : (t \o v)[i] = IF i <= Len(t) THEN t[i] ELSE v[i - Len(t)]
    BY ONLY <2>1, ConcatProperties
  <2>3. Len(t) = m /\ Len(v) = n
    BY <1>1, <1>2
  <2> QED BY ONLY <2>2, <2>3
<1>5. ASSUME NEW i \in 1..(m + n) PROVE Twins((s \o u)[i], (t \o v)[i])
  <2>1. CASE i <= m
    <3>1. i \in 1..Len(s)
      BY <1>2, <2>1
    <3>2. Twins(s[i], t[i])
      BY <3>1 DEF Alike
    <3> QED BY <1>3, <1>4, <2>1, <3>2
  <2>2. CASE ~(i <= m)
    <3>1. i - m \in 1..Len(u)
      BY <1>2, <2>2
    <3>2. Twins(u[i - m], v[i - m])
      BY <3>1 DEF Alike
    <3> QED BY <1>3, <1>4, <2>2, <3>2
  <2> QED BY <2>1, <2>2
<1> QED BY <1>3, <1>4, <1>5 DEF Alike

\* So do any number of them.
LEMMA AlikeFlatten ==
  ASSUME NEW ss \in Seq(Seq(AnyLine)), NEW tt \in Seq(Seq(AnyLine)), Len(ss) = Len(tt), Len(ss) > 0,
         \A i \in 1..Len(ss) : Alike(ss[i], tt[i])
  PROVE  Alike(FlattenSeq(ss), FlattenSeq(tt))
<1>1. PICK n \in Nat : n = Len(ss) /\ n = Len(tt) /\ n > 0
  OBVIOUS
<1>2. PICK f : FlattenSeq(ss) = f[n] /\ f[1] = ss[1] /\ \A i \in 1..n : i > 1 => f[i] = f[i - 1] \o ss[i]
  <2>1. ss \in Seq(Seq(AnyLine)) /\ Len(ss) > 0
    BY <1>1
  <2>2. SoFar(ss, AnyLine) # {}
    BY ONLY <2>1, JoinedSoFar
  <2> QED BY <1>1, <2>2 DEF SoFar
<1>3. PICK g : FlattenSeq(tt) = g[n] /\ g[1] = tt[1] /\ \A i \in 1..n : i > 1 => g[i] = g[i - 1] \o tt[i]
  <2>1. tt \in Seq(Seq(AnyLine)) /\ Len(tt) > 0
    BY <1>1
  <2>2. SoFar(tt, AnyLine) # {}
    BY ONLY <2>1, JoinedSoFar
  <2> QED BY <1>1, <2>2 DEF SoFar
<1> DEFINE P == {i \in 1..n : Alike(f[i], g[i])}
<1>4. 1 \in P
  BY <1>1, <1>2, <1>3
<1>5. ASSUME NEW k \in 1..n, k < n, k \in P PROVE k + 1 \in P
  <2>1. PICK i \in 1..n : i = k + 1 /\ i > 1 /\ i - 1 = k
    BY <1>5
  <2>2. f[i] = f[k] \o ss[i] /\ g[i] = g[k] \o tt[i]
    BY <1>2, <1>3, <2>1
  <2>3. Alike(f[k], g[k]) /\ Alike(ss[i], tt[i])
    BY <1>1, <1>5
  <2> QED BY <2>1, <2>2, <2>3, AlikeJoin
<1>6. \A k \in 1..n : k \in P
  <2> HIDE DEF P
  <2> QED BY <1>4, <1>5, Climb
<1> QED BY <1>1, <1>2, <1>3, <1>6

\* What is in a part is in the whole.
LEMMA InJoin ==
  ASSUME NEW S, NEW s \in Seq(S), NEW t \in Seq(S), NEW x, InSeq(x, s) \/ InSeq(x, t)
  PROVE  InSeq(x, s \o t)
<1>1. /\ Len(s \o t) = Len(s) + Len(t)
      /\ \A i \in 1 .. Len(s) + Len(t) : (s \o t)[i] = IF i <= Len(s) THEN s[i] ELSE t[i - Len(s)]
  BY ConcatProperties
<1>2. Len(s) \in Nat /\ Len(t) \in Nat
  OBVIOUS
<1>3. CASE InSeq(x, s)
  <2>1. PICK k \in 1..Len(s) : s[k] = x
    BY <1>3 DEF InSeq
  <2>2. k \in 1..(Len(s) + Len(t)) /\ k <= Len(s)
    BY <1>2
  <2> QED BY <1>1, <2>1, <2>2 DEF InSeq
<1>4. CASE InSeq(x, t)
  <2>1. PICK k \in 1..Len(t) : t[k] = x
    BY <1>4 DEF InSeq
  <2>2. PICK i \in 1..(Len(s) + Len(t)) : i = Len(s) + k /\ ~(i <= Len(s)) /\ i - Len(s) = k
    BY <1>2
  <2> QED BY <1>1, <2>1, <2>2 DEF InSeq
<1> QED BY <1>3, <1>4

\* What is in one of the parts is in the whole.
LEMMA InFlatten ==
  ASSUME NEW S, NEW ss \in Seq(Seq(S)), NEW j \in 1..Len(ss), NEW x, InSeq(x, ss[j])
  PROVE  InSeq(x, FlattenSeq(ss))
<1>1. PICK n \in Nat : n = Len(ss) /\ n > 0 /\ j \in 1..n
  OBVIOUS
<1>2. PICK f : /\ \A i \in 1..n : f[i] \in Seq(S)
               /\ FlattenSeq(ss) = f[n] /\ f[1] = ss[1] /\ \A i \in 1..n : i > 1 => f[i] = f[i - 1] \o ss[i]
  <2>1. ss \in Seq(Seq(S)) /\ Len(ss) > 0
    BY <1>1
  <2>2. SoFar(ss, S) # {}
    BY ONLY <2>1, JoinedSoFar
  <2> QED BY <1>1, <2>2 DEF SoFar
<1> DEFINE P == {i \in 1..n : i < j \/ InSeq(x, f[i])}
<1>3. 1 \in P
  BY <1>1, <1>2
<1>4. ASSUME NEW k \in 1..n, k < n, k \in P PROVE k + 1 \in P
  <2>1. PICK i \in 1..n : i = k + 1 /\ i > 1 /\ i - 1 = k
    BY ONLY n \in Nat, k \in 1..n, k < n
  <2>2. f[i] = f[k] \o ss[i] /\ f[k] \in Seq(S) /\ ss[i] \in Seq(S)
    <3>1. ss[i] \in Seq(S)
      BY <1>1
    <3> QED BY <1>2, <2>1, <3>1
  <2>3. i < j \/ InSeq(x, f[k]) \/ InSeq(x, ss[i])
    <3>1. k < j => i < j \/ i = j
      BY ONLY <2>1, <1>1, k \in 1..n, n \in Nat
    <3> QED BY <1>4, <3>1
  <2>4. i < j \/ InSeq(x, f[i])
    BY <2>2, <2>3, InJoin
  <2> QED BY <2>1, <2>4
<1>5. \A k \in 1..n : k \in P
  <2> HIDE DEF P
  <2> QED BY <1>3, <1>4, Climb
<1>6. n \in P /\ ~(n < j)
  BY <1>1, <1>5
<1> QED BY <1>2, <1>6

\* A block without bytes never changes.
LEMMA LineIsFixed ==
  ASSUME NEW text \in Seq(Glyph), NEW a \in Nat \cup {NoAddress}, NEW s \in 0..4
  PROVE  Fixed(Block(text, a, 0, FALSE, s))
BY DEF Fixed, Block, AnyLine

\* Empty lines, titles and lines of an address never change.
LEMMA FixedLines ==
  /\ Fixed(Empty) /\ Empty.text = <<>> /\ \A s \in 0..4 : Fixed(Title(s)) /\ Title(s).section = s
  /\ \A text \in Seq(Glyph), a \in Nat \cup {NoAddress} : Fixed(Line(text, a))
<1>1. \A text \in Seq(Glyph), a \in Nat \cup {NoAddress} : Fixed(Line(text, a))
  <2>1. NoSection \in 0..4
    BY DEF NoSection
  <2>2. ASSUME NEW text \in Seq(Glyph), NEW a \in Nat \cup {NoAddress} PROVE Fixed(Line(text, a))
    <3>1. Fixed(Block(text, a, 0, FALSE, NoSection))
      BY <2>1, LineIsFixed
    <3> QED BY <3>1 DEF Line
  <2> QED BY <2>2
<1>2. \A s \in 0..4 : Fixed(Title(s)) /\ Title(s).section = s
  <2>1. ASSUME NEW s \in 0..4 PROVE Fixed(Title(s)) /\ Title(s).section = s
    <3>1. Title(s).section = s
      BY DEF Title, Block
    <3> QED BY <3>1, LineIsFixed, ShortTexts DEF Title
  <2> QED BY <2>1
<1>3. Fixed(Empty) /\ Empty.text = <<>>
  <2>1. Empty.text = <<>>
    BY DEF Empty, Line, Block
  <2> QED BY <1>1, <2>1, ShortTexts DEF Empty
<1> QED BY <1>1, <1>2, <1>3

\* Sequences of lines that never change.
LEMMA FixedAlike ==
  ASSUME NEW n \in Nat, NEW s, DOMAIN s = 1..n, s = [k \in 1..n |-> s[k]], \A k \in 1..n : Fixed(s[k])
  PROVE  Alike(s, s) /\ Len(s) = n
<1>1. s \in [1..n -> AnyLine]
  BY DEF Fixed
<1>2. s \in Seq(AnyLine) /\ Len(s) = n
  BY ONLY <1>1, n \in Nat
<1> QED BY <1>2, AlikeSelf

\* What each instruction adds: its procedure, if one begins there, and its line.
Steps(show) == [i \in DOMAIN Code |-> Procedure(i) \o <<Instruction(i, show)>>]

\* With and without machine code, the same procedures are in the same places.
LEMMA StepsAlike ==
  /\ Steps(FALSE) \in Seq(Seq(AnyLine)) /\ Steps(TRUE) \in Seq(Seq(AnyLine))
  /\ Len(Steps(FALSE)) = Len(Code) /\ Len(Steps(TRUE)) = Len(Code) /\ Len(Code) > 0
  /\ \A i \in 1..Len(Code) : Alike(Steps(FALSE)[i], Steps(TRUE)[i])
  /\ \A show \in BOOLEAN, i \in 1..Len(Code) : InSeq(Instruction(i, show), Steps(show)[i])
<1>1. PICK n \in Nat : n = Len(Code) /\ n > 0 /\ DOMAIN Code = 1..n
  BY ViewAssumption
<1>2. ASSUME NEW i \in 1..n
      PROVE  /\ Alike(Procedure(i) \o <<Instruction(i, FALSE)>>, Procedure(i) \o <<Instruction(i, TRUE)>>)
             /\ Procedure(i) \in Seq(AnyLine)
  <2>1. Alike(Procedure(i), Procedure(i))
    <3>1. CASE CodeAt[i] \in Symbols
      <4>1. PICK a, b : a = Empty /\ b = Line(<<"p">>, NoAddress) /\ Fixed(a) /\ Fixed(b) /\ a \in AnyLine /\ b \in AnyLine
        BY FixedLines, ShortTexts DEF Fixed
      <4>2. PICK t : t = <<a, b, a>>
        OBVIOUS
      <4>3. t \in Seq(AnyLine) /\ Len(t) = 3
        BY <4>1, <4>2
      <4>4. \A k \in 1..3 : Fixed(t[k])
        BY <4>1, <4>2
      <4>5. Alike(t, t)
        BY <4>3, <4>4, AlikeSelf
      <4> QED BY <3>1, <4>1, <4>2, <4>5 DEF Procedure
    <3>2. CASE CodeAt[i] \notin Symbols
      <4>1. Alike(<<>>, <<>>)
        BY DEF Alike
      <4> QED BY <3>2, <4>1 DEF Procedure
    <3> QED BY <3>1, <3>2
  <2>2. Alike(<<Instruction(i, FALSE)>>, <<Instruction(i, TRUE)>>)
    <3>1. PICK l \in AnyLine, m \in AnyLine : l = Instruction(i, FALSE) /\ m = Instruction(i, TRUE)
      BY <1>1, InstructionIs
    <3>2. Twins(l, m)
      BY <1>1, <3>1 DEF Twins
    <3>3. Alike(<<l>>, <<m>>)
      BY <3>2 DEF Alike
    <3> QED BY <3>1, <3>3
  <2>3. Alike(Procedure(i) \o <<Instruction(i, FALSE)>>, Procedure(i) \o <<Instruction(i, TRUE)>>)
    BY <2>1, <2>2, AlikeJoin
  <2> QED BY <2>1, <2>3 DEF Alike
<1>3. ASSUME NEW show \in BOOLEAN PROVE Steps(show) \in Seq(Seq(AnyLine)) /\ Len(Steps(show)) = n
  <2>1. ASSUME NEW i \in 1..n PROVE Procedure(i) \o <<Instruction(i, show)>> \in Seq(AnyLine)
    <3>1. Instruction(i, show) \in AnyLine
      BY <1>1, InstructionIs
    <3>2. PICK l : l = <<Instruction(i, show)>> /\ l \in Seq(AnyLine)
      <4>1. PICK m \in AnyLine : m = Instruction(i, show)
        BY <3>1
      <4>2. <<m>> \in Seq(AnyLine)
        OBVIOUS
      <4> QED BY <4>1, <4>2
    <3>3. PICK p : p = Procedure(i) /\ p \in Seq(AnyLine)
      BY <1>2
    <3>4. p \o l \in Seq(AnyLine)
      BY ONLY <3>2, <3>3
    <3> QED BY <3>2, <3>3, <3>4
  <2>2. PICK t : t = Steps(show) /\ t \in [1..n -> Seq(AnyLine)]
    <3>1. Steps(show) = [i \in 1..n |-> Procedure(i) \o <<Instruction(i, show)>>]
      BY <1>1 DEF Steps
    <3>2. [i \in 1..n |-> Procedure(i) \o <<Instruction(i, show)>>] \in [1..n -> Seq(AnyLine)]
      BY ONLY <2>1
    <3> QED BY <3>1, <3>2
  <2>3. t \in Seq(Seq(AnyLine)) /\ Len(t) = n
    BY ONLY <2>2, n \in Nat
  <2> QED BY <2>2, <2>3
<1>4. ASSUME NEW i \in 1..n PROVE Alike(Steps(FALSE)[i], Steps(TRUE)[i])
  BY <1>1, <1>2 DEF Steps
<1>5. ASSUME NEW show \in BOOLEAN, NEW i \in 1..n PROVE InSeq(Instruction(i, show), Steps(show)[i])
  <2>1. Instruction(i, show) \in AnyLine
    BY <1>1, InstructionIs
  <2>2. <<Instruction(i, show)>> \in Seq(AnyLine) /\ InSeq(Instruction(i, show), <<Instruction(i, show)>>)
    BY <2>1 DEF InSeq
  <2>3. Steps(show)[i] = Procedure(i) \o <<Instruction(i, show)>> /\ Procedure(i) \in Seq(AnyLine)
    BY <1>1, <1>2 DEF Steps
  <2> QED BY <2>2, <2>3, InJoin
<1> QED BY <1>1, <1>3, <1>4, <1>5

\* So are the instructions of the text section.
LEMMA InstructionsAlike ==
  /\ Alike(Instructions(FALSE), Instructions(TRUE))
  /\ \A show \in BOOLEAN, i \in 1..Len(Code) : InSeq(Instruction(i, show), Instructions(show))
<1>1. Instructions(FALSE) = FlattenSeq(Steps(FALSE)) /\ Instructions(TRUE) = FlattenSeq(Steps(TRUE))
  BY DEF Instructions, Steps
<1>2. PICK ss, tt : ss = Steps(FALSE) /\ tt = Steps(TRUE)
  OBVIOUS
<1>3. /\ ss \in Seq(Seq(AnyLine)) /\ tt \in Seq(Seq(AnyLine)) /\ Len(ss) = Len(tt) /\ Len(ss) > 0 /\ Len(tt) > 0
      /\ \A i \in 1..Len(ss) : Alike(ss[i], tt[i])
      /\ Len(ss) = Len(Code)
      /\ \A i \in 1..Len(ss) : InSeq(Instruction(i, FALSE), ss[i]) /\ InSeq(Instruction(i, TRUE), tt[i])
  BY <1>2, StepsAlike
<1>4. Alike(FlattenSeq(ss), FlattenSeq(tt))
  BY <1>3, AlikeFlatten
<1>5. ASSUME NEW i \in 1..Len(ss)
      PROVE  InSeq(Instruction(i, FALSE), FlattenSeq(ss)) /\ InSeq(Instruction(i, TRUE), FlattenSeq(tt))
  BY ONLY <1>3, <1>5, InFlatten
<1> QED BY <1>1, <1>2, <1>3, <1>4, <1>5

\* A sequence of lines with its title and end.
LEMMA SectionAlike ==
  ASSUME NEW s \in 1..4, NEW t, Alike(t, t)
  PROVE  Alike(Section(s, t), Section(s, t)) /\ InSeq(Title(s), Section(s, t))
<1>1. Fixed(Title(s)) /\ Title(s) \in AnyLine /\ Fixed(Empty) /\ Empty \in AnyLine
  BY FixedLines DEF Fixed
<1>2. PICK a, b, e : a = Title(s) /\ b = <<a, Empty>> /\ e = SectionEnd
  OBVIOUS
<1>3. b \in Seq(AnyLine) /\ Alike(b, b) /\ InSeq(a, b)
  <2>1. b \in Seq(AnyLine) /\ Len(b) = 2 /\ b[1] = a /\ b[2] = Empty
    BY <1>1, <1>2
  <2>2. \A k \in 1..2 : Fixed(b[k])
    BY <1>1, <1>2, <2>1
  <2>3. Alike(b, b)
    BY <2>1, <2>2, AlikeSelf
  <2> QED BY <2>1, <2>3 DEF InSeq
<1>4. Alike(e, e)
  <2>1. PICK u : u = Title(NoSection) /\ Fixed(u) /\ u \in AnyLine
    BY FixedLines DEF NoSection, Fixed
  <2>2. e = <<Empty, u, Empty>>
    BY <1>2, <2>1 DEF SectionEnd
  <2>3. e \in Seq(AnyLine) /\ Len(e) = 3 /\ e[1] = Empty /\ e[2] = u /\ e[3] = Empty
    BY <1>1, <2>1, <2>2
  <2>4. \A k \in 1..3 : Fixed(e[k])
    BY <1>1, <2>1, <2>3
  <2> QED BY <2>3, <2>4, AlikeSelf
<1>5. Alike(b \o t, b \o t) /\ InSeq(a, b \o t)
  <2>1. t \in Seq(AnyLine)
    BY DEF Alike
  <2> QED BY <1>3, <2>1, AlikeJoin, InJoin
<1>6. Alike((b \o t) \o e, (b \o t) \o e) /\ InSeq(a, (b \o t) \o e)
  <2>1. b \o t \in Seq(AnyLine) /\ e \in Seq(AnyLine)
    BY <1>4, <1>5 DEF Alike
  <2> QED BY <1>4, <1>5, <2>1, AlikeJoin, InJoin
<1> QED BY <1>2, <1>6 DEF Section

\* The last line is empty.
Closed(s) == Len(s) > 0 /\ s[Len(s)].text = <<>>

\* The last line is that of the last part.
LEMMA ClosedJoin ==
  ASSUME NEW S, NEW s \in Seq(S), NEW t \in Seq(S), Closed(t)
  PROVE  Closed(s \o t)
<1>1. /\ Len(s \o t) = Len(s) + Len(t)
      /\ \A i \in 1 .. Len(s) + Len(t) : (s \o t)[i] = IF i <= Len(s) THEN s[i] ELSE t[i - Len(s)]
  BY ConcatProperties
<1>2. PICK m \in Nat, n \in Nat : m = Len(s) /\ n = Len(t) /\ n > 0
  BY DEF Closed
<1>3. m + n \in 1..(m + n) /\ ~(m + n <= m) /\ m + n - m = n /\ m + n > 0
  BY ONLY <1>2
<1>4. (s \o t)[m + n] = t[n]
  BY <1>1, <1>2, <1>3
<1> QED BY <1>1, <1>2, <1>3, <1>4 DEF Closed

\* Every section ends in an empty line.
LEMMA SectionClosed ==
  ASSUME NEW s \in 1..4, NEW t, Alike(t, t)
  PROVE  Closed(Section(s, t))
<1>1. Fixed(Title(s)) /\ Title(s) \in AnyLine /\ Fixed(Empty) /\ Empty \in AnyLine /\ Empty.text = <<>>
  BY FixedLines DEF Fixed
<1>2. PICK b, e : b = <<Title(s), Empty>> \o t /\ e = SectionEnd
  OBVIOUS
<1>3. b \in Seq(AnyLine)
  <2>1. PICK a, c : a = Title(s) /\ c = Empty /\ a \in AnyLine /\ c \in AnyLine
    BY <1>1
  <2>2. <<a, c>> \in Seq(AnyLine) /\ t \in Seq(AnyLine)
    BY <2>1 DEF Alike
  <2>3. <<a, c>> \o t \in Seq(AnyLine)
    BY ONLY <2>2
  <2> QED BY <1>2, <2>1, <2>3
<1>4. e \in Seq(AnyLine) /\ Closed(e)
  <2>1. PICK u : u = Title(NoSection) /\ u \in AnyLine
    BY FixedLines DEF NoSection, Fixed
  <2>2. e = <<Empty, u, Empty>>
    BY <1>2, <2>1 DEF SectionEnd
  <2>3. e \in Seq(AnyLine) /\ Len(e) = 3 /\ e[3] = Empty
    BY <1>1, <2>1, <2>2
  <2> QED BY <1>1, <2>3 DEF Closed
<1>5. Closed(b \o e)
  BY <1>3, <1>4, ClosedJoin
<1> QED BY <1>2, <1>5 DEF Section

\* The lines of the sections without instructions.
StringLines == [i \in DOMAIN Strings |-> Line(<<"@", "s">>, StringAddress + Strings[i].offset)]
VersionLines == [i \in 1..2 |-> Line(<<"@", "v">>, VersionsAddress + 4 * (i - 1))]
DumpLines == <<Line(<<"@", "d">>, DumpAddress)>>

\* The sections without instructions never change.
LEMMA ShownAlike ==
  Alike(StringLines, StringLines) /\ Alike(VersionLines, VersionLines) /\ Alike(DumpLines, DumpLines)
<1>1. \A text \in Seq(Glyph), a \in Nat : Fixed(Line(text, a))
  BY FixedLines
<1>2. StringAddress \in Nat /\ VersionsAddress \in Nat /\ DumpAddress \in Nat
  BY ViewAssumption
<1>3. Alike(StringLines, StringLines)
  <2>1. PICK ss : ss = Strings /\ ss \in Seq(StringPlace)
    BY StringsType
  <2>2. PICK n \in Nat : n = Len(ss) /\ DOMAIN ss = 1..n
    BY <2>1
  <2>3. PICK s : s = StringLines
    OBVIOUS
  <2>4. s = [i \in 1..n |-> Line(<<"@", "s">>, StringAddress + ss[i].offset)]
    BY <2>1, <2>2, <2>3 DEF StringLines
  <2>5. ASSUME NEW k \in 1..n PROVE Fixed(s[k])
    <3>1. ss[k] \in StringPlace
      BY ONLY <2>1, <2>2, k \in 1..n
    <3>2. PICK o \in Nat : o = ss[k].offset
      BY <3>1 DEF StringPlace
    <3>3. StringAddress + o \in Nat
      BY <1>2
    <3>4. Fixed(Line(<<"@", "s">>, StringAddress + o))
      BY <1>1, <3>3, ShortTexts
    <3> QED BY <2>4, <3>2, <3>4
  <2>6. DOMAIN s = 1..n /\ s = [k \in 1..n |-> s[k]]
    BY <2>4
  <2>7. Alike(s, s)
    BY <2>5, <2>6, FixedAlike
  <2> QED BY <2>3, <2>7
<1>4. Alike(VersionLines, VersionLines)
  <2>1. PICK s : s = VersionLines
    OBVIOUS
  <2>2. s = [i \in 1..2 |-> Line(<<"@", "v">>, VersionsAddress + 4 * (i - 1))]
    BY <2>1 DEF VersionLines
  <2>3. ASSUME NEW k \in 1..2 PROVE Fixed(s[k])
    <3>1. VersionsAddress + 4 * (k - 1) \in Nat
      BY <1>2
    <3>2. Fixed(Line(<<"@", "v">>, VersionsAddress + 4 * (k - 1)))
      BY <1>1, <3>1, ShortTexts
    <3> QED BY <2>2, <3>2
  <2>4. DOMAIN s = 1..2 /\ s = [k \in 1..2 |-> s[k]]
    BY <2>2
  <2>5. Alike(s, s)
    BY <2>3, <2>4, FixedAlike
  <2> QED BY <2>1, <2>5
<1>5. Alike(DumpLines, DumpLines)
  <2>1. PICK l : l = Line(<<"@", "d">>, DumpAddress) /\ Fixed(l)
    BY <1>1, <1>2, ShortTexts
  <2>2. PICK s : s = <<l>>
    OBVIOUS
  <2>3. s \in Seq(AnyLine) /\ \A k \in 1..Len(s) : Fixed(s[k])
    BY <2>1, <2>2 DEF Fixed
  <2>4. Alike(s, s)
    BY ONLY <2>3, AlikeSelf
  <2> QED BY <2>1, <2>2, <2>4 DEF DumpLines
<1> QED BY <1>3, <1>4, <1>5

\* The text with and without machine code: line by line the same but for the
\* instructions, with every section in it, every instruction and, at last, an
\* empty line.
LEMMA LayoutIs ==
  /\ Alike(Layout[FALSE], Layout[TRUE])
  /\ \A show \in BOOLEAN :
       /\ \A s \in Sections : InSeq(Title(s), Layout[show])
       /\ \A i \in 1..Len(Code) : InSeq(Instruction(i, show), Layout[show])
       /\ Closed(Layout[show])
<1>1. PICK a0, a1, e, s2, s3, s4, tt :
        /\ a0 = Instructions(FALSE) /\ a1 = Instructions(TRUE) /\ e = SectionEnd
        /\ s2 = Section(2, StringLines) /\ s3 = Section(3, VersionLines) /\ s4 = Section(4, DumpLines)
        /\ tt = <<Title(1)>>
  OBVIOUS
<1>2. Layout = [show \in BOOLEAN |-> tt \o Instructions(show) \o e \o s2 \o s3 \o s4]
  BY <1>1 DEF Layout, StringLines, VersionLines, DumpLines
<1>3. /\ Layout[FALSE] = ((((tt \o a0) \o e) \o s2) \o s3) \o s4
      /\ Layout[TRUE] = ((((tt \o a1) \o e) \o s2) \o s3) \o s4
  BY <1>1, <1>2
<1>4. /\ Alike(a0, a1)
      /\ \A i \in 1..Len(Code) : InSeq(Instruction(i, FALSE), a0) /\ InSeq(Instruction(i, TRUE), a1)
  BY <1>1, InstructionsAlike
<1>5. Alike(tt, tt) /\ InSeq(Title(1), tt)
  <2>1. PICK l : l = Title(1) /\ Fixed(l)
    BY FixedLines
  <2>2. tt \in Seq(AnyLine) /\ Len(tt) = 1 /\ tt[1] = l
    BY <1>1, <2>1 DEF Fixed
  <2>3. \A k \in 1..Len(tt) : Fixed(tt[k])
    BY <2>1, <2>2
  <2> QED BY <2>1, <2>2, <2>3, AlikeSelf DEF InSeq
<1>6. Alike(e, e)
  <2>1. PICK u, m : u = Title(NoSection) /\ m = Empty /\ Fixed(u) /\ u \in AnyLine /\ Fixed(m) /\ m \in AnyLine
    BY FixedLines DEF NoSection, Fixed
  <2>2. e = <<m, u, m>>
    BY <1>1, <2>1 DEF SectionEnd
  <2>3. e \in Seq(AnyLine) /\ Len(e) = 3 /\ e[1] = m /\ e[2] = u /\ e[3] = m
    BY <2>1, <2>2
  <2>4. \A k \in 1..3 : Fixed(e[k])
    BY <2>1, <2>3
  <2> QED BY <2>3, <2>4, AlikeSelf
<1>7. /\ Alike(s2, s2) /\ InSeq(Title(2), s2)
      /\ Alike(s3, s3) /\ InSeq(Title(3), s3)
      /\ Alike(s4, s4) /\ InSeq(Title(4), s4) /\ Closed(s4)
  BY <1>1, ShownAlike, SectionAlike, SectionClosed
<1>8. Alike(((((tt \o a0) \o e) \o s2) \o s3) \o s4, ((((tt \o a1) \o e) \o s2) \o s3) \o s4)
  <2>1. Alike(tt \o a0, tt \o a1)
    BY <1>4, <1>5, AlikeJoin
  <2>2. Alike((tt \o a0) \o e, (tt \o a1) \o e)
    BY <1>6, <2>1, AlikeJoin
  <2>3. Alike(((tt \o a0) \o e) \o s2, ((tt \o a1) \o e) \o s2)
    BY <1>7, <2>2, AlikeJoin
  <2>4. Alike((((tt \o a0) \o e) \o s2) \o s3, (((tt \o a1) \o e) \o s2) \o s3)
    BY <1>7, <2>3, AlikeJoin
  <2> QED BY <1>7, <2>4, AlikeJoin
<1>9. ASSUME NEW a \in Seq(AnyLine), NEW x, InSeq(x, a)
      PROVE  LET l == ((((tt \o a) \o e) \o s2) \o s3) \o s4
             IN  /\ InSeq(Title(1), l) /\ InSeq(Title(2), l) /\ InSeq(Title(3), l) /\ InSeq(Title(4), l)
                 /\ InSeq(x, l) /\ Closed(l)
  <2>1. tt \in Seq(AnyLine) /\ e \in Seq(AnyLine) /\ s2 \in Seq(AnyLine) /\ s3 \in Seq(AnyLine) /\ s4 \in Seq(AnyLine)
    BY <1>5, <1>6, <1>7 DEF Alike
  <2>2. PICK b1 : b1 = tt \o a
    OBVIOUS
  <2>3. b1 \in Seq(AnyLine) /\ InSeq(Title(1), b1) /\ InSeq(x, b1)
    BY <1>5, <1>9, <2>1, <2>2, InJoin
  <2>4. PICK b2 : b2 = b1 \o e
    OBVIOUS
  <2>5. /\ b2 \in Seq(AnyLine)
         /\ InSeq(Title(1), b2)
         /\ InSeq(x, b2)
    <3>1. b2 \in Seq(AnyLine)
      BY <2>1, <2>3, <2>4
    <3>2. InSeq(Title(1), b2)
      BY <2>1, <2>3, <2>4, InJoin
    <3>3. InSeq(x, b2)
      BY <2>1, <2>3, <2>4, InJoin
    <3> QED BY <3>1, <3>2, <3>3
  <2>6. PICK b3 : b3 = b2 \o s2
    OBVIOUS
  <2>7. /\ b3 \in Seq(AnyLine)
         /\ InSeq(Title(1), b3)
         /\ InSeq(x, b3)
         /\ InSeq(Title(2), b3)
    <3>1. b3 \in Seq(AnyLine)
      BY <2>1, <2>5, <2>6
    <3>2. InSeq(Title(1), b3)
      BY <2>1, <2>5, <2>6, InJoin
    <3>3. InSeq(x, b3)
      BY <2>1, <2>5, <2>6, InJoin
    <3>4. InSeq(Title(2), b3)
      BY <1>7, <2>1, <2>5, <2>6, InJoin
    <3> QED BY <3>1, <3>2, <3>3, <3>4
  <2>8. PICK b4 : b4 = b3 \o s3
    OBVIOUS
  <2>9. /\ b4 \in Seq(AnyLine)
         /\ InSeq(Title(1), b4)
         /\ InSeq(x, b4)
         /\ InSeq(Title(2), b4)
         /\ InSeq(Title(3), b4)
    <3>1. b4 \in Seq(AnyLine)
      BY <2>1, <2>7, <2>8
    <3>2. InSeq(Title(1), b4)
      BY <2>1, <2>7, <2>8, InJoin
    <3>3. InSeq(x, b4)
      BY <2>1, <2>7, <2>8, InJoin
    <3>4. InSeq(Title(2), b4)
      BY <2>1, <2>7, <2>8, InJoin
    <3>5. InSeq(Title(3), b4)
      BY <1>7, <2>1, <2>7, <2>8, InJoin
    <3> QED BY <3>1, <3>2, <3>3, <3>4, <3>5
  <2>10. PICK b5 : b5 = b4 \o s4
    OBVIOUS
  <2>11. /\ b5 \in Seq(AnyLine)
         /\ InSeq(Title(1), b5)
         /\ InSeq(x, b5)
         /\ InSeq(Title(2), b5)
         /\ InSeq(Title(3), b5)
         /\ InSeq(Title(4), b5)
         /\ Closed(b5)
    <3>1. b5 \in Seq(AnyLine)
      BY <2>1, <2>9, <2>10
    <3>2. InSeq(Title(1), b5)
      BY <2>1, <2>9, <2>10, InJoin
    <3>3. InSeq(x, b5)
      BY <2>1, <2>9, <2>10, InJoin
    <3>4. InSeq(Title(2), b5)
      BY <2>1, <2>9, <2>10, InJoin
    <3>5. InSeq(Title(3), b5)
      BY <2>1, <2>9, <2>10, InJoin
    <3>6. InSeq(Title(4), b5)
      BY <1>7, <2>1, <2>9, <2>10, InJoin
    <3>7. Closed(b5)
      BY <1>7, <2>1, <2>9, <2>10, ClosedJoin
    <3> QED BY <3>1, <3>2, <3>3, <3>4, <3>5, <3>6, <3>7
  <2> QED BY <2>2, <2>4, <2>6, <2>8, <2>10, <2>11
<1>10. a0 \in Seq(AnyLine) /\ a1 \in Seq(AnyLine)
  BY <1>4 DEF Alike
<1>11. ASSUME NEW show \in BOOLEAN
       PROVE /\ \A s \in Sections : InSeq(Title(s), Layout[show])
             /\ \A i \in 1..Len(Code) : InSeq(Instruction(i, show), Layout[show])
             /\ Closed(Layout[show])
  <2>0. 1 \in 1..Len(Code)
    BY StepsAlike, 1 \in 1..1
  <2>1. ASSUME NEW i \in 1..Len(Code)
        PROVE  /\ InSeq(Title(1), Layout[show]) /\ InSeq(Title(2), Layout[show]) /\ InSeq(Title(3), Layout[show])
               /\ InSeq(Title(4), Layout[show]) /\ InSeq(Instruction(i, show), Layout[show]) /\ Closed(Layout[show])
    BY <1>3, <1>4, <1>9, <1>10
  <2>2. \A s \in Sections : s = 1 \/ s = 2 \/ s = 3 \/ s = 4
    BY DEF Sections
  <2> QED BY <2>0, <2>1, <2>2
<1> QED BY <1>3, <1>8, <1>11

-----------------------------------------------------------------------------
(***************************************************************************)
(* Showing and hiding machine code                                         *)
(***************************************************************************)

\* A line as instruction i is shown: with its own text if the bytes fit into the column.
ShownAs(l, i, show) ==
  /\ DOMAIN l = {"text", "address", "bytes", "inText", "section"}
  /\ l.address = CodeAt[i] /\ l.bytes = Code[i] /\ l.section = NoSection /\ l.inText = show
  /\ l.text \in Seq(Glyph) /\ Len(l.text) >= 1
  /\ Code[i] =< Width => l.text = ShownText(i, show)
\* Line k of the document.
LineIs(l, k, show) ==
  \/ Fixed(l) /\ l = Layout[FALSE][k] /\ l = Layout[TRUE][k]
  \/ \E i \in DOMAIN Code :
       Layout[FALSE][k] = Instruction(i, FALSE) /\ Layout[TRUE][k] = Instruction(i, TRUE) /\ ShownAs(l, i, show)

\* The document: each line in its place, for the setting that is on.
ViewOK ==
  /\ showCode \in BOOLEAN
  /\ lines = [k \in 1..Len(Layout[FALSE]) |-> lines[k]]
  /\ \A k \in 1..Len(Layout[FALSE]) : LineIs(lines[k], k, showCode)

\* A column between the address and the instruction is taken out.
Framed(a, p, b) == (<<a>> \o p) \o <<b>>

\* The parts of such a text.
LEMMA TakenOut ==
  ASSUME NEW a \in Glyph, NEW b \in Glyph, NEW p \in Seq(Glyph)
  PROVE  /\ Framed(a, p, b)[1] = a
         /\ SubSeq(Framed(a, p, b), Len(p) + 2, Len(Framed(a, p, b))) = <<b>>
         /\ Framed(a, p, b) \in Seq(Glyph) /\ Len(Framed(a, p, b)) = Len(p) + 2
<1> PICK w \in Nat : w = Len(p)
  OBVIOUS
<1> PICK t : t = Framed(a, p, b)
  OBVIOUS
<1>1. PICK u : u = <<a>> \o p
  OBVIOUS
<1>2. /\ u \in Seq(Glyph) /\ Len(u) = w + 1 /\ u[1] = a
  BY <1>1
<1>3. t = u \o <<b>>
  BY <1>1 DEF Framed
<1>4. t \in Seq(Glyph) /\ Len(t) = w + 2 /\ t[1] = a /\ t[w + 2] = b
  <2>1. PICK v : v = <<b>> /\ v \in Seq(Glyph) /\ Len(v) = 1 /\ v[1] = b
    <3>1. <<b>> \in Seq(Glyph) /\ Len(<<b>>) = 1 /\ <<b>>[1] = b
      OBVIOUS
    <3> QED BY <3>1
  <2>2. /\ t \in Seq(Glyph) /\ Len(t) = Len(u) + Len(v)
        /\ \A k \in 1 .. Len(u) + Len(v) : t[k] = IF k <= Len(u) THEN u[k] ELSE v[k - Len(u)]
    <3>1. u \in Seq(Glyph) /\ v \in Seq(Glyph) /\ t = u \o v
      BY <1>2, <1>3, <2>1
    <3> QED BY ONLY <3>1, ConcatProperties
  <2>3. 1 \in 1..(w + 2) /\ w + 2 \in 1..(w + 2) /\ 1 <= w + 1 /\ ~(w + 2 <= w + 1) /\ w + 2 - (w + 1) = 1 /\ w + 1 + 1 = w + 2
    BY ONLY w \in Nat
  <2>4. Len(u) + Len(v) = w + 2
    BY <1>2, <2>1, <2>3
  <2>5. t[1] = u[1] /\ t[w + 2] = v[1]
    BY <1>2, <2>2, <2>3, <2>4
  <2> QED BY <1>2, <2>1, <2>2, <2>4, <2>5
<1>5. PICK m \in Nat : m = w + 2 /\ m >= 1
  OBVIOUS
<1>6. SubSeq(t, m, m) = <<b>>
  <2>1. PICK s : s = SubSeq(t, m, m)
    OBVIOUS
  <2>2. s \in Seq(Glyph) /\ Len(s) = 1 /\ s[1] = b
    <3>1. m \in 1..Len(t) /\ m - m + 1 = 1
      BY <1>4, <1>5
    <3>2. s = [k \in 1..1 |-> t[m + k - 1]]
      BY <1>4, <1>5, <2>1, <3>1
    <3>3. m + 1 - 1 = m
      BY <1>5
    <3>4. s \in [1..1 -> Glyph] /\ s[1] = t[m]
      BY <1>4, <1>5, <3>1, <3>2, <3>3
    <3>5. s \in Seq(Glyph) /\ Len(s) = 1
      <4>1. PICK o \in Nat : o = 1
        OBVIOUS
      <4>2. s \in [1..o -> Glyph]
        BY <3>4, <4>1
      <4>3. s \in Seq(Glyph) /\ Len(s) = o
        BY ONLY <4>2, o \in Nat
      <4> QED BY <4>1, <4>3
    <3> QED BY <1>4, <1>5, <3>4, <3>5
  <2>3. s = <<b>>
    BY ONLY <2>2
  <2> QED BY <2>1, <2>3
<1> QED BY <1>4, <1>5, <1>6

\* Without a column, what follows the address is the instruction.
LEMMA PutIn ==
  ASSUME NEW a \in Glyph, NEW b \in Glyph, NEW t, t = (<<a>> \o <<>>) \o <<b>>
  PROVE  t[1] = a /\ Tail(t) = <<b>>
<1>1. <<>> \in Seq(Glyph) /\ Len(<<>>) = 0 /\ 0 \in Nat /\ 0 + 2 = 2
  OBVIOUS
<1>2. t[1] = a /\ SubSeq(t, 0 + 2, Len(t)) = <<b>> /\ t \in Seq(Glyph) /\ Len(t) = 0 + 2
  <2>1. PICK p, w : p = <<>> /\ w = 0
    OBVIOUS
  <2>2. w \in Nat /\ p \in Seq(Glyph) /\ Len(p) = w /\ t = Framed(a, p, b)
    BY <1>1, <2>1 DEF Framed
  <2>3. t[1] = a /\ SubSeq(t, w + 2, Len(t)) = <<b>> /\ t \in Seq(Glyph) /\ Len(t) = w + 2
    BY ONLY a \in Glyph, b \in Glyph, <2>2, TakenOut
  <2> QED BY <2>1, <2>3
<1>3. Tail(t) = SubSeq(t, 2, Len(t))
  BY <1>2
<1> QED BY <1>1, <1>2, <1>3

\* What remains of a text is a text.
LEMMA RestType ==
  ASSUME NEW G, NEW t \in Seq(G), Len(t) >= 1, NEW m \in Nat, m >= 1
  PROVE  t[1] \in G /\ Tail(t) \in Seq(G) /\ SubSeq(t, m, Len(t)) \in Seq(G)
<1>1. t[1] \in G /\ Tail(t) \in Seq(G)
  OBVIOUS
<1>2. SubSeq(t, m, Len(t)) \in Seq(G)
  OBVIOUS
<1> QED BY <1>1, <1>2

\* showMachineCode turns the line of an instruction into the line it has with
\* the other setting, but for one whose bytes overflow the column.
LEMMA TurnedIs ==
  ASSUME NEW i \in DOMAIN Code, NEW show \in BOOLEAN, NEW l, ShownAs(l, i, ~show)
  PROVE  ShownAs(Turned(l, show), i, show)
<1>1. PICK n \in Nat : n = Code[i] /\ n > 0 /\ Padded(n) \in Seq(Glyph)
                       /\ Len(Padded(n)) = IF n < Width THEN Width ELSE n
  <2>1. PICK n \in Nat : n = Code[i] /\ n > 0
    BY ViewAssumption
  <2> QED BY <2>1, PaddedIs
<1>2. PICK t : t = l.text /\ t \in Seq(Glyph) /\ Len(t) >= 1
               /\ (n =< Width => t = ShownText(i, ~show)) /\ l.bytes = n /\ l.inText = ~show
  BY <1>1 DEF ShownAs
<1>3. ~(l.bytes = 0 \/ l.inText = show)
  BY <1>1, <1>2
<1>4. Width \in Nat /\ "@" \in Glyph /\ "i" \in Glyph
  BY ViewAssumption DEF Glyph
<1>5. CASE show
  <2>1. PICK p : p = Padded(n)
    OBVIOUS
  <2>2. PICK u : u = <<t[1]>> \o p \o Tail(t)
    OBVIOUS
  <2>3. Turned(l, show) = [l EXCEPT !.text = u, !.inText = TRUE]
    BY <1>1, <1>2, <1>3, <1>5, <2>1, <2>2 DEF Turned
  <2>4. u \in Seq(Glyph) /\ Len(u) >= 1
    <3>1. PICK a : a = <<t[1]>> /\ a \in Seq(Glyph) /\ Len(a) = 1
      <4>1. PICK g \in Glyph : g = t[1]
        BY <1>2
      <4>2. <<g>> \in Seq(Glyph) /\ Len(<<g>>) = 1
        OBVIOUS
      <4> QED BY <4>1, <4>2
    <3>2. PICK c \in Seq(Glyph) : c = Tail(t)
      <4>1. Tail(t) \in Seq(Glyph)
        BY ONLY <1>2
      <4> QED BY <4>1
    <3>3. p \in Seq(Glyph)
      BY <1>1, <2>1
    <3>4. u = (a \o p) \o c
      BY <2>2, <3>1, <3>2
    <3> QED BY <3>1, <3>3, <3>4
  <2>5. n =< Width => u = ShownText(i, show)
    <3>1. SUFFICES ASSUME n =< Width PROVE u = ShownText(i, show)
      OBVIOUS
    <3>2. t = (<<"@">> \o <<>>) \o <<"i">>
      BY <1>2, <1>5, <3>1 DEF ShownText
    <3>3. t[1] = "@" /\ Tail(t) = <<"i">>
      BY <1>4, <3>2, PutIn
    <3> QED BY <1>1, <1>5, <2>1, <2>2, <3>3 DEF ShownText
  <2>6. PICK r : r = Turned(l, show)
    OBVIOUS
  <2>7. /\ DOMAIN r = {"text", "address", "bytes", "inText", "section"}
        /\ r.text = u /\ r.inText = show
        /\ r.address = l.address /\ r.bytes = l.bytes /\ r.section = l.section
    <3>1. DOMAIN l = {"text", "address", "bytes", "inText", "section"}
      BY DEF ShownAs
    <3>2. r = [l EXCEPT !.text = u, !.inText = TRUE]
      BY <2>3, <2>6
    <3>3. show = TRUE
      BY <1>5
    <3> QED BY ONLY <3>1, <3>2, <3>3
  <2>8. l.address = CodeAt[i] /\ l.bytes = Code[i] /\ l.section = NoSection
    BY DEF ShownAs
  <2>9. ShownAs(r, i, show)
    BY <1>1, <2>4, <2>5, <2>7, <2>8 DEF ShownAs
  <2> QED BY <2>6, <2>9
<1>6. CASE ~show
  <2>1. PICK c : c = SubSeq(t, Width + 2, Len(t))
    OBVIOUS
  <2>2. PICK u : u = <<t[1]>> \o c
    OBVIOUS
  <2>3. Turned(l, show) = [l EXCEPT !.text = u, !.inText = FALSE]
    BY <1>1, <1>2, <1>3, <1>6, <2>1, <2>2 DEF Turned
  <2>4. u \in Seq(Glyph) /\ Len(u) >= 1
    <3>1. PICK a : a = <<t[1]>> /\ a \in Seq(Glyph) /\ Len(a) = 1
      <4>1. PICK g \in Glyph : g = t[1]
        BY <1>2
      <4>2. <<g>> \in Seq(Glyph) /\ Len(<<g>>) = 1
        OBVIOUS
      <4> QED BY <4>1, <4>2
    <3>2. PICK m \in Nat : m = Width + 2 /\ m >= 1
      BY <1>4
    <3>3. c \in Seq(Glyph)
      BY ONLY <1>2, <2>1, <3>2, RestType
    <3> QED BY <2>2, <3>1, <3>3
  <2>5. n =< Width => u = ShownText(i, show)
    <3>1. SUFFICES ASSUME n =< Width PROVE u = ShownText(i, show)
      OBVIOUS
    <3>2. PICK p \in Seq(Glyph) : p = Padded(n) /\ Len(p) = Width
      BY <1>1, <1>4, <3>1
    <3>3. t = (<<"@">> \o p) \o <<"i">>
      BY <1>1, <1>2, <1>6, <3>1, <3>2 DEF ShownText
    <3>4. t[1] = "@" /\ SubSeq(t, Width + 2, Len(t)) = <<"i">>
      <4>1. PICK a \in Glyph, b \in Glyph : a = "@" /\ b = "i"
        BY <1>4
      <4>2. Width \in Nat /\ p \in Seq(Glyph) /\ Len(p) = Width /\ t = Framed(a, p, b)
        BY <1>4, <3>2, <3>3, <4>1 DEF Framed
      <4>3. t[1] = a /\ SubSeq(t, Width + 2, Len(t)) = <<b>>
        BY ONLY <4>1, <4>2, TakenOut
      <4> QED BY <4>1, <4>3
    <3>5. <<"@">> \o <<>> = <<"@">>
      OBVIOUS
    <3> QED BY <1>1, <1>6, <2>1, <2>2, <3>4, <3>5 DEF ShownText
  <2>6. PICK r : r = Turned(l, show)
    OBVIOUS
  <2>7. /\ DOMAIN r = {"text", "address", "bytes", "inText", "section"}
        /\ r.text = u /\ r.inText = show
        /\ r.address = l.address /\ r.bytes = l.bytes /\ r.section = l.section
    <3>1. DOMAIN l = {"text", "address", "bytes", "inText", "section"}
      BY DEF ShownAs
    <3>2. r = [l EXCEPT !.text = u, !.inText = FALSE]
      BY <2>3, <2>6
    <3>3. show = FALSE
      BY <1>6
    <3> QED BY ONLY <3>1, <3>2, <3>3
  <2>8. l.address = CodeAt[i] /\ l.bytes = Code[i] /\ l.section = NoSection
    BY DEF ShownAs
  <2>9. ShownAs(r, i, show)
    BY <1>1, <2>4, <2>5, <2>7, <2>8 DEF ShownAs
  <2> QED BY <2>6, <2>9
<1> QED BY <1>5, <1>6

\* What setup lays out is in order.
LEMMA LaidOut ==
  ASSUME NEW show \in BOOLEAN
  PROVE  /\ Len(Layout[FALSE]) \in Nat
         /\ Layout[show] = [k \in 1..Len(Layout[FALSE]) |-> Layout[show][k]]
         /\ \A k \in 1..Len(Layout[FALSE]) : LineIs(Layout[show][k], k, show)
<1>1. PICK s, t, u : s = Layout[FALSE] /\ t = Layout[TRUE] /\ u = Layout[show]
  OBVIOUS
<1>2. /\ s \in Seq(AnyLine) /\ t \in Seq(AnyLine) /\ Len(s) = Len(t)
      /\ \A k \in 1..Len(s) : Twins(s[k], t[k])
  BY <1>1, LayoutIs DEF Alike
<1>3. u = s \/ u = t
  BY <1>1
<1>4. Len(s) \in Nat /\ u = [k \in 1..Len(s) |-> u[k]]
  BY ONLY <1>2, <1>3
<1>5. ASSUME NEW k \in 1..Len(s) PROVE LineIs(u[k], k, show)
  <2>1. CASE s[k] = t[k] /\ Fixed(s[k])
    BY <1>1, <1>3, <2>1 DEF LineIs
  <2>2. CASE \E i \in DOMAIN Code : s[k] = Instruction(i, FALSE) /\ t[k] = Instruction(i, TRUE)
    <3>1. PICK i \in DOMAIN Code : s[k] = Instruction(i, FALSE) /\ t[k] = Instruction(i, TRUE)
      BY <2>2
    <3>2. u[k] = Instruction(i, show)
      BY <1>1, <3>1
    <3>3. ShownAs(Instruction(i, show), i, show)
      BY InstructionIs, ShownTextIs DEF ShownAs
    <3> QED BY <1>1, <3>1, <3>2, <3>3 DEF LineIs
  <2> QED BY <1>2, <2>1, <2>2 DEF Twins
<1> QED BY <1>1, <1>4, <1>5

\* So is what the option changes in place.
LEMMA LineTurned ==
  ASSUME NEW k, NEW show \in BOOLEAN, NEW l, LineIs(l, k, show)
  PROVE  LineIs(Turned(l, ~show), k, ~show)
<1>1. CASE Fixed(l) /\ l = Layout[FALSE][k] /\ l = Layout[TRUE][k]
  <2>1. Turned(l, ~show) = l
    BY <1>1 DEF Turned, Fixed
  <2> QED BY <1>1, <2>1 DEF LineIs
<1>2. CASE \E i \in DOMAIN Code :
             Layout[FALSE][k] = Instruction(i, FALSE) /\ Layout[TRUE][k] = Instruction(i, TRUE) /\ ShownAs(l, i, show)
  <2>1. PICK i \in DOMAIN Code :
             Layout[FALSE][k] = Instruction(i, FALSE) /\ Layout[TRUE][k] = Instruction(i, TRUE) /\ ShownAs(l, i, show)
    BY <1>2
  <2>2. PICK other \in BOOLEAN : other = ~show /\ show = ~other
    OBVIOUS
  <2>3. ShownAs(l, i, ~other)
    BY <2>1, <2>2
  <2>4. ShownAs(Turned(l, other), i, other)
    BY <2>3, TurnedIs
  <2> QED BY <2>1, <2>2, <2>4 DEF LineIs
<1> QED BY <1>1, <1>2 DEF LineIs

\* At first the document is laid out.
LEMMA ViewStarts == ViewInit => ViewOK
BY LaidOut DEF ViewInit, ViewOK

\* setup lays it out anew.
LEMMA SetupKeeps == ViewOK /\ Setup => ViewOK'
BY LaidOut DEF Setup, ViewOK

\* showMachineCode changes its lines one by one.
LEMMA ToggleKeeps == ViewOK /\ ToggleMachineCode => ViewOK'
<1>1. SUFFICES ASSUME ViewOK, ToggleMachineCode PROVE ViewOK'
  OBVIOUS
<1>2. PICK n : n = Len(Layout[FALSE])
  OBVIOUS
<1>3. /\ showCode \in BOOLEAN /\ lines = [k \in 1..n |-> lines[k]]
      /\ \A k \in 1..n : LineIs(lines[k], k, showCode)
  BY <1>1, <1>2 DEF ViewOK
<1>4. lines' = [k \in 1..n |-> Turned(lines[k], ~showCode)] /\ showCode' = ~showCode
  BY <1>1, <1>3 DEF ToggleMachineCode
<1>5. \A k \in 1..n : LineIs(Turned(lines[k], ~showCode), k, ~showCode)
  BY <1>3, LineTurned
<1>6. showCode' \in BOOLEAN /\ lines' = [k \in 1..n |-> lines'[k]] /\ \A k \in 1..n : LineIs(lines'[k], k, showCode')
  BY <1>3, <1>4, <1>5
<1> QED BY <1>2, <1>6 DEF ViewOK

\* Such a document is as laid out anew where the bytes fit.
LEMMA ViewOKRebuild == ViewOK => ToggleIsRebuild
<1>1. SUFFICES ASSUME ViewOK, NEW k \in DOMAIN lines
               PROVE  /\ lines[k].address = Layout[showCode][k].address
                      /\ lines[k].bytes =< Width => lines[k].text = Layout[showCode][k].text
  BY DEF ToggleIsRebuild
<1>2. showCode \in BOOLEAN /\ LineIs(lines[k], k, showCode)
  BY <1>1 DEF ViewOK
<1>3. CASE lines[k] = Layout[FALSE][k] /\ lines[k] = Layout[TRUE][k]
  BY <1>2, <1>3
<1>4. CASE \E i \in DOMAIN Code :
             /\ Layout[FALSE][k] = Instruction(i, FALSE) /\ Layout[TRUE][k] = Instruction(i, TRUE)
             /\ ShownAs(lines[k], i, showCode)
  <2>1. PICK i \in DOMAIN Code :
             /\ Layout[FALSE][k] = Instruction(i, FALSE) /\ Layout[TRUE][k] = Instruction(i, TRUE)
             /\ ShownAs(lines[k], i, showCode)
    BY <1>4
  <2>2. Layout[showCode][k] = Instruction(i, showCode)
    BY <1>2, <2>1
  <2>3. Layout[showCode][k].address = CodeAt[i] /\ Layout[showCode][k].text = ShownText(i, showCode)
    BY <1>2, <2>2, InstructionIs
  <2> QED BY <2>1, <2>3 DEF ShownAs
<1> QED BY <1>2, <1>3, <1>4 DEF LineIs

-----------------------------------------------------------------------------
(***************************************************************************)
(* Chunks of a text                                                        *)
(***************************************************************************)

\* The characters of a text.
Character == Glyph \cup {LineEnd}

\* A text whose last line is empty.
Document(text) == text \in Seq(Character) /\ Len(text) > 0 /\ text[Len(text)] = LineEnd

\* A chunk is not empty and ends with a line of the text.
LEMMA ChunkEndIs ==
  ASSUME NEW text, Document(text), NEW n \in Nat \ {0}, NEW o \in 0..(Len(text) - 1)
  PROVE  ChunkEnd(text, o, n) \in (o + 1)..Len(text) /\ text[ChunkEnd(text, o, n)] = LineEnd
<1>1. PICK len \in Nat : len = Len(text) /\ len > 0 /\ text[len] = LineEnd
  BY DEF Document
<1>2. PICK d \in Nat : d = Max({n \div 2, 1}) /\ d > 0
  <2>1. PICK h \in Nat : h = n \div 2
    BY Z3
  <2>2. {h, 1} \subseteq Int /\ {h, 1} # {}
    OBVIOUS
  <2>3. \E x \in {h, 1} : \A y \in {h, 1} : x >= y
    BY <2>1
  <2>4. Max({h, 1}) \in {h, 1} /\ \A y \in {h, 1} : Max({h, 1}) >= y
    BY <2>3 DEF Max
  <2> QED BY <2>1, <2>4
<1>3. PICK size \in Nat : size = Len(text) \div d
  BY <1>1, <1>2, Z3
<1> DEFINE end == o + size
           newlines == {q \in end..len - 1 : text[q + 1] = LineEnd}
<1>4. ChunkEnd(text, o, n) = IF newlines = {} THEN Min({end, len}) ELSE 1 + Min(newlines)
  BY <1>1, <1>2, <1>3 DEF ChunkEnd
<1>5. o \in Nat /\ end \in Nat /\ end >= o /\ o < len
  BY <1>1
<1>6. CASE newlines = {}
  <2>1. ~(end =< len - 1)
    <3>1. SUFFICES ASSUME end =< len - 1 PROVE FALSE
      OBVIOUS
    <3>2. PICK q \in Nat : q = len - 1 /\ q + 1 = len
      BY <1>1
    <3>3. q \in end..len - 1
      BY <1>5, <3>1, <3>2
    <3>4. text[q + 1] = LineEnd
      BY <1>1, <3>2
    <3> QED BY <1>6, <3>3, <3>4
  <2> HIDE DEF end
  <2>2. {end, len} \subseteq Nat /\ {end, len} # {}
    BY <1>5
  <2>3. Min({end, len}) \in {end, len} /\ \A x \in {end, len} : Min({end, len}) =< x
    BY ONLY <2>2, MinIs
  <2>4. Min({end, len}) = len
    BY <1>1, <1>5, <2>1, <2>3
  <2> HIDE DEF newlines
  <2>5. ChunkEnd(text, o, n) = len
    BY <1>4, <1>6, <2>4
  <2> QED BY <1>1, <1>5, <2>5
<1>7. CASE newlines # {}
  <2>1. newlines \subseteq Nat
    BY <1>1, <1>5
  <2>2. Min(newlines) \in newlines
    <3> HIDE DEF newlines
    <3> QED BY <1>7, <2>1, MinIs
  <2>3. PICK q \in end..len - 1 : q = Min(newlines) /\ text[q + 1] = LineEnd
    BY <2>2
  <2> HIDE DEF newlines, end
  <2>4. ChunkEnd(text, o, n) = 1 + q
    BY <1>4, <1>7, <2>3
  <2>5. q \in Int /\ q >= end /\ q =< len - 1
    BY <1>1, <1>5, <2>3
  <2>6. 1 + q = q + 1
    BY <2>5
  <2>7. 1 + q \in (o + 1)..len
    BY ONLY <2>5, <1>5, len \in Nat
  <2> QED BY <1>1, <2>3, <2>4, <2>6, <2>7
<1> QED BY <1>6, <1>7

\* Chunks of a text from position o on: each ends with a line, and each position is in one of them.
Tiling(S, text, o) ==
  /\ \A c \in S : /\ c[1] \in Nat /\ c[2] \in Nat /\ o =< c[1] /\ c[1] < c[2] /\ c[2] =< Len(text)
                  /\ text[c[2]] = LineEnd
  /\ \A q \in o..(Len(text) - 1) : \E c \in S : c[1] =< q /\ q < c[2]
  /\ \A q \in o..(Len(text) - 1) : \A c, d \in S :
       c[1] =< q /\ q < c[2] /\ d[1] =< q /\ q < d[2] => c = d

\* One more chunk in front of those there are.
LEMMA TilingGrows ==
  ASSUME NEW text, NEW len \in Nat, len = Len(text), NEW o \in Nat, NEW e \in Nat, o < e, e =< len, text[e] = LineEnd,
         NEW S, Tiling(S, text, e)
  PROVE  Tiling({<<o, e>>} \union S, text, o)
<1>1. ASSUME NEW c \in {<<o, e>>} \union S
      PROVE  /\ c[1] \in Nat /\ c[2] \in Nat /\ o =< c[1] /\ c[1] < c[2] /\ c[2] =< Len(text)
             /\ text[c[2]] = LineEnd
             /\ c = <<o, e>> \/ (c \in S /\ e =< c[1])
  <2>1. CASE c = <<o, e>>
    BY <2>1
  <2>2. CASE c \in S
    BY <2>2 DEF Tiling
  <2> QED BY <2>1, <2>2
<1>2. ASSUME NEW q \in o..(len - 1) PROVE \E c \in {<<o, e>>} \union S : c[1] =< q /\ q < c[2]
  <2>1. CASE q < e
    <3>1. <<o, e>>[1] =< q /\ q < <<o, e>>[2]
      BY <2>1
    <3> QED BY <3>1
  <2>2. CASE ~(q < e)
    <3>1. q \in e..(len - 1)
      BY <2>2
    <3> QED BY <3>1 DEF Tiling
  <2> QED BY <2>1, <2>2
<1>3. ASSUME NEW q \in o..(len - 1), NEW c \in {<<o, e>>} \union S, NEW d \in {<<o, e>>} \union S,
             c[1] =< q, q < c[2], d[1] =< q, q < d[2]
      PROVE  c = d
  <2>1. CASE q < e
    <3>1. ~(e =< c[1]) /\ ~(e =< d[1])
      BY <1>1, <1>3, <2>1
    <3> QED BY <1>1, <3>1
  <2>2. CASE ~(q < e)
    <3>1. q \in e..(len - 1)
      BY <2>2
    <3>2. c # <<o, e>> /\ d # <<o, e>>
      BY <1>3, <2>2
    <3>3. c \in S /\ d \in S
      BY <3>2
    <3> QED BY <1>3, <3>1, <3>3 DEF Tiling
  <2> QED BY <2>1, <2>2
<1> QED BY <1>1, <1>2, <1>3 DEF Tiling

\* The chunks of the threads cover the text, and no two overlap.
LEMMA ChunksTile ==
  ASSUME NEW text, Document(text), NEW n \in Nat \ {0}
  PROVE  Tiling(Chunks(text, n), text, 0)
<1>1. PICK len \in Nat : len = Len(text) /\ len > 0
  BY DEF Document
<1> DEFINE End(o) == ChunkEnd(text, o, n)
           D == SUBSET ((0..len) \X (0..len))
           back == [i \in 1..len |-> len - End(len - i)]
           step == [i \in 1..len |-> [x \in D |-> {<<len - i, End(len - i)>>} \union x]]
<1>2. ASSUME NEW o \in 0..(len - 1) PROVE End(o) \in (o + 1)..len /\ text[End(o)] = LineEnd
  BY <1>1, ChunkEndIs
<1> HIDE DEF End
<1>3. ASSUME NEW i \in 1..len
      PROVE  /\ len - i \in 0..(len - 1) /\ len - i # len /\ End(len - i) \in 0..len
             /\ back[i] \in Nat /\ back[i] < i
  <2>1. PICK o \in 0..(len - 1) : o = len - i
    OBVIOUS
  <2>2. End(o) \in (o + 1)..len
    BY <1>2
  <2> QED BY <2>1, <2>2
<1>4. step \in [1..len -> [D -> D]]
  <2>1. ASSUME NEW i \in 1..len, NEW x \in D PROVE {<<len - i, End(len - i)>>} \union x \in D
    <3>1. len - i \in 0..len /\ End(len - i) \in 0..len
      BY <1>3
    <3> QED BY <3>1
  <2> HIDE DEF D
  <2> QED BY <2>1
<1>5. PICK g : g \in [1..len -> D] /\ \A i \in 1..len : g[i] = step[i][IF back[i] = 0 THEN {} ELSE g[back[i]]]
  <2>1. back \in [1..len -> Nat] /\ \A i \in 1..len : back[i] < i
    <3>1. back = [i \in 1..len |-> back[i]]
      OBVIOUS
    <3> HIDE DEF back
    <3> QED BY <1>3, <3>1
  <2>2. {} \in D
    OBVIOUS
  <2> HIDE DEF back, step, D
  <2>3. Solutions(len, D, back, step, {}) # {}
    BY <1>4, <2>1, <2>2, LeapRecursion
  <2> QED BY <2>3 DEF Solutions
<1> DEFINE h == [o \in 0..len |-> IF o = len THEN {} ELSE g[len - o]]
<1>6. h = [o \in 0..len |-> IF o = len THEN {} ELSE {<<o, End(o)>>} \union h[End(o)]]
  <2>1. ASSUME NEW o \in 0..len, o # len PROVE h[o] = {<<o, End(o)>>} \union h[End(o)]
    <3>1. PICK i \in 1..len : i = len - o /\ len - i = o
      BY <2>1
    <3>2. End(o) \in 0..len /\ back[i] = len - End(o) /\ (End(o) # len => back[i] # 0 /\ back[i] \in 1..len)
      <4>1. End(o) \in 0..len
        BY <1>3, <3>1
      <4> QED BY <3>1, <4>1
    <3>3. PICK x \in D : x = IF back[i] = 0 THEN {} ELSE g[back[i]]
      <4>1. back[i] # 0 => back[i] \in 1..len
        BY <1>3
      <4>2. {} \in D
        OBVIOUS
      <4> HIDE DEF back, D
      <4> QED BY <1>5, <4>1, <4>2
    <3>4. g[i] = {<<o, End(o)>>} \union x
      <4>1. g[i] = step[i][x]
        BY <1>5, <3>3
      <4> HIDE DEF D
      <4> QED BY <3>1, <4>1
    <3>5. h[End(o)] = x
      <4>1. CASE End(o) = len
        BY <3>2, <3>3, <4>1
      <4>2. CASE End(o) # len
        <5>1. h[End(o)] = g[len - End(o)]
          BY <3>2, <4>2
        <5> QED BY <3>2, <3>3, <4>2, <5>1
      <4> QED BY <4>1, <4>2
    <3>6. h[o] = g[i]
      BY <2>1, <3>1
    <3> QED BY <3>4, <3>5, <3>6
  <2>2. ASSUME NEW o \in 0..len PROVE h[o] = IF o = len THEN {} ELSE {<<o, End(o)>>} \union h[End(o)]
    <3>1. CASE o = len
      BY <3>1
    <3>2. CASE o # len
      <4> HIDE DEF h
      <4> QED BY <2>1, <3>2
    <3> QED BY <3>1, <3>2
  <2>3. h = [o \in 0..len |-> h[o]]
    OBVIOUS
  <2> HIDE DEF h
  <2> QED BY <2>2, <2>3
<1> HIDE DEF h
<1> DEFINE f == CHOOSE k : k = [o \in 0..len |-> IF o = len THEN {} ELSE {<<o, End(o)>>} \union k[End(o)]]
<1>7. f = [o \in 0..len |-> IF o = len THEN {} ELSE {<<o, End(o)>>} \union f[End(o)]]
  BY <1>6
<1>8. Chunks(text, n) = f[0]
  BY <1>1 DEF Chunks, End
<1> HIDE DEF f
<1>9. ASSUME NEW o \in 0..len PROVE f[o] = IF o = len THEN {} ELSE {<<o, End(o)>>} \union f[End(o)]
  BY <1>7
<1>10. Tiling({}, text, len)
  BY <1>1 DEF Tiling
<1> DEFINE P == {i \in 1..len : Tiling(f[len - i], text, len - i)}
<1>11. ASSUME NEW k \in 1..len, \A j \in 1..len : j < k => j \in P PROVE k \in P
  <2>1. PICK o \in 0..(len - 1) : o = len - k /\ o \in 0..len /\ o # len /\ o \in Nat
    OBVIOUS
  <2>2. PICK e \in (o + 1)..len : e = End(o) /\ text[e] = LineEnd
    BY <1>2
  <2>3. e \in Nat /\ o < e /\ e =< len
    BY <2>1, <2>2
  <2>4. Tiling(f[e], text, e)
    <3>1. CASE e = len
      <4>1. f[len] = {}
        <5>1. len \in 0..len
          OBVIOUS
        <5> QED BY <1>9, <5>1
      <4> QED BY <1>10, <3>1, <4>1
    <3>2. CASE e # len
      <4>1. PICK j \in 1..len : j = len - e /\ j < k /\ len - j = e
        BY <2>1, <2>3, <3>2
      <4> QED BY <1>11, <4>1
    <3> QED BY <3>1, <3>2
  <2>5. f[o] = {<<o, e>>} \union f[e]
    BY <1>9, <2>1, <2>2
  <2>6. Tiling({<<o, e>>} \union f[e], text, o)
    BY <1>1, <2>1, <2>2, <2>3, <2>4, TilingGrows
  <2> QED BY <2>1, <2>5, <2>6
<1>12. \A k \in 1..len : k \in P
  <2> HIDE DEF P
  <2> QED BY <1>11, LeapClimb
<1>13. len \in 1..len /\ len - len = 0
  BY <1>1
<1> QED BY <1>8, <1>12, <1>13

-----------------------------------------------------------------------------
(***************************************************************************)
(* Matches found in chunks                                                 *)
(***************************************************************************)

\* A part of a text by its positions.
LEMMA SubSeqOf ==
  ASSUME NEW s \in Seq(Character), NEW a \in Nat, NEW b \in Nat, a =< b, b =< Len(s)
  PROVE  /\ SubSeq(s, a + 1, b) \in Seq(Character) /\ Len(SubSeq(s, a + 1, b)) = b - a
         /\ \A i \in 1..(b - a) : SubSeq(s, a + 1, b)[i] = s[a + i]
<1>1. PICK m \in Nat, n \in Nat : m = a + 1 /\ n = b - a /\ b - m + 1 = n /\ m =< b + 1 /\ m >= 1
  OBVIOUS
<1>2. PICK t : t = SubSeq(s, m, b)
  OBVIOUS
<1>3. t = [i \in 1..(b - m + 1) |-> s[m + i - 1]]
  BY <1>1, <1>2
<1>4. t = [i \in 1..n |-> s[m + i - 1]]
  BY <1>1, <1>3
<1>5. ASSUME NEW i \in 1..n PROVE m + i - 1 = a + i /\ a + i \in 1..Len(s) /\ s[a + i] \in Character
  <2>1. m + i - 1 = a + i /\ a + i \in 1..Len(s)
    BY <1>1
  <2> QED BY ONLY <2>1, s \in Seq(Character)
<1>6. t \in [1..n -> Character] /\ \A i \in 1..n : t[i] = s[a + i]
  BY <1>4, <1>5
<1>7. t \in Seq(Character) /\ Len(t) = n
  BY ONLY <1>6, n \in Nat
<1> QED BY <1>1, <1>2, <1>6, <1>7

\* A pattern that is not empty and ends no line.
SearchPattern(p) ==
  /\ p.text = [i \in 1..Len(p.text) |-> p.text[i]] /\ Len(p.text) \in Nat /\ Len(p.text) > 0
  /\ \A i \in 1..Len(p.text) : p.text[i] # LineEnd

\* Where a text has it.
MatchAt(text, p, q) ==
  q \in Nat /\ q + Len(p.text) =< Len(text) /\ \A i \in 1..Len(p.text) : text[q + i] = p.text[i]

\* indexOf finds the pattern there and nowhere else.
LEMMA MatchIs ==
  ASSUME NEW text \in Seq(Character), NEW p, SearchPattern(p)
  PROVE  \A q : q \in MatchesIn(text, p) <=> MatchAt(text, p, q)
<1> SUFFICES ASSUME NEW q PROVE q \in MatchesIn(text, p) <=> MatchAt(text, p, q)
  OBVIOUS
<1>0. PICK m \in Nat : m = Len(p.text) /\ p.text = [i \in 1..m |-> p.text[i]]
  BY DEF SearchPattern
<1>1. PICK len \in Nat : len = Len(text)
  OBVIOUS
<1>2. MatchesIn(text, p) = {x \in 0..len - m : SubSeq(text, x + 1, x + m) = p.text}
  BY <1>0, <1>1 DEF MatchesIn
<1>3. ASSUME NEW x \in Nat, x + m =< len
      PROVE  SubSeq(text, x + 1, x + m) = p.text <=> \A i \in 1..m : text[x + i] = p.text[i]
  <2>1. PICK b \in Nat : b = x + m /\ x =< b /\ b =< Len(text) /\ b - x = m
    BY <1>1, <1>3
  <2>2. PICK t : t = SubSeq(text, x + 1, b)
    OBVIOUS
  <2>3. t \in Seq(Character) /\ Len(t) = m /\ \A i \in 1..m : t[i] = text[x + i]
    <3>1. text \in Seq(Character) /\ x \in Nat /\ b \in Nat /\ x =< b /\ b =< Len(text) /\ b - x = m
      BY <1>3, <2>1
    <3>2. /\ SubSeq(text, x + 1, b) \in Seq(Character) /\ Len(SubSeq(text, x + 1, b)) = b - x
          /\ \A i \in 1..(b - x) : SubSeq(text, x + 1, b)[i] = text[x + i]
      BY ONLY <3>1, SubSeqOf
    <3> QED BY <2>2, <3>1, <3>2
  <2>4. t = [i \in 1..m |-> t[i]]
    BY ONLY <2>3
  <2>5. t = p.text <=> \A i \in 1..m : t[i] = p.text[i]
    BY ONLY <2>4, <1>0
  <2> QED BY <2>1, <2>2, <2>3, <2>5
<1>4. q \in 0..len - m <=> q \in Nat /\ q + m =< len
  BY <1>1
<1>5. q \in MatchesIn(text, p) <=> q \in Nat /\ q + m =< len /\ \A i \in 1..m : text[q + i] = p.text[i]
  BY <1>1, <1>2, <1>3, <1>4
<1> QED BY <1>0, <1>1, <1>5 DEF MatchAt

\* Whatever the number of threads, each match in a text that ends with a line is
\* found once.
LEMMA MatchesFoundOnce ==
  ASSUME NEW text, Document(text), NEW p, SearchPattern(p), NEW n \in Nat \ {0}
  PROVE  /\ {x.key : x \in TextMatches(text, p, n)} = MatchesIn(text, p)
         /\ Cardinality(TextMatches(text, p, n)) = Cardinality(MatchesIn(text, p))
<1>1. PICK len \in Nat : len = Len(text) /\ len > 0 /\ text \in Seq(Character)
  BY DEF Document
<1>2. PICK m \in Nat : m = Len(p.text) /\ m > 0 /\ p.text = [i \in 1..m |-> p.text[i]] /\ \A i \in 1..m : p.text[i] # LineEnd
  BY DEF SearchPattern
<1>3. PICK C : C = Chunks(text, n) /\ Tiling(C, text, 0)
  BY ChunksTile
<1> DEFINE Part(c) == SubSeq(text, c[1] + 1, c[2])
           F == TextMatches(text, p, n)
           M == MatchesIn(text, p)
<1>4. ASSUME NEW c \in C
      PROVE  /\ c[1] \in Nat /\ c[2] \in Nat /\ c[1] < c[2] /\ c[2] =< len /\ text[c[2]] = LineEnd
             /\ \A q : q \in MatchesIn(Part(c), p) <=>
                         q \in Nat /\ q + m =< c[2] - c[1] /\ \A i \in 1..m : text[c[1] + q + i] = p.text[i]
  <2>1. PICK a \in Nat, b \in Nat : a = c[1] /\ b = c[2] /\ a < b /\ b =< len /\ text[b] = LineEnd
    <3>1. c[1] \in Nat /\ c[2] \in Nat /\ c[1] < c[2] /\ c[2] =< Len(text) /\ text[c[2]] = LineEnd
      BY ONLY <1>3, c \in C DEF Tiling
    <3> QED BY <1>1, <3>1
  <2>2. PICK u : u = Part(c)
    OBVIOUS
  <2>3. u \in Seq(Character) /\ Len(u) = b - a /\ \A i \in 1..(b - a) : u[i] = text[a + i]
    <3>1. u = SubSeq(text, a + 1, b)
      BY <2>1, <2>2
    <3>2. a =< b /\ b =< Len(text) /\ text \in Seq(Character)
      BY ONLY <1>1, <2>1, a \in Nat, b \in Nat
    <3>3. /\ SubSeq(text, a + 1, b) \in Seq(Character)
          /\ Len(SubSeq(text, a + 1, b)) = b - a
          /\ \A i \in 1..(b - a) : SubSeq(text, a + 1, b)[i] = text[a + i]
      BY ONLY <3>2, a \in Nat, b \in Nat, SubSeqOf
    <3> QED BY ONLY <3>1, <3>3
  <2>4. ASSUME NEW q
        PROVE  q \in MatchesIn(u, p) <=> q \in Nat /\ q + m =< b - a /\ \A i \in 1..m : text[a + q + i] = p.text[i]
    <3>1. q \in MatchesIn(u, p) <=> q \in Nat /\ q + m =< Len(u) /\ \A i \in 1..m : u[q + i] = p.text[i]
      <4>1. q \in MatchesIn(u, p) <=> MatchAt(u, p, q)
        BY <2>3, MatchIs
      <4> QED BY <1>2, <4>1 DEF MatchAt
    <3>2. ASSUME q \in Nat, q + m =< b - a, NEW i \in 1..m PROVE u[q + i] = text[a + q + i]
      <4>1. q + i \in 1..(b - a) /\ a + (q + i) = a + q + i
        BY <2>1, <3>2
      <4> QED BY <2>3, <4>1
    <3> QED BY <2>3, <3>1, <3>2
  <2> QED BY <2>1, <2>2, <2>4
<1>5. ASSUME NEW q
      PROVE  q \in M <=> q \in Nat /\ q + m =< len /\ \A i \in 1..m : text[q + i] = p.text[i]
  <2>1. q \in M <=> MatchAt(text, p, q)
    BY <1>1, MatchIs
  <2> QED BY <1>1, <1>2, <2>1 DEF MatchAt
<1>6. F = UNION {{[chunk |-> c, key |-> c[1] + q] : q \in MatchesIn(Part(c), p)} : c \in C}
  BY <1>3 DEF TextMatches
<1> HIDE DEF F, M, Part
\* What is found in a chunk is a match, begins in the chunk and is known by both.
<1>7. ASSUME NEW x \in F
      PROVE  /\ x.key \in M /\ x.key \in Nat /\ x.key < len
             /\ x.chunk \in C /\ x.chunk[1] =< x.key /\ x.key < x.chunk[2]
             /\ x = [chunk |-> x.chunk, key |-> x.key]
  <2>1. PICK c \in C : \E q \in MatchesIn(Part(c), p) : x = [chunk |-> c, key |-> c[1] + q]
    BY <1>6
  <2>2. PICK q : q \in MatchesIn(Part(c), p) /\ x = [chunk |-> c, key |-> c[1] + q]
    BY <2>1
  <2>3. PICK a \in Nat, b \in Nat : a = c[1] /\ b = c[2] /\ b =< len
    BY <1>4
  <2>4. q \in Nat /\ q + m =< b - a /\ \A i \in 1..m : text[a + q + i] = p.text[i]
    BY <1>4, <2>2, <2>3
  <2>5. PICK k \in Nat : k = a + q
    BY <2>4
  <2>6. a =< k /\ k < b /\ k + m =< len /\ k < len
    <3>1. m \in Nat /\ m > 0 /\ q \in Nat /\ q + m =< b - a /\ b =< len
      BY <1>2, <2>3, <2>4
    <3> QED BY ONLY <3>1, <2>5, a \in Nat, b \in Nat, len \in Nat
  <2>7. k \in M
    BY <1>5, <2>4, <2>5, <2>6
  <2> QED BY <2>2, <2>3, <2>5, <2>6, <2>7
\* A match lies in the chunk in which it begins, which ends with a line.
<1>8. ASSUME NEW q \in M
      PROVE  \E x \in F : x.key = q
  <2>1. q \in Nat /\ q + m =< len /\ \A i \in 1..m : text[q + i] = p.text[i]
    BY <1>5
  <2>2. q \in 0..(len - 1)
    BY <1>2, <2>1
  <2>3. PICK c \in C : c[1] =< q /\ q < c[2]
    BY <1>1, <1>3, <2>2 DEF Tiling
  <2>4. PICK a \in Nat, b \in Nat : a = c[1] /\ b = c[2] /\ text[b] = LineEnd /\ a =< q /\ q < b
    BY <1>4, <2>3
  <2>5. q + m =< b
    <3>1. SUFFICES ASSUME b < q + m PROVE FALSE
      BY <2>1, <2>4
    <3>2. PICK i \in 1..m : i = b - q /\ q + i = b
      BY <2>1, <2>4, <3>1
    <3> QED BY <1>2, <2>1, <2>4, <3>2
  <2>6. PICK r \in Nat : r = q - a /\ r + m =< b - a /\ a + r = q
    BY <2>1, <2>4, <2>5
  <2>7. r \in MatchesIn(Part(c), p)
    BY <1>4, <2>1, <2>4, <2>6
  <2>8. [chunk |-> c, key |-> c[1] + r] \in F
    BY <1>6, <2>7
  <2> QED BY <2>4, <2>6, <2>8
<1>9. {x.key : x \in F} = M
  BY <1>7, <1>8
<1>10. ASSUME NEW x \in F, NEW y \in F, x.key = y.key PROVE x = y
  <2>1. x.key \in 0..(len - 1)
    BY <1>7
  <2>2. x.chunk = y.chunk
    BY <1>1, <1>3, <1>7, <1>10, <2>1 DEF Tiling
  <2> QED BY <1>7, <1>10, <2>2
<1>11. IsFiniteSet(M)
  <2>1. M \subseteq 0..len
    BY <1>2, <1>5
  <2>2. IsFiniteSet(0..len)
    BY 0 \in Int, len \in Int, FS_Interval
  <2> QED BY <2>1, <2>2, FS_Subset
<1>12. Cardinality(F) = Cardinality(M)
  <2>1. PICK f : f = [x \in F |-> x.key]
    OBVIOUS
  <2>2. f \in [F -> M]
    BY <1>7, <2>1
  <2>3. f \in Injection(F, M)
    BY <1>10, <2>1, <2>2 DEF Injection, IsInjective
  <2>4. f \in Surjection(F, M)
    BY <1>8, <2>1, <2>2 DEF Surjection
  <2> QED BY <1>11, <2>3, <2>4, FS_Injection
<1> QED BY <1>9, <1>12 DEF F, M

-----------------------------------------------------------------------------
(***************************************************************************)
(* Lines and their ends                                                    *)
(***************************************************************************)

\* A text of i lines, each with its end: line k ends at ends[k].
Ruled(ls, text, ends, i) ==
  /\ text \in Seq(Character) /\ Len(text) = ends[i]
  /\ \A k \in 1..i :
       /\ ends[k] = ends[k - 1] + Len(ls[k].text) + 1 /\ ends[k] =< ends[i]
       /\ text[ends[k]] = LineEnd
       /\ \A j \in 1..Len(ls[k].text) : text[ends[k - 1] + j] = ls[k].text[j]

\* One more line at the end.
LEMMA RuledGrows ==
  ASSUME NEW ls, NEW n \in Nat, NEW ends \in [0..n -> Nat], NEW i \in 1..n, NEW s, Ruled(ls, s, ends, i - 1),
         \A k \in 1..i : ls[k].text \in Seq(Glyph), ends[i] = ends[i - 1] + Len(ls[i].text) + 1
  PROVE  Ruled(ls, s \o (ls[i].text \o <<LineEnd>>), ends, i)
<1>0. i \in 1..i
  OBVIOUS
<1>1. PICK t : t = ls[i].text /\ t \in Seq(Character) /\ Len(t) \in Nat
  <2>1. Glyph \subseteq Character
    BY DEF Character
  <2>2. \A t \in Seq(Glyph) : t \in Seq(Character)
    BY <2>1
  <2> QED BY <1>0, <2>2
<1>2. PICK v : v = <<LineEnd>> /\ v \in Seq(Character) /\ Len(v) = 1 /\ v[1] = LineEnd
  <2>1. PICK c \in Character : c = LineEnd
    BY DEF Character
  <2>2. <<c>> \in Seq(Character) /\ Len(<<c>>) = 1 /\ <<c>>[1] = c
    OBVIOUS
  <2> QED BY <2>1, <2>2
<1>3. PICK p \in Nat, m \in Nat, h \in Nat : p = ends[i - 1] /\ m = Len(t) /\ h = i - 1
  <2>1. i - 1 \in 0..n
    OBVIOUS
  <2> QED BY <1>1, <2>1
<1>4. PICK u : u = t \o v
  OBVIOUS
<1>5. /\ u \in Seq(Character) /\ Len(u) = m + 1
      /\ u[m + 1] = LineEnd /\ \A j \in 1..m : u[j] = t[j]
  <2>1. /\ u \in Seq(Character) /\ Len(u) = Len(t) + Len(v)
        /\ \A k \in 1 .. Len(t) + Len(v) : u[k] = IF k <= Len(t) THEN t[k] ELSE v[k - Len(t)]
    <3>1. t \in Seq(Character) /\ v \in Seq(Character)
      BY <1>1, <1>2
    <3> QED BY ONLY <1>4, <3>1, ConcatProperties
  <2>2. Len(t) = m /\ Len(v) = 1
    BY <1>2, <1>3
  <2>3. m + 1 \in 1..(m + 1) /\ ~(m + 1 <= m) /\ m + 1 - m = 1 /\ \A j \in 1..m : j \in 1..(m + 1) /\ j <= m
    BY ONLY m \in Nat
  <2> QED BY <1>2, <2>1, <2>2, <2>3
<1>6. s \in Seq(Character) /\ Len(s) = p
  BY <1>3 DEF Ruled
<1>7. PICK w : w = s \o u
  OBVIOUS
<1>8. /\ w \in Seq(Character) /\ Len(w) = p + (m + 1)
      /\ \A k \in 1..p : w[k] = s[k]
      /\ \A j \in 1..(m + 1) : w[p + j] = u[j]
  <2>1. /\ w \in Seq(Character) /\ Len(w) = Len(s) + Len(u)
        /\ \A k \in 1 .. Len(s) + Len(u) : w[k] = IF k <= Len(s) THEN s[k] ELSE u[k - Len(s)]
    <3>1. s \in Seq(Character) /\ u \in Seq(Character)
      BY <1>5, <1>6
    <3> QED BY ONLY <1>7, <3>1, ConcatProperties
  <2>2. Len(s) = p /\ Len(u) = m + 1
    BY <1>5, <1>6
  <2>3. ASSUME NEW k \in 1..p PROVE w[k] = s[k]
    <3>1. k \in 1..(p + (m + 1)) /\ k <= p
      BY ONLY p \in Nat, m \in Nat, k \in 1..p
    <3> QED BY <2>1, <2>2, <3>1
  <2>4. ASSUME NEW j \in 1..(m + 1) PROVE w[p + j] = u[j]
    <3>1. p + j \in 1..(p + (m + 1)) /\ ~(p + j <= p) /\ p + j - p = j
      BY ONLY p \in Nat, m \in Nat, j \in 1..(m + 1)
    <3> QED BY <2>1, <2>2, <3>1
  <2> QED BY <2>1, <2>2, <2>3, <2>4
<1>9. PICK e \in Nat : e = ends[i] /\ e = p + (m + 1) /\ e = p + m + 1
  BY <1>1, <1>3
<1>10. ASSUME NEW k \in 1..i
       PROVE  /\ ends[k] = ends[k - 1] + Len(ls[k].text) + 1 /\ ends[k] =< ends[i]
              /\ w[ends[k]] = LineEnd
              /\ \A j \in 1..Len(ls[k].text) : w[ends[k - 1] + j] = ls[k].text[j]
  <2>1. CASE k = i
    <3>1. m + 1 \in 1..(m + 1) /\ \A j \in 1..m : j \in 1..(m + 1)
      BY ONLY m \in Nat
    <3>2. w[e] = LineEnd /\ \A j \in 1..m : w[p + j] = t[j]
      BY <1>5, <1>8, <1>9, <3>1
    <3>3. ends[k - 1] = p /\ ls[k].text = t /\ ends[k] = e /\ Len(t) = m
      BY <1>1, <1>3, <1>9, <2>1
    <3>4. e =< e /\ e = p + m + 1
      BY <1>9
    <3> QED BY <1>9, <2>1, <3>2, <3>3, <3>4
  <2>2. CASE k # i
    <3>1. k \in 1..h /\ k \in 0..n /\ k - 1 \in 0..n
      BY <1>3, <2>2
    <3>2. PICK a \in Nat, b \in Nat : a = ends[k] /\ b = ends[k - 1]
      BY <3>1
    <3>3. PICK l \in Nat : l = Len(ls[k].text)
      <4>1. ls[k].text \in Seq(Glyph)
        OBVIOUS
      <4> QED BY ONLY <4>1
    <3>4. a = b + l + 1 /\ a =< p /\ s[a] = LineEnd /\ \A j \in 1..l : s[b + j] = ls[k].text[j]
      BY <1>3, <3>1, <3>2, <3>3 DEF Ruled
    <3>5. a =< p /\ a = b + l + 1
      BY <3>4
    <3>6. a =< e
      BY <1>9, <3>4
    <3>7. a \in 1..p /\ \A j \in 1..l : b + j \in 1..p
      BY ONLY a \in Nat, b \in Nat, l \in Nat, p \in Nat, <3>5
    <3>8. w[a] = LineEnd /\ \A j \in 1..l : w[b + j] = ls[k].text[j]
      BY <1>8, <3>4, <3>7
    <3> QED BY <1>9, <3>2, <3>3, <3>4, <3>6, <3>8
  <2> QED BY <2>1, <2>2
<1>11. Len(w) = ends[i]
  BY <1>8, <1>9
<1>12. Ruled(ls, w, ends, i)
  BY <1>8, <1>10, <1>11 DEF Ruled
<1> QED BY <1>1, <1>2, <1>4, <1>7, <1>12

\* Lines joined by line ends.
FlatText(ls) == FlattenSeq([k \in DOMAIN ls |-> ls[k].text \o IF k = Len(ls) THEN <<>> ELSE <<LineEnd>>])

\* Where the lines of a text end, all but the last, which is empty.
LineEnds(ls, text) == {ends \in [0..(Len(ls) - 1) -> Nat] : ends[0] = 0 /\ Ruled(ls, text, ends, Len(ls) - 1)}

\* Lines of which the last one is empty.
Page(ls) ==
  /\ Len(ls) \in Nat /\ Len(ls) > 1 /\ DOMAIN ls = 1..Len(ls)
  /\ \A k \in 1..Len(ls) : ls[k].text \in Seq(Glyph)
  /\ ls[Len(ls)].text = <<>>

\* The text of such lines has ends for them.
LEMMA PageIsRuled ==
  ASSUME NEW ls, Page(ls)
  PROVE  LineEnds(ls, FlatText(ls)) # {}
<1>1. PICK n \in Nat : n = Len(ls) /\ n > 1 /\ DOMAIN ls = 1..n /\ n - 1 \in Nat
                       /\ (\A k \in 1..n : ls[k].text \in Seq(Glyph)) /\ ls[n].text = <<>>
  <2>1. PICK n \in Nat : n = Len(ls)
    BY DEF Page
  <2>2. n > 1 /\ DOMAIN ls = 1..n /\ (\A k \in 1..n : ls[k].text \in Seq(Glyph)) /\ ls[n].text = <<>>
    BY <2>1 DEF Page
  <2>3. n - 1 \in Nat
    BY ONLY <2>2, n \in Nat
  <2> QED BY <2>1, <2>2, <2>3
<1> DEFINE Part(k) == ls[k].text \o IF k = n THEN <<>> ELSE <<LineEnd>>
           ss == [k \in 1..n |-> Part(k)]
<1>2. ASSUME NEW k \in 1..n PROVE Part(k) \in Seq(Character)
  <2>1. ls[k].text \in Seq(Character)
    <3>1. Glyph \subseteq Character
      BY DEF Character
    <3>2. \A t \in Seq(Glyph) : t \in Seq(Character)
      BY <3>1
    <3> QED BY <1>1, <3>2
  <2>2. <<>> \in Seq(Character) /\ <<LineEnd>> \in Seq(Character)
    <3>1. PICK c \in Character : c = LineEnd
      BY DEF Character
    <3>2. <<c>> \in Seq(Character)
      OBVIOUS
    <3> QED BY <3>1, <3>2
  <2>3. PICK u : u = IF k = n THEN <<>> ELSE <<LineEnd>>
    OBVIOUS
  <2>4. u \in Seq(Character)
    BY <2>2, <2>3
  <2>5. ls[k].text \o u \in Seq(Character)
    BY ONLY <2>1, <2>4
  <2> QED BY <2>3, <2>5
<1>3. FlatText(ls) = FlattenSeq(ss)
  BY <1>1 DEF FlatText
<1> HIDE DEF Part
<1>4. ss \in Seq(Seq(Character)) /\ Len(ss) = n /\ \A k \in 1..n : ss[k] = Part(k)
  <2>1. PICK t : t = ss
    OBVIOUS
  <2>2. t \in [1..n -> Seq(Character)] /\ \A k \in 1..n : t[k] = Part(k)
    BY <1>2, <2>1
  <2>3. t \in Seq(Seq(Character)) /\ Len(t) = n
    BY ONLY <2>2, n \in Nat
  <2> QED BY <2>1, <2>2, <2>3
<1> HIDE DEF ss
<1>5. PICK f : /\ \A i \in 1..n : f[i] \in Seq(Character)
               /\ FlattenSeq(ss) = f[n] /\ f[1] = ss[1] /\ \A i \in 1..n : i > 1 => f[i] = f[i - 1] \o ss[i]
  <2>1. ss \in Seq(Seq(Character)) /\ Len(ss) > 0
    BY <1>1, <1>4
  <2>2. SoFar(ss, Character) # {}
    BY ONLY <2>1, JoinedSoFar
  <2> QED BY <1>4, <2>2 DEF SoFar
<1> DEFINE h == [k \in 0..(n - 1) |-> IF k = 0 THEN <<>> ELSE f[k]]
           ends == [k \in 0..(n - 1) |-> Len(h[k])]
<1>6. ASSUME NEW k \in 1..(n - 1)
      PROVE  k \in 1..n /\ k \in 0..(n - 1) /\ k - 1 \in 0..(n - 1) /\ h[k] = h[k - 1] \o (ls[k].text \o <<LineEnd>>)
  <2>1. k \in 1..n /\ k # n /\ k # 0 /\ k \in 0..(n - 1) /\ k - 1 \in 0..(n - 1)
    BY ONLY n \in Nat, n - 1 \in Nat, k \in 1..(n - 1)
  <2>2. ss[k] = ls[k].text \o <<LineEnd>> /\ ss[k] \in Seq(Character)
    BY <1>2, <1>4, <2>1 DEF Part
  <2>3. CASE k = 1
    <3>1. <<>> \o ss[1] = ss[1]
      BY <2>2, <2>3
    <3>2. h[k] = f[1] /\ h[k - 1] = <<>>
      BY <2>1, <2>3
    <3> QED BY <1>5, <2>1, <2>2, <2>3, <3>1, <3>2
  <2>4. CASE k # 1
    <3>1. h[k] = f[k] /\ h[k - 1] = f[k - 1] /\ k > 1
      BY <2>1, <2>4
    <3> QED BY <1>5, <2>1, <2>2, <3>1
  <2> QED BY <2>3, <2>4
<1>7. ASSUME NEW k \in 0..(n - 1) PROVE h[k] \in Seq(Character)
  <2>1. CASE k = 0
    BY <2>1
  <2>2. CASE k # 0
    <3>1. k \in 1..n
      BY <2>2
    <3> QED BY <1>5, <2>2, <3>1
  <2> QED BY <2>1, <2>2
<1> HIDE DEF h
<1>8. ends \in [0..(n - 1) -> Nat]
  <2>1. \A s \in Seq(Character) : Len(s) \in Nat
    OBVIOUS
  <2> QED BY <1>7, <2>1
<1>9. 0 \in 0..(n - 1) /\ h[0] = <<>> /\ ends[0] = 0
  <2>1. 0 \in 0..(n - 1)
    BY <1>1
  <2>2. h[0] = <<>>
    BY <2>1 DEF h
  <2> QED BY <2>1, <2>2
<1>10. ASSUME NEW k \in 1..(n - 1) PROVE ends[k] = ends[k - 1] + Len(ls[k].text) + 1
  <2>1. PICK a, t, v : a = h[k - 1] /\ t = ls[k].text /\ v = <<LineEnd>>
    OBVIOUS
  <2>2. a \in Seq(Character) /\ t \in Seq(Character) /\ v \in Seq(Character) /\ Len(v) = 1
    <3>1. Glyph \subseteq Character
      BY DEF Character
    <3>2. \A s \in Seq(Glyph) : s \in Seq(Character)
      BY <3>1
    <3>3. PICK c \in Character : c = LineEnd
      BY DEF Character
    <3>4. <<c>> \in Seq(Character) /\ Len(<<c>>) = 1
      OBVIOUS
    <3> QED BY <1>1, <1>6, <1>7, <2>1, <3>2, <3>3, <3>4
  <2>3. Len(a \o (t \o v)) = Len(a) + Len(t) + 1
    <3>1. PICK u \in Seq(Character) : u = t \o v /\ Len(u) = Len(t) + 1
      <4>1. t \o v \in Seq(Character) /\ Len(t \o v) = Len(t) + Len(v)
        BY ONLY <2>2, ConcatProperties
      <4> QED BY <2>2, <4>1
    <3>2. Len(a \o u) = Len(a) + Len(u) /\ Len(a) \in Nat /\ Len(t) \in Nat
      BY ONLY <2>2, ConcatProperties, u \in Seq(Character)
    <3> QED BY ONLY <3>1, <3>2
  <2>4. ends[k] = Len(h[k]) /\ ends[k - 1] = Len(h[k - 1])
    BY <1>6
  <2> QED BY <1>6, <2>1, <2>3, <2>4
<1> HIDE DEF ends
<1> DEFINE P == {i \in 1..(n - 1) : Ruled(ls, h[i], ends, i)}
<1>11. ASSUME NEW i \in 1..(n - 1), Ruled(ls, h[i - 1], ends, i - 1) PROVE Ruled(ls, h[i], ends, i)
  <2>1. \A k \in 1..i : ls[k].text \in Seq(Glyph)
    <3>1. \A k \in 1..i : k \in 1..n
      BY <1>1
    <3> QED BY <1>1, <3>1
  <2>2. ends[i] = ends[i - 1] + Len(ls[i].text) + 1
    BY <1>10
  <2>3. n - 1 \in Nat /\ ends \in [0..(n - 1) -> Nat]
    BY <1>1, <1>8
  <2>4. Ruled(ls, h[i - 1] \o (ls[i].text \o <<LineEnd>>), ends, i)
    BY <1>11, <2>1, <2>2, <2>3, RuledGrows
  <2> QED BY <1>6, <2>4
<1>12. Ruled(ls, h[0], ends, 0)
  <2>1. <<>> \in Seq(Character) /\ Len(<<>>) = 0
    OBVIOUS
  <2> QED BY <1>9, <2>1 DEF Ruled
<1>13. 1 \in P
  <2>1. 1 \in 1..(n - 1) /\ 1 - 1 = 0
    BY <1>1
  <2> QED BY <1>11, <1>12, <2>1
<1>14. ASSUME NEW k \in 1..(n - 1), k < n - 1, k \in P PROVE k + 1 \in P
  <2>1. PICK i \in 1..(n - 1) : i = k + 1 /\ i - 1 = k
    BY <1>1, <1>14
  <2> QED BY <1>11, <1>14, <2>1
<1>15. \A k \in 1..(n - 1) : k \in P
  <2>1. n - 1 \in Nat /\ (n - 1 > 0 => 1 \in P)
    BY <1>1, <1>13
  <2>2. \A k \in 1..(n - 1) : k < n - 1 /\ k \in P => k + 1 \in P
    BY <1>14
  <2> HIDE DEF P
  <2>3. PICK m \in Nat : m = n - 1
    BY <2>1
  <2>4. (m > 0 => 1 \in P) /\ \A k \in 1..m : k < m /\ k \in P => k + 1 \in P
    BY <2>1, <2>2, <2>3
  <2>5. \A k \in 1..m : k \in P
    BY ONLY <2>4, m \in Nat, Climb
  <2> QED BY <2>3, <2>5
<1>16. FlattenSeq(ss) = h[n - 1]
  <2>1. n \in 1..n /\ n > 1 /\ n - 1 \in 1..n /\ n - 1 \in 0..(n - 1) /\ n - 1 # 0
    BY <1>1
  <2>2. f[n] = f[n - 1] \o ss[n]
    BY <1>5, <2>1
  <2>3. ss[n] = <<>> \o <<>>
    BY <1>1, <1>4, <2>1 DEF Part
  <2>4. <<>> \o <<>> = <<>>
    OBVIOUS
  <2>5. f[n - 1] \in Seq(Character)
    BY <1>5, <2>1
  <2>6. f[n] = f[n - 1]
    BY <2>2, <2>3, <2>4, <2>5
  <2>7. h[n - 1] = f[n - 1]
    BY <2>1 DEF h
  <2> QED BY <1>5, <2>6, <2>7
<1>17. Ruled(ls, FlatText(ls), ends, n - 1)
  <2>1. n - 1 \in 1..(n - 1)
    BY <1>1
  <2> QED BY <1>3, <1>15, <1>16, <2>1
<1> QED BY <1>1, <1>8, <1>9, <1>17 DEF LineEnds

\* Lines end one after another, and nothing in a line ends it.
Ends(ls, text, ends, n) ==
  /\ n \in Nat /\ ends \in [0..n -> Nat] /\ ends[0] = 0 /\ Len(text) = ends[n] /\ text \in Seq(Character)
  /\ \A k \in 1..n : /\ Len(ls[k].text) \in Nat /\ ends[k] = ends[k - 1] + Len(ls[k].text) + 1
                     /\ text[ends[k]] = LineEnd
                     /\ \A j \in 1..Len(ls[k].text) :
                          text[ends[k - 1] + j] = ls[k].text[j] /\ ls[k].text[j] # LineEnd

\* They are just the positions that end lines.
LEMMA PageEnds ==
  ASSUME NEW ls, Page(ls)
  PROVE  \E n \in Nat : n > 0 /\ Len(ls) = n + 1 /\ \E ends \in [0..n -> Nat] : Ends(ls, FlatText(ls), ends, n)
<1>1. PICK n \in Nat : n = Len(ls) - 1 /\ n > 0 /\ Len(ls) = n + 1 /\ \A k \in 1..n : ls[k].text \in Seq(Glyph)
  <2>1. PICK m \in Nat : m = Len(ls) /\ m > 1 /\ \A k \in 1..m : ls[k].text \in Seq(Glyph)
    BY DEF Page
  <2>2. PICK n \in Nat : n = m - 1 /\ n > 0 /\ m = n + 1 /\ \A k \in 1..n : k \in 1..m
    BY <2>1
  <2> QED BY <2>1, <2>2
<1>2. PICK ends \in [0..n -> Nat] : ends[0] = 0 /\ Ruled(ls, FlatText(ls), ends, n)
  BY <1>1, PageIsRuled DEF LineEnds
<1>3. ASSUME NEW k \in 1..n, NEW j \in 1..Len(ls[k].text) PROVE ls[k].text[j] # LineEnd
  <2>1. ls[k].text \in Seq(Glyph)
    BY <1>1
  <2>2. ls[k].text[j] \in Glyph
    BY ONLY <2>1, j \in 1..Len(ls[k].text)
  <2> QED BY <2>2, GlyphsEndNoLine
<1>4. \A k \in 1..n : Len(ls[k].text) \in Nat
  BY <1>1
<1>5. Ends(ls, FlatText(ls), ends, n)
  BY <1>1, <1>2, <1>3, <1>4 DEF Ruled, Ends
<1> QED BY <1>1, <1>5

\* The lines end in the order they have.
LEMMA EndsGrow ==
  ASSUME NEW ls, NEW text, NEW n \in Nat, NEW ends \in [0..n -> Nat], Ends(ls, text, ends, n)
  PROVE  \A k \in 1..n : ends[k - 1] < ends[k] /\ \A j \in 0..(k - 1) : ends[j] =< ends[k - 1]
<1>1. ASSUME NEW k \in 1..n PROVE ends[k - 1] \in Nat /\ ends[k] \in Nat /\ ends[k - 1] < ends[k]
  <2>1. k \in 0..n /\ k - 1 \in 0..n
    OBVIOUS
  <2>2. PICK a \in Nat, b \in Nat, l \in Nat : a = ends[k - 1] /\ b = ends[k] /\ l = Len(ls[k].text)
    BY <2>1 DEF Ends
  <2>3. b = a + l + 1
    BY <2>2 DEF Ends
  <2> QED BY <2>2, <2>3
<1> DEFINE P == {k \in 1..n : \A j \in 0..(k - 1) : ends[j] =< ends[k - 1]}
<1>2. n > 0 => 1 \in P
  <2>1. SUFFICES ASSUME n > 0 PROVE 1 \in P
    OBVIOUS
  <2>2. 1 \in 1..n /\ 1 - 1 = 0 /\ \A j \in 0..(1 - 1) : j = 0
    BY <2>1
  <2>3. ends[0] =< ends[0]
    BY DEF Ends
  <2> QED BY <2>2, <2>3
<1>3. ASSUME NEW k \in 1..n, k < n, k \in P PROVE k + 1 \in P
  <2>1. PICK i \in 1..n : i = k + 1 /\ i - 1 = k
    BY <1>3
  <2>2. ASSUME NEW j \in 0..k PROVE ends[j] =< ends[k]
    <3>1. CASE j = k
      BY <1>1, <3>1
    <3>2. CASE j # k
      <4>1. j \in 0..(k - 1) /\ j \in 0..n
        BY <3>2
      <4>2. ends[j] =< ends[k - 1]
        BY <1>3, <4>1
      <4>3. PICK a \in Nat, b \in Nat, c \in Nat : a = ends[j] /\ b = ends[k - 1] /\ c = ends[k] /\ b < c /\ a =< b
        BY <1>1, <4>1, <4>2
      <4> QED BY <4>3
    <3> QED BY <3>1, <3>2
  <2> QED BY <2>1, <2>2
<1>4. \A k \in 1..n : k \in P
  <2> HIDE DEF P
  <2> QED BY <1>2, <1>3, Climb
<1> QED BY <1>1, <1>4

\* How many lines end before a position.
EndsBefore(text, q) == Cardinality({r \in 1..q : text[r] = LineEnd})

\* That is its line, counted from 0.
LEMMA LineOfIs ==
  ASSUME NEW ls, NEW text, NEW n \in Nat, NEW ends \in [0..n -> Nat], Ends(ls, text, ends, n),
         NEW q \in Nat, q =< Len(text)
  PROVE  /\ EndsBefore(text, q) \in 0..n /\ ends[EndsBefore(text, q)] =< q
         /\ EndsBefore(text, q) < n => q < ends[EndsBefore(text, q) + 1]
<1>1. \A k \in 1..n : ends[k] \in Nat /\ ends[k - 1] \in Nat /\ ends[k - 1] < ends[k]
  <2>1. \A k \in 1..n : k \in 0..n /\ k - 1 \in 0..n
    OBVIOUS
  <2> QED BY <2>1, EndsGrow
<1>2. \A k \in 1..n : \A j \in 0..(k - 1) : ends[j] =< ends[k - 1]
  BY EndsGrow
<1>3. ends[0] = 0 /\ ends[n] = Len(text) /\ ends[n] \in Nat
  BY DEF Ends
<1> DEFINE B == {k \in 0..n : ends[k] =< q}
           K == {k \in 1..(n + 1) : k - 1 \in B}
\* The last line end at or before the position.
<1>4. PICK c \in 0..n : ends[c] =< q /\ \A k \in B : k =< c
  <2>1. 0 \in B
    BY <1>3
  <2>2. 1 \in K /\ K \subseteq 1..(n + 1) /\ n + 1 \in Nat
    BY <2>1
  <2>3. PICK m \in K : \A i \in K : i =< m
    <3> HIDE DEF K
    <3> QED BY <2>2, GreatestIndex
  <2>4. PICK c \in B : c = m - 1
    OBVIOUS
  <2>5. ASSUME NEW k \in B PROVE k =< c
    <3>1. k + 1 \in K
      OBVIOUS
    <3>2. k + 1 =< m
      BY <2>3, <3>1
    <3> QED BY <2>4, <3>2
  <2> QED BY <2>4, <2>5
<1>5. \A k \in 1..n : k =< c => ends[k] =< q
  <2>1. ASSUME NEW k \in 1..n, k =< c PROVE ends[k] =< q
    <3>1. CASE k = c
      BY <1>4, <3>1
    <3>2. CASE k # c
      <4>1. PICK i \in 1..n : i = c /\ k \in 0..(i - 1)
        BY <2>1, <3>2
      <4>2. ends[k] =< ends[i - 1] /\ ends[i - 1] < ends[i] /\ ends[i] =< q
        BY <1>1, <1>2, <1>4, <4>1
      <4> QED BY <1>1, <4>1, <4>2
    <3> QED BY <3>1, <3>2
  <2> QED BY <2>1
\* What ends a line is the end of one of them.
<1>6. ASSUME NEW r \in 1..q, text[r] = LineEnd PROVE \E k \in 1..c : r = ends[k]
  <2> DEFINE L == {k \in 1..n : r =< ends[k]}
  <2>1. n \in L
    <3>1. n # 0
      BY <1>3
    <3>2. r =< ends[n]
      BY <1>3
    <3> QED BY <3>1, <3>2
  <2>2. PICK k \in L : \A i \in L : k =< i
    <3>1. L \subseteq 1..n
      OBVIOUS
    <3> HIDE DEF L
    <3> QED BY <2>1, <3>1, LeastIndex
  <2>3. k \in 1..n /\ r =< ends[k]
    OBVIOUS
  <2>4. ends[k - 1] < r
    <3>1. CASE k = 1
      <4>1. ends[k - 1] = 0
        BY <1>3, <3>1
      <4> QED BY <4>1
    <3>2. CASE k # 1
      <4>1. PICK i \in 1..n : i = k - 1 /\ ~(k =< i)
        BY <2>3, <3>2
      <4>2. i \notin L
        BY <2>2, <4>1
      <4> QED BY <1>1, <4>1, <4>2
    <3> QED BY <3>1, <3>2
  <2>5. r = ends[k]
    <3>1. SUFFICES ASSUME r # ends[k] PROVE FALSE
      OBVIOUS
    <3>2. PICK a \in Nat, b \in Nat, l \in Nat : a = ends[k - 1] /\ b = ends[k] /\ l = Len(ls[k].text)
      BY <1>1, <2>3 DEF Ends
    <3>3. b = a + l + 1
      BY <2>3, <3>2 DEF Ends
    <3>4. PICK j \in 1..l : a + j = r
      <4>1. r - a \in 1..l /\ a + (r - a) = r
        <5>1. r \in Nat /\ a < r /\ r =< b /\ r # b /\ b = a + l + 1
          BY <2>3, <2>4, <3>1, <3>2, <3>3
        <5> QED BY ONLY <5>1, a \in Nat, l \in Nat
      <4> QED BY <4>1
    <3>5. text[a + j] # LineEnd
      <4>1. \A i \in 1..Len(ls[k].text) : text[ends[k - 1] + i] = ls[k].text[i] /\ ls[k].text[i] # LineEnd
        BY ONLY <2>3, Ends(ls, text, ends, n) DEF Ends
      <4> QED BY ONLY <3>2, <4>1, j \in 1..l
    <3> QED BY <1>6, <3>4, <3>5
  <2>6. k \in B
    BY <2>3, <2>5
  <2>7. k =< c
    <3> HIDE DEF B
    <3> QED BY <1>4, <2>6
  <2> QED BY <2>3, <2>5, <2>7
<1> DEFINE E == {r \in 1..q : text[r] = LineEnd}
<1>7. ASSUME NEW k \in 1..c PROVE k \in 1..n /\ ends[k] \in E
  <2>1. k \in 1..n
    OBVIOUS
  <2>2. ends[k] =< q /\ ends[k] \in Nat /\ ends[k] > 0
    BY <1>1, <1>5, <2>1
  <2> QED BY <2>1, <2>2 DEF Ends
<1>8. ASSUME NEW k \in 1..c, NEW j \in 1..c, ends[k] = ends[j] PROVE k = j
  <2>1. ASSUME NEW x \in 1..c, NEW y \in 1..c, x < y PROVE ends[x] < ends[y]
    <3>1. x \in 0..(y - 1) /\ y \in 1..n /\ x \in 1..n
      BY <2>1
    <3>2. ends[x] =< ends[y - 1] /\ ends[y - 1] < ends[y]
      BY <1>1, <1>2, <3>1
    <3> QED BY <1>1, <3>1, <3>2
  <2>2. ends[k] \in Nat /\ ends[j] \in Nat
    BY <1>1, <1>7
  <2>3. ~(k < j) /\ ~(j < k)
    BY <1>8, <2>1, <2>2
  <2> QED BY <2>3
<1>9. Cardinality(E) = c
  <2>1. PICK f : f = [k \in 1..c |-> ends[k]]
    OBVIOUS
  <2>2. f \in [1..c -> E]
    <3> HIDE DEF E
    <3> QED BY <1>7, <2>1
  <2>3. f \in Bijection(1..c, E)
    <3>1. f \in Injection(1..c, E)
      <4> HIDE DEF E
      <4> QED BY <1>8, <2>1, <2>2 DEF Injection, IsInjective
    <3>2. f \in Surjection(1..c, E)
      <4>1. \A r \in E : \E k \in 1..c : f[k] = r
        BY <1>6, <2>1
      <4> HIDE DEF E
      <4> QED BY <2>2, <4>1 DEF Surjection
    <3> QED BY <3>1, <3>2 DEF Bijection
  <2> HIDE DEF E
  <2>4. IsFiniteSet(1..c) /\ Cardinality(1..c) = c
    <3>1. 1 \in Int /\ c \in Int /\ c \in Nat
      OBVIOUS
    <3>2. IsFiniteSet(1..c) /\ Cardinality(1..c) = IF 1 > c THEN 0 ELSE c - 1 + 1
      BY ONLY <3>1, FS_Interval
    <3> QED BY ONLY <3>1, <3>2
  <2>5. ExistsBijection(1..c, E)
    BY <2>3 DEF ExistsBijection
  <2> QED BY <2>4, <2>5, FS_Bijection
<1>10. c < n => q < ends[c + 1]
  <2>1. SUFFICES ASSUME c < n PROVE q < ends[c + 1]
    OBVIOUS
  <2>2. PICK i \in 1..n : i = c + 1 /\ i \in 0..n /\ ~(i =< c)
    BY <2>1
  <2>3. i \notin B
    <3> HIDE DEF B
    <3> QED BY <1>4, <2>2
  <2> QED BY <1>1, <2>2, <2>3
<1>11. EndsBefore(text, q) = c
  BY <1>9 DEF EndsBefore
<1> HIDE DEF E, K, B
<1> QED BY <1>4, <1>10, <1>11

\* The text of such lines ends with a line.
LEMMA PageDocument ==
  ASSUME NEW ls, Page(ls)
  PROVE  Document(FlatText(ls))
<1>1. PICK n \in Nat : n > 0 /\ \E ends \in [0..n -> Nat] : Ends(ls, FlatText(ls), ends, n)
  BY PageEnds
<1>2. PICK ends \in [0..n -> Nat] : Ends(ls, FlatText(ls), ends, n)
  BY <1>1
<1>3. n \in 1..n /\ n \in 0..n /\ n - 1 \in 0..n
  BY <1>1
<1>4. ends[n] > 0
  <2>1. ends[n - 1] < ends[n] /\ ends[n - 1] \in Nat /\ ends[n] \in Nat
    BY <1>2, <1>3, EndsGrow
  <2> QED BY <2>1
<1> QED BY <1>2, <1>3, <1>4 DEF Ends, Document

\* The line of a position, counted from 1.
LineAt(text, q) == 1 + EndsBefore(text, q)

\* A position of the text has a line.
LEMMA LineAtIs ==
  ASSUME NEW ls, Page(ls), NEW q \in Nat, q =< Len(FlatText(ls))
  PROVE  LineAt(FlatText(ls), q) \in 1..Len(ls)
<1>1. PICK n \in Nat : Len(ls) = n + 1 /\ \E ends \in [0..n -> Nat] : Ends(ls, FlatText(ls), ends, n)
  BY PageEnds
<1>2. PICK ends \in [0..n -> Nat] : Ends(ls, FlatText(ls), ends, n)
  BY <1>1
<1>3. PICK c : c = EndsBefore(FlatText(ls), q)
  OBVIOUS
<1>4. c \in 0..n
  BY <1>2, <1>3, LineOfIs
<1> QED BY <1>1, <1>3, <1>4 DEF LineAt

\* A pattern found in the text is in the line of its position.
LEMMA MatchInLine ==
  ASSUME NEW ls, Page(ls), NEW p, SearchPattern(p), NEW q \in MatchesIn(FlatText(ls), p)
  PROVE  MatchesIn(ls[LineAt(FlatText(ls), q)].text, p) # {}
<1>1. PICK n \in Nat : Len(ls) = n + 1 /\ \E ends \in [0..n -> Nat] : Ends(ls, FlatText(ls), ends, n)
  BY PageEnds
<1>2. PICK text : text = FlatText(ls)
  OBVIOUS
<1>3. PICK ends \in [0..n -> Nat] : Ends(ls, text, ends, n)
  BY <1>1, <1>2
<1>4. text \in Seq(Character) /\ Len(text) = ends[n]
  BY <1>3 DEF Ends
<1>5. PICK m \in Nat : m = Len(p.text) /\ m > 0 /\ \A i \in 1..m : p.text[i] # LineEnd
  BY DEF SearchPattern
<1>6. q \in Nat /\ q + m =< ends[n] /\ \A i \in 1..m : text[q + i] = p.text[i]
  <2>1. MatchAt(text, p, q)
    BY <1>2, <1>4, MatchIs
  <2> QED BY <1>4, <1>5, <2>1 DEF MatchAt
<1>7. PICK c : c = EndsBefore(text, q)
  OBVIOUS
<1>8. c \in 0..n /\ ends[c] =< q /\ (c < n => q < ends[c + 1])
  <2>1. q =< Len(text)
    <3>1. ends[n] \in Nat /\ q + m =< ends[n]
      BY <1>6
    <3> QED BY <1>4, <1>5, <1>6, <3>1
  <2>2. q \in Nat
    BY <1>6
  <2>3. /\ EndsBefore(text, q) \in 0..n
        /\ ends[EndsBefore(text, q)] =< q
        /\ EndsBefore(text, q) < n
              => q < ends[EndsBefore(text, q) + 1]
    BY ONLY <1>3, <2>1, <2>2, n \in Nat, LineOfIs
  <2> QED BY ONLY <1>7, <2>3
<1>9. c # n
  <2>1. ends[n] \in Nat /\ q + m =< ends[n] /\ q \in Nat /\ m > 0
    BY <1>5, <1>6
  <2>2. ~(ends[n] =< q)
    BY ONLY <2>1, m \in Nat
  <2> QED BY <1>8, <2>2
<1>10. PICK k \in 1..n : k = c + 1 /\ k - 1 = c /\ k \in 0..n
  BY <1>8, <1>9
<1>11. PICK a \in Nat, b \in Nat, l \in Nat : a = ends[k - 1] /\ b = ends[k] /\ l = Len(ls[k].text)
  BY <1>3, <1>8, <1>10 DEF Ends
<1>12. /\ b = a + l + 1 /\ text[b] = LineEnd
       /\ \A j \in 1..l : text[a + j] = ls[k].text[j]
  BY <1>3, <1>11 DEF Ends
<1>13. a =< q /\ q < b
  BY <1>8, <1>9, <1>10, <1>11
<1>14. q + m =< a + l
  <2>1. SUFFICES ASSUME ~(q + m =< a + l) PROVE FALSE
    OBVIOUS
  <2>2. PICK i \in 1..m : q + i = b
    <3>1. b - q \in 1..m /\ q + (b - q) = b
      <4>1. b = a + l + 1
        BY <1>12
      <4>2. q \in Nat
        BY <1>6
      <4> QED BY ONLY <2>1, <4>1, <4>2, <1>13, a \in Nat, b \in Nat, l \in Nat, m \in Nat
    <3> QED BY <3>1
  <2> QED BY <1>5, <1>6, <1>12, <2>2
<1>15. PICK r \in Nat : r = q - a /\ a + r = q /\ r + m =< l
  <2>0. q \in Nat
    BY <1>6
  <2>1. q - a \in Nat /\ a + (q - a) = q /\ (q - a) + m =< l
    BY ONLY <1>13, <1>14, <2>0, a \in Nat, l \in Nat, m \in Nat
  <2> QED BY <2>1
<1>16. ASSUME NEW i \in 1..m PROVE ls[k].text[r + i] = p.text[i]
  <2>1. r + i \in 1..l /\ a + (r + i) = q + i
    BY ONLY <1>15, r \in Nat, i \in 1..m, l \in Nat, m \in Nat, a \in Nat
  <2> QED BY <1>6, <1>12, <2>1
<1>17. ls[k].text \in Seq(Character)
  <2>1. k \in 1..Len(ls)
    BY <1>1
  <2>2. ls[k].text \in Seq(Glyph)
    BY <2>1 DEF Page
  <2>3. Glyph \subseteq Character
    BY DEF Character
  <2> QED BY ONLY <2>2, <2>3
<1>18. r \in MatchesIn(ls[k].text, p)
  <2>1. MatchAt(ls[k].text, p, r)
    BY <1>5, <1>11, <1>15, <1>16 DEF MatchAt
  <2> QED BY <1>17, <2>1, MatchIs
<1>19. k = LineAt(FlatText(ls), q)
  BY <1>2, <1>7, <1>8, <1>10 DEF LineAt
<1> QED BY <1>18, <1>19

\* What is on show is such a page, with a first line for every section and a line at firstAddress.
LEMMA ViewIsPage ==
  ASSUME ViewOK
  PROVE  /\ Page(lines) /\ Text = FlatText(lines)
         /\ \A s \in Sections : \E k \in DOMAIN lines : lines[k].section = s
         /\ \E k \in DOMAIN lines : lines[k].address = FirstAddress
<1>1. PICK n, old : n = Len(old) /\ old = Layout[FALSE]
  OBVIOUS
<1>2. old \in Seq(AnyLine) /\ n \in Nat /\ Closed(old) /\ showCode \in BOOLEAN
  <2>1. PICK no \in BOOLEAN : no = FALSE
    OBVIOUS
  <2>2. Alike(Layout[FALSE], Layout[TRUE]) /\ Closed(Layout[no])
    BY LayoutIs
  <2>3. old \in Seq(AnyLine) /\ Closed(old)
    BY <1>1, <2>1, <2>2 DEF Alike
  <2>4. n \in Nat
    <3>1. \A s \in Seq(AnyLine) : Len(s) \in Nat
      OBVIOUS
    <3> QED BY <1>1, <2>3, <3>1
  <2> QED BY <2>3, <2>4 DEF ViewOK
<1>3. lines = [k \in 1..n |-> lines[k]] /\ \A k \in 1..n : LineIs(lines[k], k, showCode)
  BY <1>1 DEF ViewOK
\* The instructions of the layout without machine code.
<1>0. ASSUME NEW i \in DOMAIN Code
      PROVE  /\ Instruction(i, FALSE).text = ShownText(i, FALSE) /\ Instruction(i, FALSE).address = CodeAt[i]
             /\ Instruction(i, FALSE).section = NoSection /\ ShownText(i, FALSE) # <<>>
  <2>1. PICK no \in BOOLEAN : no = FALSE
    OBVIOUS
  <2>2. Instruction(i, no) = [text |-> ShownText(i, no), address |-> CodeAt[i], bytes |-> Code[i],
                              inText |-> no, section |-> NoSection]
    BY InstructionIs
  <2>3. PICK t : t = ShownText(i, no) /\ t \in Seq(Glyph) /\ Len(t) >= 1
    BY ShownTextIs
  <2>4. t # <<>>
    BY ONLY <2>3
  <2>5. Instruction(i, no).text = t /\ Instruction(i, no).address = CodeAt[i] /\ Instruction(i, no).section = NoSection
    BY <2>2, <2>3
  <2> QED BY <2>1, <2>3, <2>4, <2>5
<1>4. lines \in Seq({lines[k] : k \in 1..n}) /\ Len(lines) = n
  <2>1. lines \in [1..n -> {lines[k] : k \in 1..n}]
    BY <1>3
  <2>2. PICK S, ls : S = {lines[k] : k \in 1..n} /\ ls = lines
    OBVIOUS
  <2>3. ls \in [1..n -> S]
    BY <2>1, <2>2
  <2>4. ls \in Seq(S) /\ Len(ls) = n
    BY ONLY <2>3, <1>2
  <2> QED BY <2>2, <2>4
<1>5. ASSUME NEW k \in 1..n
      PROVE  /\ lines[k].text \in Seq(Glyph)
             /\ old[k].text = <<>> => lines[k] = old[k]
             /\ lines[k].section = old[k].section /\ lines[k].address = old[k].address
  <2>1. CASE Fixed(lines[k]) /\ lines[k] = old[k]
    BY <2>1 DEF Fixed, AnyLine
  <2>2. CASE \E i \in DOMAIN Code : old[k] = Instruction(i, FALSE) /\ ShownAs(lines[k], i, showCode)
    <3>1. PICK i \in DOMAIN Code : old[k] = Instruction(i, FALSE) /\ ShownAs(lines[k], i, showCode)
      BY <2>2
    <3>2. old[k].text # <<>> /\ old[k].address = CodeAt[i] /\ old[k].section = NoSection
      BY <1>0, <3>1
    <3> QED BY <3>1, <3>2 DEF ShownAs
  <2>3. LineIs(lines[k], k, showCode)
    BY <1>3
  <2> QED BY <1>1, <2>1, <2>2, <2>3 DEF LineIs
<1>6. \A s \in Sections : \E k \in 1..n : lines[k].section = s
  <2>1. ASSUME NEW s \in Sections PROVE \E k \in 1..n : lines[k].section = s
    <3>1. InSeq(Title(s), old)
      BY <1>1, LayoutIs
    <3>2. PICK k \in 1..n : old[k] = Title(s)
      BY <1>1, <3>1 DEF InSeq
    <3>3. Title(s).section = s
      BY DEF Title, Block
    <3> QED BY <1>5, <3>2, <3>3
  <2> QED BY <2>1
<1>7. \E k \in 1..n : lines[k].address = FirstAddress
  <2>0. PICK i \in DOMAIN Code : CodeAt[i] = FirstAddress /\ i \in 1..Len(Code)
    BY FirstIs
  <2>1. InSeq(Instruction(i, FALSE), old)
    <3>1. PICK no \in BOOLEAN : no = FALSE
      OBVIOUS
    <3>2. InSeq(Instruction(i, no), Layout[no])
      BY <2>0, LayoutIs
    <3> QED BY <1>1, <3>1, <3>2
  <2>2. PICK k \in 1..n : old[k] = Instruction(i, FALSE)
    BY <1>1, <2>1 DEF InSeq
  <2>4. Instruction(i, FALSE).address = FirstAddress
    BY <1>0, <2>0
  <2> QED BY <1>5, <2>2, <2>4
<1>8. n > 1
  <2>1. InSeq(Title(1), old) /\ Title(1).text = <<"=">>
    <3>1. PICK no \in BOOLEAN : no = FALSE
      OBVIOUS
    <3>2. InSeq(Title(1), Layout[no])
      BY LayoutIs DEF Sections
    <3>3. Title(1).text = <<"=">>
      BY DEF Title, Block
    <3> QED BY <1>1, <3>1, <3>2, <3>3
  <2>2. PICK k \in 1..n : old[k].text = <<"=">>
    BY <1>1, <2>1 DEF InSeq
  <2>3. old[n].text = <<>> /\ n > 0
    BY <1>1, <1>2 DEF Closed
  <2>4. <<"=">> # <<>>
    OBVIOUS
  <2>5. k # n
    BY <2>2, <2>3, <2>4
  <2> QED BY <1>2, <2>3, <2>5
<1>9. lines[n].text = <<>>
  <2>1. n \in 1..n /\ old[n].text = <<>>
    <3>1. n \in 1..n
      BY ONLY <1>2, <1>8
    <3> QED BY <1>1, <1>2, <3>1 DEF Closed
  <2> QED BY <1>5, <2>1
<1>10. DOMAIN lines = 1..n
  BY <1>3
<1>11. Page(lines)
  BY <1>2, <1>4, <1>5, <1>8, <1>9, <1>10 DEF Page
<1>12. Text = FlatText(lines)
  BY DEF Text, FlatText
<1> QED BY <1>6, <1>7, <1>10, <1>11, <1>12

-----------------------------------------------------------------------------
(***************************************************************************)
(* The document and the tags in every state                                *)
(***************************************************************************)

\* What a step may do to the document.
LEMMA ViewSteps ==
  ASSUME [Next]_vars
  PROVE  UNCHANGED <<lines, showCode>> \/ Setup \/ ToggleMachineCode
<1>1. CASE OpenDialog \/ EditInput \/ TimerFires \/ ToggleSearchText \/ Activate \/ CloseDialog
  BY <1>1 DEF OpenDialog, EditInput, TimerFires, ToggleSearchText, Activate, CloseDialog, viewVars
<1>2. CASE ActivateItem \/ MoveCursor
  BY <1>2 DEF ActivateItem, MoveCursor
<1>3. CASE EditTags
  BY <1>3 DEF EditTags, viewVars
<1>4. CASE ShowMachineCode
  BY <1>4 DEF ShowMachineCode
<1>5. CASE ReloadUi \/ Reopen
  BY <1>5 DEF ReloadUi, Reopen
<1>6. CASE UNCHANGED vars
  BY <1>6 DEF vars, viewVars
<1> QED BY <1>1, <1>2, <1>3, <1>4, <1>5, <1>6 DEF Next

\* What a step may do to the tags.
LEMMA TagSteps ==
  ASSUME [Next]_vars
  PROVE  \/ UNCHANGED tagVars
         \/ (\E a : a # NoAddress /\ SetAddress(a)) /\ UNCHANGED <<tags, tagList>>
         \/ TagStep
         \/ TagsBecome(tags) /\ SetAddress(FirstAddress)
         \/ TagsReopen(FirstAddress)
<1>1. CASE OpenDialog \/ EditInput \/ TimerFires \/ ToggleSearchText \/ Activate \/ CloseDialog
  BY <1>1 DEF OpenDialog, EditInput, TimerFires, ToggleSearchText, Activate, CloseDialog
<1>2. CASE ActivateItem \/ MoveCursor
  <2>1. TagsFollow /\ UNCHANGED <<tags, tagList>>
    BY <1>2 DEF ActivateItem, MoveCursor
  <2>2. (\E a : a # NoAddress /\ SetAddress(a)) \/ UNCHANGED <<here, rows>>
    BY <2>1 DEF TagsFollow
  <2> QED BY <2>1, <2>2 DEF tagVars
<1>3. CASE EditTags
  BY <1>3 DEF EditTags
<1>4. CASE ShowMachineCode
  BY <1>4 DEF ShowMachineCode
<1>5. CASE ReloadUi
  BY <1>5 DEF ReloadUi
<1>6. CASE Reopen
  BY <1>6 DEF Reopen
<1>7. CASE UNCHANGED vars
  BY <1>7 DEF vars
<1> QED BY <1>1, <1>2, <1>3, <1>4, <1>5, <1>6, <1>7 DEF Next

\* In every state the document has the lines of setup, however often machine code was
\* shown and hidden, project and binary reloaded: the lines in order, each with the
\* address and bytes of its place and the text of the setting.
THEOREM ViewInvariant == Spec => []ViewOK
<1>1. Init => ViewOK
  BY ViewStarts DEF Init
<1>2. ViewOK /\ [Next]_vars => ViewOK'
  <2>1. ViewOK /\ UNCHANGED <<lines, showCode>> => ViewOK'
    BY DEF ViewOK
  <2> QED BY <2>1, ViewSteps, SetupKeeps, ToggleKeeps
<1> QED BY <1>1, <1>2, PTL DEF Spec

\* BinaryWidget::onShowMachineCodeChanged edits the document line by line; for every
\* binary and every width of the column, this leaves what setup would build.
THEOREM ToggleRebuilds == Spec => []ToggleIsRebuild
BY ViewInvariant, ViewOKRebuild, PTL

\* The list of all tags and the tags of the address shown are those of the project,
\* after every edit, cursor move, reload and opening.
THEOREM TagsShown == Spec => []TagsAreOnShow
<1>1. Init => TagsAreOnShow
  BY DEF Init, TagsInit, TagsAreOnShow, NoTags, Listed, TagsAt
<1>2. TagsAreOnShow /\ [Next]_vars => TagsAreOnShow'
  <2>1. SUFFICES ASSUME TagsAreOnShow, [Next]_vars PROVE TagsAreOnShow'
    OBVIOUS
  <2>2. CASE UNCHANGED tagVars
    BY <2>1, <2>2 DEF tagVars, TagsAreOnShow
  <2>3. CASE (\E a : a # NoAddress /\ SetAddress(a)) /\ UNCHANGED <<tags, tagList>>
    BY <2>1, <2>3 DEF TagsAreOnShow, SetAddress
  <2>4. CASE AddTag
    <3>1. tagList' = Listed(tags') /\ rows' = TagsAt(tags', here) /\ here' = here
      BY <2>4 DEF AddTag, TagsBecome
    <3> QED BY <3>1 DEF TagsAreOnShow
  <2>5. CASE RemoveTag
    <3>1. tagList' = Listed(tags') /\ here' = here
      BY <2>5 DEF RemoveTag, TagsBecome
    <3>2. rows' = TagsAt(tags', here) \/ \E k \in DOMAIN TagsAt(tags', here) : rows' = RemoveAt(TagsAt(tags', here), k)
      BY <2>5 DEF RemoveTag
    <3> QED BY <3>1, <3>2 DEF TagsAreOnShow
  <2>6. CASE RemoveSelectedTags
    <3>1. tagList' = Listed(tags') /\ rows' = TagsAt(tags', here) /\ here' = here
      BY <2>6 DEF RemoveSelectedTags, TagsBecome
    <3> QED BY <3>1 DEF TagsAreOnShow
  <2>7. CASE TagsBecome(tags) /\ SetAddress(FirstAddress)
    <3>1. tagList' = Listed(tags') /\ rows' = TagsAt(tags', here')
      BY <2>7 DEF TagsBecome, SetAddress
    <3> QED BY <3>1 DEF TagsAreOnShow
  <2>8. CASE TagsReopen(FirstAddress)
    <3>1. tagList' = Listed(tags') /\ rows' = TagsAt(tags', here')
      BY <2>8 DEF TagsReopen, TagsBecome
    <3> QED BY <3>1 DEF TagsAreOnShow
  <2> QED BY <2>1, <2>2, <2>3, <2>4, <2>5, <2>6, <2>7, <2>8, TagSteps DEF TagStep
<1> QED BY <1>1, <1>2, PTL DEF Spec

\* Every tag of the project is at one address, once.
THEOREM TagsInvariant == Spec => []Tidy(tags)
<1>1. Init => Tidy(tags)
  <2>1. IsFiniteSet({})
    BY FS_EmptySet
  <2> QED BY <2>1 DEF Init, TagsInit, NoTags, Tidy, TagTable, UsedOnce
<1>2. Tidy(tags) /\ [Next]_vars => Tidy(tags)'
  <2>1. SUFFICES ASSUME Tidy(tags), [Next]_vars PROVE Tidy(tags')
    OBVIOUS
  <2>2. CASE UNCHANGED tags
    BY <2>1, <2>2
  <2>3. CASE AddTag
    <3>1. PICK tag \in Tag : tags' = Added(tags, tag, here)
      BY <2>3 DEF AddTag, TagsBecome
    <3> QED BY <2>1, <3>1, AddedIs
  <2>4. CASE RemoveTag \/ RemoveSelectedTags
    <3>1. PICK gone : tags' = Without(tags, gone)
      BY <2>4 DEF RemoveTag, RemoveSelectedTags, TagsBecome
    <3> QED BY <2>1, <3>1, WithoutIs
  <2>5. CASE TagsReopen(FirstAddress)
    <3>1. tags' = Reread(tags)
      BY <2>5 DEF TagsReopen, TagsBecome
    <3> QED BY <2>1, <3>1, ReadBack
  <2>6. UNCHANGED tags \/ TagStep \/ TagsReopen(FirstAddress)
    BY <2>1, TagSteps DEF tagVars, TagsBecome
  <2> QED BY <2>2, <2>3, <2>4, <2>5, <2>6 DEF TagStep
<1> QED BY <1>1, <1>2, PTL DEF Spec

\* A project that can be read back has the tags it was saved with, for all tables of
\* tags that Project::addAddressTag and removeAddressTags can bring about.
THEOREM TagsAreReadBack == Spec => []TagsReadBack
<1>1. Tidy(tags) => TagsReadBack
  <2>1. SUFFICES ASSUME Tidy(tags) PROVE TagsReadBack
    OBVIOUS
  <2>2. ASSUME NEW a \in DOMAIN tags, NEW b \in DOMAIN tags, a # b
        PROVE  Range(tags[a]) \intersect Range(tags[b]) = {}
    BY <2>1, <2>2 DEF Tidy, UsedOnce, Range
  <2>3. \A a : TagsAt(Reread(tags), a) = TagsAt(tags, a)
    BY <2>1, ReadBack
  <2> QED BY <2>2, <2>3 DEF TagsReadBack
<1> QED BY <1>1, TagsInvariant, PTL

-----------------------------------------------------------------------------
(***************************************************************************)
(* The search                                                              *)
(***************************************************************************)

\* An input is a pattern to look for in the text, with the sections it stands for.
LEMMA PatternIs ==
  ASSUME NEW p \in Pattern
  PROVE  SearchPattern(p) /\ p.sections \subseteq Sections
<1>1. p.text \in Seq(STRING) /\ p.text # <<>> /\ LineEnd \notin Range(p.text) /\ p.sections \subseteq Sections
  BY SearchAssumption
<1>2. PICK t : t = p.text
  OBVIOUS
<1>3. t \in Seq(STRING) /\ t # <<>>
  BY <1>1, <1>2
<1>4. t = [i \in 1..Len(t) |-> t[i]] /\ Len(t) \in Nat /\ Len(t) > 0 /\ DOMAIN t = 1..Len(t)
  BY ONLY <1>3
<1>5. \A i \in 1..Len(t) : t[i] # LineEnd
  BY <1>1, <1>2, <1>4 DEF Range
<1> QED BY <1>1, <1>2, <1>4, <1>5 DEF SearchPattern

\* The input.
InputOK == input \in Pattern \union {NoPattern}

\* The input of the dialog is a pattern or none.
THEOREM InputInvariant == Spec => []InputOK
<1>1. Init => InputOK
  BY DEF Init, InputOK
<1>2. InputOK /\ [Next]_vars => InputOK'
  BY DEF InputOK, Next, vars, dialogVars, OpenDialog, EditInput, TimerFires, ToggleSearchText, Activate, CloseDialog,
         ActivateItem, MoveCursor, EditTags, ShowMachineCode, ReloadUi, Reopen, DialogStays
<1> QED BY <1>1, <1>2, PTL DEF Spec

\* The search of the document on show finds each match in it once.
LEMMA SearchFinds ==
  ASSUME ViewOK, InputOK, input # NoPattern, NEW n \in Threads
  PROVE  /\ {m.key : m \in TextMatches(Text, input, n)} = MatchesIn(Text, input)
         /\ Cardinality(TextMatches(Text, input, n)) = Cardinality(MatchesIn(Text, input))
<1>1. SearchPattern(input)
  BY PatternIs DEF InputOK
<1>2. Document(Text)
  BY ViewIsPage, PageDocument
<1>3. n \in Nat \ {0}
  BY SearchAssumption
<1> QED BY <1>1, <1>2, <1>3, MatchesFoundOnce

\* For every document and pattern, and any number of threads, the search of the text
\* finds each match once and at its place in the whole text, chunk borders included.
THEOREM EachMatchFoundOnce == Spec => []FindsEachMatchOnce
<1>1. ViewOK /\ InputOK => FindsEachMatchOnce
  BY SearchFinds DEF FindsEachMatchOnce
<1> QED BY <1>1, ViewInvariant, InputInvariant, PTL

-----------------------------------------------------------------------------
(***************************************************************************)
(* The dialog                                                              *)
(***************************************************************************)

\* The addresses of tags.
AddressOK == here # NoAddress /\ NoAddress \notin DOMAIN tags

\* The address of TagsEdit is one, and only addresses have tags.
THEOREM AddressInvariant == Spec => []AddressOK
<1>1. FirstAddress # NoAddress
  BY FirstIs DEF NoAddress
<1>2. Init => AddressOK
  BY <1>1 DEF Init, TagsInit, NoTags, AddressOK
<1>3. Tidy(tags) /\ AddressOK /\ [Next]_vars => AddressOK'
  <2>1. SUFFICES ASSUME Tidy(tags), AddressOK, [Next]_vars PROVE AddressOK'
    OBVIOUS
  <2>2. CASE UNCHANGED tagVars
    BY <2>1, <2>2 DEF tagVars, AddressOK
  <2>3. CASE (\E a : a # NoAddress /\ SetAddress(a)) /\ UNCHANGED <<tags, tagList>>
    BY <2>1, <2>3 DEF AddressOK, SetAddress
  <2>4. CASE AddTag
    <3>1. PICK tag \in Tag : tags' = Added(tags, tag, here) /\ here' = here
      BY <2>4 DEF AddTag, TagsBecome
    <3>2. DOMAIN Added(tags, tag, here) \subseteq DOMAIN tags \union {here}
      BY DEF Added
    <3> QED BY <2>1, <3>1, <3>2 DEF AddressOK
  <2>5. CASE RemoveTag \/ RemoveSelectedTags
    <3>1. PICK gone : tags' = Without(tags, gone)
      BY <2>5 DEF RemoveTag, RemoveSelectedTags, TagsBecome
    <3>2. here' = here
      BY <2>5 DEF RemoveTag, RemoveSelectedTags
    <3> QED BY <2>1, <3>1, <3>2, WithoutIs DEF AddressOK
  <2>6. CASE TagsBecome(tags) /\ SetAddress(FirstAddress)
    BY <1>1, <2>1, <2>6 DEF TagsBecome, SetAddress, AddressOK
  <2>7. CASE TagsReopen(FirstAddress)
    <3>1. tags' = Reread(tags) /\ here' = FirstAddress
      BY <2>7 DEF TagsReopen, TagsBecome
    <3>2. DOMAIN Reread(tags) \subseteq DOMAIN tags
      BY <2>1, RereadIs
    <3> QED BY <1>1, <2>1, <3>1, <3>2 DEF AddressOK
  <2> QED BY <2>1, <2>2, <2>3, <2>4, <2>5, <2>6, <2>7, TagSteps DEF TagStep
<1> QED BY <1>2, <1>3, TagsInvariant, PTL DEF Spec

\* What the dialog knows of a candidate.
ItemOK(c) ==
  /\ DOMAIN c = {"type", "key", "live"}
  /\ c.type = "section" => c.key \in Sections
  /\ c.type = "text" => c.key \in Nat
  /\ c.type \in {"tag", "row"} => c.key # NoAddress

\* A candidate leads to what was found with the input.
Right(c, ts, text, p) ==
  /\ p \in Pattern /\ c.live
  /\ c.type = "text" => c.key \in MatchesIn(text, p)
  /\ c.type = "tag" => \E t \in p.tags : Contains(TagsAt(ts, c.key), t)

\* The dialog: its candidates, and an item activated and not yet selected.
DialogOK ==
  /\ visible \in BOOLEAN /\ timer \in BOOLEAN /\ searched \in BOOLEAN
  /\ searched => visible
  /\ activation # NoActivation =>
       /\ ~visible
       /\ DOMAIN activation = {"item", "live", "sure"} /\ ItemOK(activation.item)
  /\ \A c \in candidates : ItemOK(c)
  /\ searched /\ ~timer => \A c \in candidates : Right(c, tags, Text, input)
  /\ activation # NoActivation /\ activation.sure =>
       ~timer /\ activation.live /\ Right(activation.item, tags, Text, input)

\* What TagsEdit shows belongs to the line of the cursor.
CursorOK ==
  cursor \in DOMAIN lines /\ (lines[cursor].address = NoAddress \/ here = lines[cursor].address)

\* The last of some lines is one of them.
LEMMA LastLine ==
  ASSUME NEW n \in Nat, NEW K, K \subseteq 1..n, K # {}
  PROVE  Max(K) \in K
<1>1. PICK m \in K : \A i \in K : i =< m
  BY GreatestIndex
<1>2. \A i \in K : m >= i
  <2>1. \A i \in K : i \in Int
    OBVIOUS
  <2> QED BY <1>1, <2>1
<1> QED BY <1>2 DEF Max

\* What the search of the tree, the tags and the text finds is right for the input.
LEMMA FoundIs ==
  ASSUME ViewOK, InputOK, TagsAreOnShow, Tidy(tags), AddressOK, input # NoPattern, NEW n \in Threads,
         NEW c \in Found(input, n)
  PROVE  ItemOK(c) /\ Right(c, tags, Text, input)
<1>1. input \in Pattern
  BY DEF InputOK
<1>2. PICK rowsOf, sectionsOf, tagsOf : rowsOf = input.rows /\ sectionsOf = input.sections /\ tagsOf = input.tags
  OBVIOUS
<1>3. rowsOf \subseteq Rows /\ sectionsOf \subseteq Sections
  BY <1>1, <1>2, SearchAssumption
<1>4. CASE c \in Item("tag", {item.address : item \in {i \in tagList : i.tag \in input.tags}})
  <2>1. PICK k : c = [type |-> "tag", key |-> k, live |-> TRUE]
                 /\ k \in {item.address : item \in {i \in tagList : i.tag \in input.tags}}
    BY <1>4 DEF Item
  <2>2. PICK i \in Listed(tags) : i.address = k /\ i.tag \in tagsOf
    BY <1>2, <2>1 DEF TagsAreOnShow
  <2>3. PICK a \in DOMAIN tags : \E j \in DOMAIN tags[a] : i = [tag |-> tags[a][j], address |-> a]
    BY <2>2 DEF Listed
  <2>4. PICK j \in DOMAIN tags[a] : i = [tag |-> tags[a][j], address |-> a]
    BY <2>3
  <2>5. a = k /\ tags[a][j] \in tagsOf
    BY <2>2, <2>4
  <2>6. Contains(TagsAt(tags, a), tags[a][j])
    <3>1. DOMAIN tags[a] = 1..Len(tags[a])
      BY <2>3, ListType DEF Tidy
    <3> QED BY <2>3, <2>4, <3>1 DEF Contains, TagsAt
  <2>7. a # NoAddress
    BY <2>3 DEF AddressOK
  <2> QED BY <1>1, <1>2, <2>1, <2>5, <2>6, <2>7 DEF ItemOK, Right
<1>5. CASE c \in Item("row", input.rows)
  <2>1. PICK k \in Rows : c = [type |-> "row", key |-> k, live |-> TRUE]
    BY <1>2, <1>3, <1>5 DEF Item
  <2>2. k # NoAddress
    <3>1. NoAddress \notin Nat
      BY DEF NoAddress
    <3>2. CASE k \in Symbols
      BY <3>1, <3>2, ViewAssumption
    <3>3. CASE k \in {StringAddress + s.offset : s \in Range(Strings)}
      <4>1. PICK ss \in Seq(StringPlace) : ss = Strings
        BY StringsType
      <4>2. PICK i \in DOMAIN ss : k = StringAddress + ss[i].offset
        BY <3>3, <4>1 DEF Range
      <4>3. ss[i] \in StringPlace
        OBVIOUS
      <4>4. PICK o \in Nat : o = ss[i].offset
        BY <4>3 DEF StringPlace
      <4>5. StringAddress \in Nat
        BY ViewAssumption
      <4> QED BY <3>1, <4>2, <4>4, <4>5
    <3> QED BY <3>2, <3>3 DEF Rows
  <2> QED BY <1>1, <2>1, <2>2 DEF ItemOK, Right
<1>6. CASE c \in Item("section", input.sections)
  <2>1. PICK k \in Sections : c = [type |-> "section", key |-> k, live |-> TRUE]
    BY <1>2, <1>3, <1>6 DEF Item
  <2> QED BY <1>1, <2>1 DEF ItemOK, Right
<1>7. CASE c \in Item("text", {m.key : m \in TextMatches(Text, input, n)})
  <2>1. PICK k \in MatchesIn(Text, input) : c = [type |-> "text", key |-> k, live |-> TRUE]
    BY <1>7, SearchFinds DEF Item
  <2>2. k \in Nat
    <3>1. Text \in Seq(Character)
      BY ViewIsPage, PageDocument DEF Document
    <3>2. SearchPattern(input)
      BY <1>1, PatternIs
    <3>3. MatchAt(Text, input, k)
      BY <2>1, <3>1, <3>2, MatchIs
    <3> QED BY <3>3 DEF MatchAt
  <2> QED BY <1>1, <2>1, <2>2 DEF ItemOK, Right
<1> QED BY <1>4, <1>5, <1>6, <1>7 DEF Found, ListMatches

\* The text is that of the lines.
LEMMA TextStays == lines' = lines => Text' = Text
BY DEF Text

\* A search finds what is right for the input; an activation that was put off loses its item.
LEMMA SearchKeeps ==
  ASSUME ViewOK, InputOK, TagsAreOnShow, Tidy(tags), AddressOK, DialogOK,
         Search, UNCHANGED <<tags, lines, visible, input>>, timer' \in BOOLEAN,
         activation # NoActivation => ~activation.sure
  PROVE  DialogOK'
<1>1. ASSUME NEW c \in candidates' PROVE ItemOK(c) /\ Right(c, tags, Text, input)
  <2>1. input # NoPattern
    BY DEF Search
  <2>2. PICK n \in Threads : candidates' \subseteq Found(input, n)
    <3>1. PICK n \in Threads :
            candidates' \in IF Cardinality(Found(input, n)) =< Limit THEN {Found(input, n)}
                            ELSE kSubset(Limit, Found(input, n))
      BY <2>1 DEF Search
    <3>2. candidates' \in {Found(input, n)} \/ candidates' \in kSubset(Limit, Found(input, n))
      BY <3>1
    <3> QED BY <3>2 DEF kSubset
  <2> QED BY <2>1, <2>2, FoundIs
<1>2. Text' = Text
  BY TextStays
<1>3. searched' = visible /\ visible \in BOOLEAN
  BY DEF Search, DialogOK
<1>4. activation' # NoActivation =>
        /\ activation # NoActivation /\ DOMAIN activation' = {"item", "live", "sure"}
        /\ activation'.item = activation.item /\ activation'.sure = activation.sure
  <2>1. SUFFICES ASSUME activation' # NoActivation
                 PROVE  /\ activation # NoActivation /\ DOMAIN activation' = {"item", "live", "sure"}
                        /\ activation'.item = activation.item /\ activation'.sure = activation.sure
    OBVIOUS
  <2>2. activation # NoActivation /\ activation' = [activation EXCEPT !.live = FALSE]
    BY <2>1 DEF Search
  <2>3. DOMAIN activation = {"item", "live", "sure"}
    BY <2>2 DEF DialogOK
  <2> QED BY ONLY <2>2, <2>3
<1>5. activation' # NoActivation => ~visible /\ ItemOK(activation'.item) /\ ~activation'.sure
  BY <1>4 DEF DialogOK
<1> QED BY <1>1, <1>2, <1>3, <1>4, <1>5 DEF DialogOK

\* The pointers of candidates go, the rest stays.
LEMMA FreedKeeps ==
  ASSUME DialogOK, NEW types, Freed(types)
  PROVE  \A c \in candidates' : ItemOK(c)
<1>1. ASSUME NEW c \in candidates' PROVE ItemOK(c)
  <2>1. PICK d \in candidates : c = [d EXCEPT !.live = @ /\ d.type \notin types]
    BY DEF Freed
  <2>2. ItemOK(d)
    BY DEF DialogOK
  <2>3. DOMAIN c = {"type", "key", "live"} /\ c.type = d.type /\ c.key = d.key
    BY <2>1, <2>2 DEF ItemOK
  <2> QED BY <2>2, <2>3 DEF ItemOK
<1> QED BY <1>1

\* What the dialog rests on.
Base == ViewOK /\ InputOK /\ TagsAreOnShow /\ Tidy(tags) /\ AddressOK

\* Every step keeps what the dialog knows.
LEMMA DialogKeeps ==
  ASSUME Base, DialogOK, [Next]_vars
  PROVE  DialogOK'
<1> USE DEF Base
<1>1. CASE OpenDialog
  <2>1. UNCHANGED <<tags, lines, input>> /\ Text' = Text
    BY <1>1, TextStays DEF OpenDialog, tagVars, viewVars
  <2> QED BY <1>1, <2>1 DEF OpenDialog, DialogOK
<1>2. CASE EditInput
  <2>1. activation = NoActivation /\ visible
    BY <1>2 DEF EditInput, DialogOK
  <2> QED BY <1>2, <2>1 DEF EditInput, DialogOK
<1>3. CASE TimerFires
  <2>1. activation # NoActivation => ~activation.sure
    BY <1>3 DEF TimerFires, DialogOK
  <2>2. Search /\ UNCHANGED <<tags, lines, visible, input>> /\ timer' \in BOOLEAN
    BY <1>3 DEF TimerFires, tagVars, viewVars
  <2> QED BY <2>1, <2>2, SearchKeeps
<1>4. CASE ToggleSearchText
  <2>1. activation # NoActivation => ~activation.sure
    BY <1>4 DEF ToggleSearchText, DialogOK
  <2>2. Search /\ UNCHANGED <<tags, lines, visible, input>> /\ timer' \in BOOLEAN
    BY <1>4 DEF ToggleSearchText, tagVars, viewVars, DialogOK
  <2> QED BY <2>1, <2>2, SearchKeeps
<1>5. CASE Activate
  <2>1. PICK c \in candidates : activation' = [item |-> c, live |-> TRUE, sure |-> searched /\ ~timer]
    BY <1>5 DEF Activate
  <2>2. /\ DOMAIN activation' = {"item", "live", "sure"} /\ activation'.item = c
        /\ activation'.live = TRUE /\ activation'.sure = (searched /\ ~timer)
    BY <2>1
  <2>3. UNCHANGED <<tags, lines, input, timer, candidates>> /\ Text' = Text /\ visible' = FALSE /\ searched' = FALSE
    BY <1>5, TextStays DEF Activate, tagVars, viewVars
  <2>4. ItemOK(c) /\ (searched /\ ~timer => Right(c, tags, Text, input))
    BY DEF DialogOK
  <2> QED BY <2>2, <2>3, <2>4 DEF DialogOK
<1>6. CASE CloseDialog
  <2>1. UNCHANGED <<tags, lines, input, timer, candidates, activation>> /\ Text' = Text /\ visible' = FALSE /\ searched' = FALSE
    BY <1>6, TextStays DEF CloseDialog, tagVars, viewVars
  <2> QED BY <2>1 DEF DialogOK
<1>7. CASE ActivateItem
  <2>1. /\ UNCHANGED <<tags, lines, input, timer, candidates, visible, searched>> /\ Text' = Text
        /\ activation' = NoActivation
    BY <1>7, TextStays DEF ActivateItem
  <2> QED BY <2>1 DEF DialogOK
<1>8. CASE MoveCursor
  <2>1. UNCHANGED <<tags, lines, input, timer, candidates, visible, searched, activation>> /\ Text' = Text
    BY <1>8, TextStays DEF MoveCursor, dialogVars
  <2> QED BY <2>1 DEF DialogOK
<1>9. CASE EditTags
  <2>1. (\A c \in candidates' : ItemOK(c)) /\ UNCHANGED <<timer, visible, searched, activation>>
        /\ ~visible /\ activation = NoActivation
    BY <1>9, FreedKeeps DEF EditTags, DialogStays, WindowIsFree
  <2> QED BY <2>1 DEF DialogOK
<1>10. CASE ShowMachineCode
  <2>1. UNCHANGED <<timer, visible, searched, activation, candidates>> /\ ~visible /\ activation = NoActivation
    BY <1>10 DEF ShowMachineCode, dialogVars, WindowIsFree
  <2> QED BY <2>1 DEF DialogOK
<1>11. CASE ReloadUi
  <2>1. (\A c \in candidates' : ItemOK(c)) /\ UNCHANGED <<timer, visible, searched, activation>>
        /\ ~visible /\ activation = NoActivation
    BY <1>11, FreedKeeps DEF ReloadUi, DialogStays, WindowIsFree
  <2> QED BY <2>1 DEF DialogOK
<1>12. CASE Reopen
  BY <1>12 DEF Reopen, DialogOK
<1>13. CASE UNCHANGED vars
  <2>1. UNCHANGED <<tags, lines, input, timer, candidates, visible, searched, activation>> /\ Text' = Text
    BY <1>13, TextStays DEF vars, tagVars, viewVars, dialogVars
  <2> QED BY <2>1 DEF DialogOK
<1> QED BY <1>1, <1>2, <1>3, <1>4, <1>5, <1>6, <1>7, <1>8, <1>9, <1>10, <1>11, <1>12, <1>13 DEF Next

\* An address is found in the lines.
LEMMA LinesAtAre ==
  ASSUME ViewOK, NEW a
  PROVE  /\ LinesAt(a) \subseteq DOMAIN lines
         /\ LinesAt(a) # {} => BlockOf(a) \in DOMAIN lines /\ lines[BlockOf(a)].address = a
<1>1. PICK n \in Nat : DOMAIN lines = 1..n
  BY ViewIsPage DEF Page
<1>2. LinesAt(a) \subseteq 1..n
  BY <1>1 DEF LinesAt
<1>3. LinesAt(a) # {} => Max(LinesAt(a)) \in LinesAt(a)
  BY <1>2, LastLine
<1> QED BY <1>2, <1>3 DEF LinesAt, BlockOf

\* The cursor comes to a line that there is.
LEMMA CursorInText ==
  ASSUME ViewOK, DialogOK, CursorOK, ActivateItem
  PROVE  cursor' \in DOMAIN lines
<1>1. PICK n \in Nat : n = Len(lines) /\ n > 1 /\ DOMAIN lines = 1..n
  BY ViewIsPage DEF Page
<1>2. PICK c : c = activation.item /\ ItemOK(c)
  BY DEF ActivateItem, DialogOK
<1>3. CASE cursor' \in Anywhere
  <2>1. 1 \in DOMAIN lines
    BY <1>1
  <2> QED BY <1>3, <2>1, LinesAtAre DEF Anywhere
<1>4. CASE c.type = "section" /\ SelectSection(c.key)
  <2>1. \E k \in DOMAIN lines : lines[k].section = c.key
    BY <1>2, <1>4, ViewIsPage DEF ItemOK
  <2> QED BY <1>4, <2>1 DEF SelectSection
<1>5. CASE c.type = "text" /\ SelectPosition(c.key)
  <2>1. PICK q \in Nat : q = c.key
    BY <1>2, <1>5 DEF ItemOK
  <2>2. CASE q > Len(Text)
    BY <1>5, <2>1, <2>2 DEF SelectPosition, CursorOK
  <2>3. CASE ~(q > Len(Text))
    <3>1. cursor' = LineOf(q)
      BY <1>5, <2>1, <2>3 DEF SelectPosition
    <3>2. Page(lines) /\ Text = FlatText(lines)
      BY ViewIsPage
    <3>3. LineOf(q) = LineAt(FlatText(lines), q)
      BY <3>2 DEF LineOf, LineAt, EndsBefore
    <3>4. q =< Len(FlatText(lines))
      <4>1. PICK text \in Seq(Character) : text = FlatText(lines)
        BY <3>2, PageDocument DEF Document
      <4>2. PICK m \in Nat : m = Len(text)
        OBVIOUS
      <4> QED BY <2>3, <3>2, <4>1, <4>2
    <3>5. LineAt(FlatText(lines), q) \in 1..n
      BY <1>1, <3>2, <3>4, LineAtIs
    <3> QED BY <1>1, <3>1, <3>3, <3>5
  <2> QED BY <2>2, <2>3
<1>6. CASE SelectAddress(c.key)
  BY <1>6, LinesAtAre DEF SelectAddress, CursorOK
<1>7. \/ cursor' \in Anywhere
      \/ c.type = "section" /\ SelectSection(c.key)
      \/ c.type = "text" /\ SelectPosition(c.key)
      \/ SelectAddress(c.key)
  BY <1>2 DEF ActivateItem
<1> QED BY <1>3, <1>4, <1>5, <1>6, <1>7

\* TagsEdit follows the cursor to its line.
LEMMA FollowKeeps ==
  ASSUME CursorOK, cursor' \in DOMAIN lines, TagsFollow, lines' = lines
  PROVE  CursorOK'
<1>1. PICK a : a = lines[cursor'].address
  OBVIOUS
<1>2. CASE a # NoAddress /\ SetAddress(a)
  BY <1>1, <1>2 DEF SetAddress, CursorOK
<1>3. CASE a = NoAddress
  BY <1>1, <1>3 DEF CursorOK
<1>4. CASE cursor' = cursor /\ here' = here
  BY <1>4 DEF CursorOK
<1> QED BY <1>1, <1>2, <1>3, <1>4 DEF TagsFollow

\* Whatever is done, a line keeps its address.
LEMMA LineAddress ==
  ASSUME NEW l, NEW k, NEW show, LineIs(l, k, show)
  PROVE  l.address = Layout[FALSE][k].address
<1>1. CASE l = Layout[FALSE][k]
  BY <1>1
<1>2. CASE \E i \in DOMAIN Code : Layout[FALSE][k] = Instruction(i, FALSE) /\ ShownAs(l, i, show)
  BY <1>2 DEF ShownAs, Instruction, Block
<1> QED BY <1>1, <1>2 DEF LineIs

\* The lines on show, with one at firstAddress among them.
PageOK == Page(lines) /\ \E k \in DOMAIN lines : lines[k].address = FirstAddress

\* A setup leaves the cursor at firstAddress.
LEMMA SetupCursor ==
  ASSUME PageOK', Setup
  PROVE  cursor' \in DOMAIN lines' /\ lines'[cursor'].address = FirstAddress
<1>1. Page(lines') /\ \E k \in DOMAIN lines' : lines'[k].address = FirstAddress
  BY DEF PageOK
<1>2. PICK ls : ls = lines'
  OBVIOUS
<1>3. PICK n \in Nat : DOMAIN ls = 1..n
  BY <1>1, <1>2 DEF Page
<1>4. PICK K : K = {k \in DOMAIN ls : ls[k].address = FirstAddress}
  OBVIOUS
<1>5. K \subseteq 1..n /\ K # {}
  BY <1>1, <1>2, <1>3, <1>4
<1>6. Max(K) \in K
  BY <1>5, LastLine
<1>7. cursor' = Max(K)
  BY <1>2, <1>4 DEF Setup
<1> QED BY <1>2, <1>4, <1>6, <1>7

\* Every step keeps the cursor at a line, and TagsEdit with it.
LEMMA CursorKeeps ==
  ASSUME Base, ViewOK', PageOK', DialogOK, CursorOK, [Next]_vars
  PROVE  CursorOK'
<1>0. ViewOK
  BY DEF Base
<1>1. CASE UNCHANGED <<lines, cursor, here>>
  BY <1>1 DEF CursorOK
<1>2. CASE OpenDialog \/ EditInput \/ TimerFires \/ ToggleSearchText \/ Activate \/ CloseDialog \/ UNCHANGED vars
  BY <1>1, <1>2 DEF OpenDialog, EditInput, TimerFires, ToggleSearchText, Activate, CloseDialog, vars, tagVars, viewVars
<1>3. CASE ActivateItem
  <2>1. cursor' \in DOMAIN lines
    BY <1>0, <1>3, CursorInText
  <2>2. TagsFollow /\ lines' = lines
    BY <1>3 DEF ActivateItem
  <2> QED BY <2>1, <2>2, FollowKeeps
<1>4. CASE MoveCursor
  <2>1. cursor' \in Anywhere /\ TagsFollow /\ lines' = lines
    BY <1>4 DEF MoveCursor
  <2>2. 1 \in DOMAIN lines
    BY <1>0, ViewIsPage DEF Page
  <2>3. cursor' \in DOMAIN lines
    BY <1>0, <2>1, <2>2, LinesAtAre DEF Anywhere
  <2> QED BY <2>1, <2>3, FollowKeeps
<1>5. CASE EditTags
  <2>1. here' = here /\ UNCHANGED viewVars
    BY <1>5 DEF EditTags, TagStep, AddTag, RemoveTag, RemoveSelectedTags
  <2> QED BY <1>1, <2>1 DEF viewVars
<1>6. CASE ShowMachineCode
  <2>1. ToggleMachineCode /\ here' = here /\ cursor' = cursor
    BY <1>6 DEF ShowMachineCode, ToggleMachineCode, tagVars
  <2>2. DOMAIN lines' = DOMAIN lines
    BY <2>1 DEF ToggleMachineCode
  <2>3. cursor \in 1..Len(Layout[FALSE])
    BY <1>0 DEF CursorOK, ViewOK
  <2>4. lines[cursor].address = Layout[FALSE][cursor].address
    BY <1>0, <2>3, LineAddress DEF ViewOK
  <2>5. lines'[cursor].address = Layout[FALSE][cursor].address
    BY <2>3, LineAddress DEF ViewOK
  <2> QED BY <2>1, <2>2, <2>4, <2>5 DEF CursorOK
<1>7. CASE ReloadUi \/ Reopen
  <2>1. Setup /\ here' = FirstAddress
    BY <1>7 DEF ReloadUi, Reopen, SetAddress, TagsReopen
  <2> QED BY <2>1, SetupCursor DEF CursorOK
<1> QED BY <1>2, <1>3, <1>4, <1>5, <1>6, <1>7 DEF Next

\* In every state the candidates that are on show were found with the input on show,
\* none points to a freed item or to tags that are gone, one that was activated stays
\* so until it is selected, and the tags on show are those of the line of the cursor.
THEOREM DialogInvariant == Spec => [](Base /\ DialogOK /\ CursorOK)
<1>1. Init => DialogOK
  BY DEF Init, DialogOK
<1>2. Init => CursorOK
  <2>1. SUFFICES ASSUME Init PROVE CursorOK
    OBVIOUS
  <2>2. ViewOK
    BY <2>1, ViewStarts DEF Init
  <2>3. LinesAt(FirstAddress) # {}
    BY <2>2, ViewIsPage DEF LinesAt
  <2>4. cursor = BlockOf(FirstAddress) /\ here = FirstAddress
    BY <2>1 DEF Init, ViewInit, TagsInit
  <2> QED BY <2>2, <2>3, <2>4, LinesAtAre DEF CursorOK
<1>3. Base /\ ViewOK' /\ PageOK' /\ DialogOK /\ CursorOK /\ [Next]_vars => DialogOK' /\ CursorOK'
  BY DialogKeeps, CursorKeeps
<1>4. Spec => []Base
  BY ViewInvariant, InputInvariant, TagsShown, TagsInvariant, AddressInvariant, PTL DEF Base
<1>5. ViewOK => PageOK
  BY ViewIsPage DEF PageOK
<1> QED BY <1>1, <1>2, <1>3, <1>4, <1>5, ViewInvariant, PTL DEF Spec

\* Activating what an up-to-date search found leads the main view to what was found,
\* although the dialog is closed first and the selection comes by a queued call.
THEOREM ActivationLeads == Spec => ActivationLeadsThere
<1>1. ASSUME Base, DialogOK, CursorOK, ActivateItem, activation.sure
      PROVE  LET c == activation.item
                 line == lines[cursor']
             IN /\ activation.live /\ c.live
                /\ c.type = "section" => line.section = c.key
                /\ c.type = "text" =>
                     /\ c.key \in MatchesIn(Text, input)
                     /\ MatchesIn(line.text, input) # {}
                /\ c.type \in {"tag", "row"} /\ LinesAt(c.key) # {} =>
                     line.address = c.key /\ here' = c.key
                /\ c.type = "tag" => \E t \in input.tags : Contains(TagsAt(tags, c.key), t)
  <2>1. activation # NoActivation
    BY <1>1 DEF ActivateItem
  <2>2. PICK c : c = activation.item
    OBVIOUS
  <2>3. activation.live /\ ItemOK(c) /\ Right(c, tags, Text, input)
    BY <1>1, <2>1, <2>2 DEF DialogOK
  <2>4. ViewOK
    BY <1>1 DEF Base
  <2>5. c.live
    BY <2>3 DEF Right
  <2>6. /\ c.type = "section" => SelectSection(c.key)
        /\ c.type = "text" => SelectPosition(c.key)
        /\ c.type \in {"tag", "row"} => SelectAddress(c.key)
        /\ TagsFollow
    BY <1>1, <2>2, <2>3, <2>5 DEF ActivateItem
  <2>7. c.type = "section" => lines[cursor'].section = c.key
    <3>1. SUFFICES ASSUME c.type = "section" PROVE lines[cursor'].section = c.key
      OBVIOUS
    <3>2. \E k \in DOMAIN lines : lines[k].section = c.key
      BY <2>3, <2>4, <3>1, ViewIsPage DEF ItemOK
    <3> QED BY <2>6, <3>1, <3>2 DEF SelectSection
  <2>8. c.type = "text" => c.key \in MatchesIn(Text, input) /\ MatchesIn(lines[cursor'].text, input) # {}
    <3>1. SUFFICES ASSUME c.type = "text"
                   PROVE  c.key \in MatchesIn(Text, input) /\ MatchesIn(lines[cursor'].text, input) # {}
      OBVIOUS
    <3>2. Page(lines) /\ Text = FlatText(lines)
      BY <2>4, ViewIsPage
    <3>3. c.key \in MatchesIn(Text, input) /\ SearchPattern(input)
      BY <2>3, <3>1, PatternIs DEF Right
    <3>4. MatchesIn(lines[LineAt(FlatText(lines), c.key)].text, input) # {}
      BY <3>2, <3>3, MatchInLine
    <3>5. cursor' = LineOf(c.key)
      <4>1. PICK text \in Seq(Character) : text = Text
        BY <3>2, PageDocument DEF Document
      <4>2. MatchAt(text, input, c.key)
        BY <3>3, <4>1, MatchIs
      <4>3. PICK q \in Nat, m \in Nat, len \in Nat : q = c.key /\ m = Len(input.text) /\ len = Len(text)
        BY <3>3, <4>1, <4>2 DEF MatchAt, SearchPattern
      <4>4. ~(c.key > Len(Text))
        BY <4>1, <4>2, <4>3 DEF MatchAt
      <4> QED BY <2>6, <3>1, <4>4 DEF SelectPosition
    <3>6. LineOf(c.key) = LineAt(FlatText(lines), c.key)
      BY <3>2 DEF LineOf, LineAt, EndsBefore
    <3> QED BY <3>3, <3>4, <3>5, <3>6
  <2>9. c.type \in {"tag", "row"} /\ LinesAt(c.key) # {} => lines[cursor'].address = c.key /\ here' = c.key
    <3>1. SUFFICES ASSUME c.type \in {"tag", "row"}, LinesAt(c.key) # {}
                   PROVE  lines[cursor'].address = c.key /\ here' = c.key
      OBVIOUS
    <3>2. lines[cursor'].address = c.key
      BY <2>4, <2>6, <3>1, LinesAtAre DEF SelectAddress
    <3>3. c.key # NoAddress
      BY <2>3, <3>1 DEF ItemOK
    <3>4. CASE SetAddress(lines[cursor'].address)
      BY <3>2, <3>4 DEF SetAddress
    <3>5. CASE cursor' = cursor /\ here' = here
      BY <1>1, <3>2, <3>3, <3>5 DEF CursorOK
    <3> QED BY <2>6, <3>2, <3>3, <3>4, <3>5 DEF TagsFollow
  <2>10. c.type = "tag" => \E t \in input.tags : Contains(TagsAt(tags, c.key), t)
    BY <2>3 DEF Right
  <2> QED BY <2>2, <2>3, <2>5, <2>7, <2>8, <2>9, <2>10
<1>2. Base /\ DialogOK /\ CursorOK /\ [Next]_vars =>
        [ActivateItem /\ activation.sure =>
           LET c == activation.item
               line == lines[cursor']
           IN /\ activation.live /\ c.live
              /\ c.type = "section" => line.section = c.key
              /\ c.type = "text" =>
                   /\ c.key \in MatchesIn(Text, input)
                   /\ MatchesIn(line.text, input) # {}
              /\ c.type \in {"tag", "row"} /\ LinesAt(c.key) # {} =>
                   line.address = c.key /\ here' = c.key
              /\ c.type = "tag" => \E t \in input.tags : Contains(TagsAt(tags, c.key), t)]_vars
  BY <1>1
<1> QED BY <1>2, DialogInvariant, PTL DEF Spec, ActivationLeadsThere

=============================================================================
