--------------------------- MODULE Editors_proofs ---------------------------
(***************************************************************************)
(* Editors for sections of any size, rows of any size and any versions.    *)
(* EInv says of each editor under which stamps it is known to show what    *)
(* the section holds, and of the disassembly and the main view since when  *)
(* they may be behind.                                                     *)
(***************************************************************************)
EXTENDS Editors, Regions_proofs

\* What is read of a byte of versions, or set for it.
Minors == 0..MinorMod

\* What a section of this kind may hold.
Strings(n, S) == [1..n -> S]
CodeContents == Strings(Size, Byte)
Contents == IF kind = "code" THEN CodeContents ELSE Strings(2, Byte)

\* What the hex editor may show of it: two places for every byte.
CodeTexts == Strings(2 * Size, Place)
Texts == IF kind = "code" THEN CodeTexts ELSE Strings(4, Place)

\* The rows lie in the section, and no two of them overlap.
RowSet == [at : Nat \ {0}, bytes : Seq(Byte)]
InSection(r) == Len(r.bytes) > 0 /\ r.at + Len(r.bytes) - 1 =< Size
Apart(r, s) == r.at + Len(r.bytes) =< s.at \/ s.at + Len(s.bytes) =< r.at
RowsOK(R) ==
  /\ R \subseteq RowSet
  /\ \A r \in R : InSection(r)
  /\ \A r, s \in R : r # s => Apart(r, s)

\* The rows say what the bytes d are.
Matches(R, d) == \A r \in R : SubSeq(d, r.at, r.at + Len(r.bytes) - 1) = r.bytes

\* Of n bytes d, of which the hex editor shows the text: the row that begins at
\* position p.
RowsOf(n) == {p \in 1..n : (p - 1) % RowSize = 0}
RowLen(n, p) == IF p + RowSize - 1 < n THEN RowSize ELSE n - p + 1
RowOf(text, n, p) == SubSeq(text, 2 * p - 1, 2 * (p + RowLen(n, p) - 1))

\* The digits shown are those of the first bytes of the row, or of all.
Begins(shown, d, p) == \A i \in 1..Len(shown) : d[p + i - 1] = shown[i]
ShowsRow(row, len, d, p, all) ==
  LET shown == HexToData(Digits(row)) IN
  /\ Len(shown) =< len /\ Begins(shown, d, p)
  /\ all => Len(shown) = len
Shows(text, edited, d, n) ==
  \A p \in RowsOf(n) : ShowsRow(RowOf(text, n, p), RowLen(n, p), d, p, p \notin edited)

\* The states of the editors.
AnyStamp == {"null", "same", "other"}
HexState == [stamp : AnyStamp, dirty : BOOLEAN, text : Texts \union {<<>>}, edited : SUBSET Nat]
LoadingState == [state : {"no", "delayed", "waiting"}, dump : Contents \union {<<>>}]
CodeState == [stamp : AnyStamp, dirty : BOOLEAN, rows : SUBSET RowSet, button : BOOLEAN, stale : BOOLEAN]
VersionsState == [stamp : AnyStamp, read : [1..2 -> Minors] \union {<<>>}, spin : [1..2 -> SpinRange] \union {<<>>}]

TypeOK ==
  /\ kind \in {"code", "versions"} /\ data \in Contents /\ touched \in BOOLEAN
  /\ open \in {"none", "hex", "code", "versions"}
  /\ hex \in HexState
  /\ loading \in LoadingState
  /\ raced \in BOOLEAN
  /\ code \in CodeState
  /\ RowsOK(code.rows)
  /\ RowsOK(disasm)
  /\ versions \in VersionsState
  /\ versions.read = <<>> <=> versions.spin = <<>>

\* Which editor is open for which section, and what goes with it.
OpenInv ==
  /\ open = "code" => kind = "code"
  /\ open = "versions" => kind = "versions" /\ data = prior /\ versions.read # <<>>
  /\ open # "none" => prior \in Contents
  /\ loading # NotLoading => open = "hex"
  /\ open = "hex" /\ loading = NotLoading => hex.text # <<>>

\* Every row of the hex editor shows the data, as far as it goes, unless another
\* editor wrote since; and a dump it waits for will, unless a row was edited meanwhile.
HexInv ==
  /\ hex.text # <<>> /\ ~raced /\ loading = NotLoading /\ (~touched \/ hex.stamp = "same" \/ open = "hex") =>
       Shows(hex.text, hex.edited, data, Len(data))
  /\ loading.state = "waiting" => loading.dump \in Contents /\ (~raced => loading.dump = data)

\* The same of the rows of the disassembly editor.
CodeInv ==
  /\ kind = "versions" => code.rows = {}
  /\ ~code.stale /\ (~touched \/ code.stamp = "same" \/ open = "code") => Matches(code.rows, data)

\* The disassembly is behind only while the stamps of an open editor differ.
DisasmInv ==
  /\ open # "hex" => ~hex.dirty
  /\ open # "code" => ~code.dirty
  /\ hex.dirty \/ code.dirty => touched
  /\ kind = "code" /\ Decodable(data) /\ ~hex.dirty /\ ~code.dirty => disasm = Instructions(data)

\* What the main view would show of the bytes d.
Fresh(d) == IF kind = "code" THEN Instructions(d) ELSE Parsed(d)
UpToDate(d) == ~declined /\ (kind = "code" => Decodable(d)) => main = Fresh(d)

\* The main view shows what the section held when the open editor was opened.
MainInv == UpToDate(IF open = "none" THEN data ELSE prior)

\* The inductive invariant.
EInv == TypeOK /\ OpenInv /\ HexInv /\ CodeInv /\ DisasmInv /\ MainInv

-----------------------------------------------------------------------------
(***************************************************************************)
(* Bytes and rows                                                          *)
(***************************************************************************)

\* Contents of a section, as a sequence.
LEMMA AsSequence ==
  ASSUME NEW S, NEW n \in Nat, NEW d \in Strings(n, S)
  PROVE  d \in Seq(S) /\ Len(d) = n /\ DOMAIN d = 1..n /\ \A i \in 1..n : d[i] \in S
BY DEF Strings

\* There are k bytes among n from position p on.
Fits(p, k, n) == p \in Nat \ {0} /\ k \in Nat /\ n \in Nat /\ p + k - 1 =< n

\* These bytes.
LEMMA Part ==
  ASSUME NEW S, NEW n, NEW d \in Strings(n, S), NEW p, NEW k, Fits(p, k, n)
  PROVE  /\ SubSeq(d, p, p + k - 1) \in Seq(S)
         /\ Len(SubSeq(d, p, p + k - 1)) = k
         /\ \A i \in 1..k : SubSeq(d, p, p + k - 1)[i] = d[p + i - 1]
<1> DEFINE q == p + k - 1
<1>1. q \in Int /\ p \in Int /\ q - p + 1 = k /\ k \in Nat /\ n \in Nat /\ p > 0 /\ q =< n
  BY DEF Fits
<1>2. \A i \in p..q : d[i] \in S
  BY <1>1 DEF Strings
<1> HIDE DEF q
<1>3. /\ SubSeq(d, p, q) \in Seq(S)
      /\ Len(SubSeq(d, p, q)) = IF p =< q THEN q - p + 1 ELSE 0
      /\ \A i \in 1..q - p + 1 : SubSeq(d, p, q)[i] = d[p + i - 1]
  BY <1>1, <1>2, SubSeqProperties
<1>4. Len(SubSeq(d, p, q)) = k
  BY <1>1, <1>3
<1> QED BY <1>1, <1>3, <1>4 DEF q

\* A row says what the bytes are when each of its bytes does.
LEMMA RowSays ==
  ASSUME NEW d \in CodeContents, NEW r \in RowSet, InSection(r)
  PROVE  SubSeq(d, r.at, r.at + Len(r.bytes) - 1) = r.bytes <=> \A i \in 1..Len(r.bytes) : d[r.at + i - 1] = r.bytes[i]
<1>1. PICK p \in Nat \ {0}, b \in Seq(Byte) : p = r.at /\ b = r.bytes
  BY DEF RowSet
<1>2. Len(b) \in Nat /\ p + Len(b) - 1 =< Size /\ Size \in Nat /\ d \in Strings(Size, Byte)
  BY <1>1, EditorsAssumption DEF InSection, CodeContents
<1> DEFINE s == SubSeq(d, p, p + Len(b) - 1)
<1>3. /\ s \in Seq(Byte) /\ Len(s) = Len(b)
      /\ \A i \in 1..Len(b) : s[i] = d[p + i - 1]
  <2>1. PICK k : k = Len(b)
    OBVIOUS
  <2>2. Fits(p, k, Size) /\ d \in Strings(Size, Byte)
    BY <1>2, <2>1 DEF Fits
  <2>3. /\ SubSeq(d, p, p + k - 1) \in Seq(Byte)
        /\ Len(SubSeq(d, p, p + k - 1)) = k
        /\ \A i \in 1..k : SubSeq(d, p, p + k - 1)[i] = d[p + i - 1]
    BY ONLY <2>2, Part
  <2> QED BY ONLY <2>1, <2>3
<1> HIDE DEF s
<1>4. ASSUME \A i \in 1..Len(b) : d[p + i - 1] = b[i] PROVE s = b
  BY <1>3, <1>4, SeqEqual
<1>5. s = b => \A i \in 1..Len(b) : d[p + i - 1] = b[i]
  BY <1>3
<1>6. s = b <=> \A i \in 1..Len(b) : d[p + i - 1] = b[i]
  BY <1>4, <1>5
<1> QED BY <1>1, <1>6 DEF s

\* What setSubData leaves, when what it writes lies inside.
Written(d, p, b) == [i \in DOMAIN d |-> IF i \in p..(p + Len(b) - 1) THEN b[i - p + 1] ELSE d[i]]

\* The new bytes are there, and the others are as they were.
LEMMA WrittenIs ==
  ASSUME NEW S, NEW n, NEW d \in Strings(n, S), NEW b \in Seq(S), NEW p, Fits(p, Len(b), n)
  PROVE  /\ Written(d, p, b) \in Strings(n, S)
         /\ \A i \in 1..Len(b) : Written(d, p, b)[p + i - 1] = b[i]
         /\ \A i \in 1..n : i < p \/ i >= p + Len(b) => Written(d, p, b)[i] = d[i]
<1>1. /\ Len(b) \in Nat /\ \A i \in 1..Len(b) : b[i] \in S
      /\ p \in Nat \ {0} /\ n \in Nat /\ p + Len(b) - 1 =< n
  BY DEF Fits
<1>2. \A i \in p..(p + Len(b) - 1) : i - p + 1 \in 1..Len(b)
  BY <1>1
<1>3. \A i \in 1..Len(b) : /\ p + i - 1 \in 1..n /\ p + i - 1 \in p..(p + Len(b) - 1)
                           /\ (p + i - 1) - p + 1 = i
  BY <1>1
<1>4. Written(d, p, b) \in Strings(n, S)
  BY <1>1, <1>2 DEF Written, Strings
<1>5. \A i \in 1..Len(b) : Written(d, p, b)[p + i - 1] = b[i]
  BY <1>1, <1>3 DEF Written, Strings
<1>6. \A i \in 1..n : i < p \/ i >= p + Len(b) => Written(d, p, b)[i] = d[i]
  BY <1>1 DEF Written, Strings
<1> QED BY <1>4, <1>5, <1>6

\* The sizes of the instance.
LEMMA Sizes == /\ Size \in Nat /\ Size > 0 /\ RowSize \in Nat /\ RowSize > 0
               /\ MinorMod \in Nat /\ MinorMod > 1 /\ MinorMod < 4 /\ Keys \subseteq 0..1
BY EditorsAssumption

\* cs_disasm comes to no position inside an instruction it has found: otherwise
\* take the first instruction with such a position; without the positions inside
\* it, those it comes to still have the first one and the next of each.
LEMMA StartsApart ==
  ASSUME NEW d \in CodeContents, NEW p \in Starts(d), Decodes(d, p), NEW q \in Starts(d), p < q
  PROVE  p + d[p] =< q
<1>1. Size \in Nat /\ Size > 0 /\ Len(d) = Size /\ DOMAIN d = 1..Size /\ \A i \in 1..Size : d[i] \in Nat
  BY Sizes, AsSequence DEF CodeContents, Byte
<1>2. Starts(d) \subseteq 1..Size
  BY <1>1 DEF Starts
<1> DEFINE Inside(s) == {x \in Starts(d) : s < x /\ x < s + d[s]}
           C == {s \in Starts(d) : Decodes(d, s) /\ Inside(s) # {}}
<1> SUFFICES ASSUME C # {} PROVE FALSE
  <2>1. ~(p + d[p] =< q) => q \in Inside(p)
    BY <1>1, <1>2
  <2> QED BY <2>1
<1>3. PICK m \in C : \A s \in C : m =< s
  <2>1. C \subseteq 1..Size
    BY <1>2
  <2> HIDE DEF C
  <2> QED BY <1>1, <2>1, LeastIndex
<1>4. m \in 1..Size /\ Decodes(d, m) /\ d[m] \in Nat /\ m + d[m] - 1 =< Size
  BY <1>1, <1>2, <1>3 DEF Decodes
<1> DEFINE F == {x \in 1..Size + 1 : ~(m < x /\ x < m + d[m]) /\ \A S \in SUBSET (1..Len(d) + 1) : Follows(d, S) => x \in S}
<1>5. Follows(d, F)
  <2>1. 1 \in F
    BY <1>1, <1>4 DEF Follows
  <2>2. ASSUME NEW x \in F, Decodes(d, x) PROVE x + d[x] \in F
    <3> DEFINE y == x + d[x]
    <3>0. x \in 1..Size /\ d[x] # 0 /\ x + d[x] - 1 =< Size
      BY <1>1, <2>2 DEF Decodes
    <3>1. x \in 1..Size /\ d[x] \in Nat /\ d[x] # 0 /\ y \in 1..Size + 1
      <4>1. d[x] \in Nat
        BY <1>1, <3>0
      <4> QED BY <1>1, <3>0, <4>1
    <3>2. x \in Starts(d)
      BY <1>1, <3>1 DEF Starts
    <3>3. \A S \in SUBSET (1..Len(d) + 1) : Follows(d, S) => y \in S
      BY <2>2 DEF Follows
    <3>4. ASSUME m < y, y < m + d[m] PROVE FALSE
      <4>1. x < m
        <5>1. CASE x = m
          BY <1>4, <3>4, <5>1
        <5>2. CASE x > m
          BY <1>4, <3>1, <3>4, <5>2
        <5> QED BY <1>4, <3>1, <5>1, <5>2
      <4>2. m \in Starts(d)
        BY <1>3
      <4>3. m \in Inside(x)
        BY <3>4, <4>1, <4>2
      <4>4. x \in C
        BY <2>2, <3>2, <4>3
      <4> QED BY <1>3, <1>4, <3>1, <4>1, <4>4
    <3> QED BY <3>1, <3>3, <3>4
  <2> HIDE DEF F
  <2> QED BY <2>1, <2>2 DEF Follows
<1>6. F \in SUBSET (1..Len(d) + 1)
  BY <1>1
<1>7. PICK x \in Starts(d) : m < x /\ x < m + d[m]
  BY <1>3
<1>8. x \in F
  <2> HIDE DEF F
  <2> QED BY <1>5, <1>6, <1>7 DEF Starts
<1> QED BY <1>7, <1>8

\* What is decoded are rows that do not overlap and say what the bytes are.
LEMMA InstructionsOK ==
  ASSUME NEW d \in CodeContents
  PROVE  RowsOK(Instructions(d)) /\ Matches(Instructions(d), d)
<1>1. Size \in Nat /\ Len(d) = Size /\ DOMAIN d = 1..Size /\ d \in Strings(Size, Byte) /\ \A i \in 1..Size : d[i] \in Nat
  BY Sizes, AsSequence DEF CodeContents, Byte
<1>2. ASSUME NEW r \in Instructions(d)
      PROVE  /\ r \in RowSet /\ r.at \in Starts(d) /\ Decodes(d, r.at)
             /\ Len(r.bytes) = d[r.at] /\ InSection(r)
             /\ SubSeq(d, r.at, r.at + Len(r.bytes) - 1) = r.bytes
  <2>1. PICK p \in Starts(d) : Decodes(d, p) /\ r = [at |-> p, bytes |-> SubSeq(d, p, p + d[p] - 1)]
    BY DEF Instructions
  <2>2. p \in Nat \ {0} /\ d[p] \in Nat /\ d[p] > 0 /\ p + d[p] - 1 =< Size
    BY <1>1, <2>1 DEF Decodes
  <2>3. /\ SubSeq(d, p, p + d[p] - 1) \in Seq(Byte)
        /\ Len(SubSeq(d, p, p + d[p] - 1)) = d[p]
    <3>1. Fits(p, d[p], Size)
      BY <1>1, <2>2 DEF Fits
    <3> QED BY <1>1, <3>1, Part
  <2>4. r.at = p /\ r.bytes = SubSeq(d, p, p + d[p] - 1)
    BY <2>1
  <2>5. r \in RowSet
    BY <2>1, <2>2, <2>3 DEF RowSet
  <2>6. InSection(r)
    BY <2>2, <2>3, <2>4 DEF InSection
  <2>7. SubSeq(d, r.at, r.at + Len(r.bytes) - 1) = r.bytes
    BY <2>3, <2>4
  <2> QED BY <2>1, <2>3, <2>4, <2>5, <2>6, <2>7
<1>3. ASSUME NEW r \in Instructions(d), NEW s \in Instructions(d), r # s
      PROVE  Apart(r, s)
  <2>1. r.at # s.at
    <3>1. SUFFICES ASSUME r.at = s.at PROVE r = s
      BY <1>3
    <3>2. r \in RowSet /\ s \in RowSet /\ r.bytes = s.bytes
      BY <1>2, <3>1
    <3> QED BY <3>1, <3>2 DEF RowSet
  <2>2. r.at \in Int /\ s.at \in Int
    BY <1>2 DEF RowSet
  <2>3. CASE r.at < s.at
    BY <1>2, <2>3, StartsApart DEF Apart
  <2>4. CASE s.at < r.at
    BY <1>2, <2>4, StartsApart DEF Apart
  <2> QED BY <2>1, <2>2, <2>3, <2>4
<1> QED BY <1>2, <1>3 DEF RowsOK, Matches

\* One byte of a row is typed over, and the row is written: rows that said what
\* the bytes were still do.
LEMMA RowEdited ==
  ASSUME NEW R, RowsOK(R), NEW row \in R, NEW i \in DOMAIN row.bytes, NEW b \in Byte, NEW d \in CodeContents
  PROVE  LET typed == [row.bytes EXCEPT ![i] = b]
             R2 == (R \ {row}) \union {[row EXCEPT !.bytes = typed]}
             d2 == Written(d, row.at, typed) IN
         /\ R2 \in SUBSET RowSet /\ RowsOK(R2) /\ d2 \in CodeContents
         /\ Matches(R, d) => Matches(R2, d2)
<1> DEFINE typed == [row.bytes EXCEPT ![i] = b]
           new == [row EXCEPT !.bytes = typed]
           R2 == (R \ {row}) \union {new}
           d2 == Written(d, row.at, typed)
<1>1. /\ row \in RowSet /\ row.at \in Nat \ {0} /\ row.bytes \in Seq(Byte)
      /\ Len(row.bytes) > 0 /\ row.at + Len(row.bytes) - 1 =< Size /\ Size \in Nat
  BY Sizes DEF RowsOK, InSection, RowSet
<1>2. typed \in Seq(Byte) /\ Len(typed) = Len(row.bytes) /\ Len(typed) \in Nat
  BY <1>1
<1> HIDE DEF typed
<1>3. new.at = row.at /\ new.bytes = typed /\ new \in RowSet
  BY <1>1, <1>2 DEF RowSet
<1> HIDE DEF new
<1>4. RowsOK(R2)
  <2>1. R2 \subseteq RowSet /\ \A r \in R2 : InSection(r)
    BY <1>1, <1>2, <1>3 DEF RowsOK, InSection
  <2>2. ASSUME NEW r \in R2, NEW s \in R2, r # s PROVE Apart(r, s)
    <3>1. CASE r = new
      <4>1. s \in R /\ s # row
        BY <2>2, <3>1
      <4>2. Apart(row, s)
        BY <4>1 DEF RowsOK
      <4> QED BY <1>2, <1>3, <3>1, <4>2 DEF Apart
    <3>2. CASE s = new
      <4>1. r \in R /\ r # row
        BY <2>2, <3>2
      <4>2. Apart(r, row)
        BY <4>1 DEF RowsOK
      <4> QED BY <1>2, <1>3, <3>2, <4>2 DEF Apart
    <3>3. CASE r # new /\ s # new
      BY <2>2, <3>3 DEF RowsOK
    <3> QED BY <3>1, <3>2, <3>3
  <2> QED BY <2>1, <2>2 DEF RowsOK
<1>5. /\ d2 \in Strings(Size, Byte)
      /\ \A k \in 1..Len(typed) : d2[row.at + k - 1] = typed[k]
      /\ \A k \in 1..Size : k < row.at \/ k >= row.at + Len(typed) => d2[k] = d[k]
  <2>1. /\ row.at \in Nat \ {0} /\ typed \in Seq(Byte) /\ row.at + Len(typed) - 1 =< Size
        /\ d \in Strings(Size, Byte) /\ Size \in Nat
    BY <1>1, <1>2 DEF CodeContents
  <2>2. PICK p : p = row.at
    OBVIOUS
  <2>3. d \in Strings(Size, Byte) /\ typed \in Seq(Byte) /\ Fits(p, Len(typed), Size)
    BY <1>2, <2>1, <2>2 DEF Fits
  <2>4. /\ Written(d, p, typed) \in Strings(Size, Byte)
        /\ \A k \in 1..Len(typed) : Written(d, p, typed)[p + k - 1] = typed[k]
        /\ \A k \in 1..Size : k < p \/ k >= p + Len(typed) => Written(d, p, typed)[k] = d[k]
    BY ONLY <2>3, WrittenIs
  <2> QED BY ONLY <2>2, <2>4
<1> HIDE DEF d2
<1>6. ASSUME Matches(R, d) PROVE Matches(R2, d2)
  <2> SUFFICES ASSUME NEW r \in R2
               PROVE  SubSeq(d2, r.at, r.at + Len(r.bytes) - 1) = r.bytes
    BY DEF Matches
  <2>1. CASE r = new
    <3>1. /\ r.at \in Nat \ {0} /\ r.bytes \in Seq(Byte) /\ r.at + Len(r.bytes) - 1 =< Size
          /\ d2 \in Strings(Size, Byte) /\ Size \in Nat
          /\ \A k \in 1..Len(r.bytes) : d2[r.at + k - 1] = r.bytes[k]
      BY <1>1, <1>2, <1>3, <1>5, <2>1
    <3>2. r \in RowSet /\ InSection(r) /\ d2 \in CodeContents
      BY <1>1, <1>2, <1>3, <1>4, <1>5, <2>1 DEF RowsOK, CodeContents
    <3> QED BY <3>1, <3>2, RowSays
  <2>2. CASE r # new
    <3>1. r \in R /\ r # row
      BY <2>2
    <3>2. /\ r.at \in Nat \ {0} /\ r.bytes \in Seq(Byte) /\ Len(r.bytes) \in Nat
          /\ r.at + Len(r.bytes) - 1 =< Size
      BY <3>1 DEF RowsOK, RowSet, InSection
    <3>3. Apart(r, row)
      BY <3>1 DEF RowsOK
    <3>4. SubSeq(d, r.at, r.at + Len(r.bytes) - 1) = r.bytes
      BY <1>6, <3>1 DEF Matches
    <3>5. \A k \in 1..Len(r.bytes) : d[r.at + k - 1] = r.bytes[k]
      <4>1. r \in RowSet /\ InSection(r)
        BY <3>1 DEF RowsOK
      <4> QED BY <3>4, <4>1, RowSays
    <3>6. ASSUME NEW k \in 1..Len(r.bytes) PROVE d2[r.at + k - 1] = r.bytes[k]
      <4>1. r.at + k - 1 \in 1..Size
        BY <1>1, <3>2
      <4>2. r.at + k - 1 < row.at \/ r.at + k - 1 >= row.at + Len(typed)
        <5>1. row.at \in Nat /\ r.at \in Nat /\ Len(r.bytes) \in Nat /\ Len(typed) \in Nat /\ Len(typed) = Len(row.bytes)
          BY <1>1, <1>2, <3>2
        <5> QED BY ONLY <3>3, <5>1, k \in 1..Len(r.bytes) DEF Apart
      <4> QED BY <1>5, <3>5, <4>1, <4>2
    <3>7. r \in RowSet /\ InSection(r) /\ d2 \in CodeContents
      BY <1>5, <3>1 DEF RowsOK, CodeContents
    <3> QED BY <3>6, <3>7, RowSays
  <2> QED BY <2>1, <2>2
<1> QED BY <1>4, <1>5, <1>6 DEF RowsOK, CodeContents, d2, new, typed

-----------------------------------------------------------------------------
(***************************************************************************)
(* The rows of the hex editor                                              *)
(***************************************************************************)

\* The digits of a text are as many as its places at most, and all of them if no
\* place is blank.
LEMMA DigitsAre ==
  ASSUME NEW n \in Nat, NEW text \in Strings(n, Place)
  PROVE  /\ Digits(text) \in Seq(0..1) /\ Len(Digits(text)) =< n
         /\ (\A i \in 1..n : text[i] # Blank) =>
              Len(Digits(text)) = n /\ \A i \in 1..n : Digits(text)[i] = text[i]
<1>1. text \in Seq(Place) /\ Len(text) = n /\ DOMAIN text = 1..n
  BY AsSequence
<1> DEFINE K == DigitsAt(text)
<1>2. K \subseteq DOMAIN text /\ K \subseteq 1..n /\ \A i \in K : text[i] \in 0..1
  BY <1>1 DEF DigitsAt, Place, Blank, Strings
<1>3. /\ Cardinality(K) \in Nat /\ Cardinality(K) =< n
      /\ K = 1..n => Cardinality(K) = n
  <2>1. IsFiniteSet(1..n) /\ Cardinality(1..n) = n
    BY FS_Interval
  <2>2. IsFiniteSet(K) /\ Cardinality(K) =< Cardinality(1..n)
    BY <1>2, <2>1, FS_Subset
  <2> HIDE DEF K
  <2> QED BY <2>1, <2>2, FS_CardinalityType
<1> HIDE DEF K
<1>4. /\ \A k \in 1..Cardinality(K) : Nth(K, k) \in K /\ Rank(K, Nth(K, k)) = k
      /\ \A k, l \in 1..Cardinality(K) : k < l => Nth(K, k) < Nth(K, l)
  BY <1>2, NthEnumerates
<1>5. Digits(text) = [k \in 1..Cardinality(K) |-> text[Nth(K, k)]]
  BY DEF Digits, Selected, K
<1>6. Digits(text) \in Strings(Cardinality(K), 0..1)
  BY <1>2, <1>4, <1>5 DEF Strings
<1>7. Digits(text) \in Seq(0..1) /\ Len(Digits(text)) = Cardinality(K)
  BY <1>3, <1>6, AsSequence
<1>8. ASSUME \A i \in 1..n : text[i] # Blank
      PROVE  Len(Digits(text)) = n /\ \A i \in 1..n : Digits(text)[i] = text[i]
  <2>1. K = 1..n
    BY <1>1, <1>8 DEF K, DigitsAt
  <2>2. ASSUME NEW i \in 1..n PROVE Rank(K, i) = i
    <3>1. {j \in K : j =< i} = 1..i
      BY <2>1
    <3>2. Cardinality(1..i) = i
      BY FS_Interval
    <3> QED BY <3>1, <3>2 DEF Rank
  <2>3. ASSUME NEW i \in 1..n PROVE Nth(K, i) = i
    <3>1. Cardinality(K) = n
      BY <1>3, <2>1
    <3>2. Nth(K, i) \in 1..n /\ Rank(K, Nth(K, i)) = i
      BY <1>4, <2>1, <3>1
    <3> QED BY <2>2, <3>2
  <2> QED BY <1>3, <1>5, <1>7, <2>1, <2>3
<1> QED BY <1>3, <1>7, <1>8

\* hexToData makes a byte of every two digits, and of one left over.
LEMMA DataOfHex ==
  ASSUME NEW s \in Seq(0..1)
  PROVE  /\ HexToData(s) \in Seq(Byte) /\ Len(HexToData(s)) = (Len(s) + 1) \div 2
         /\ \A n \in Nat : Len(s) =< 2 * n => Len(HexToData(s)) =< n
         /\ \A n \in Nat : Len(s) = 2 * n =>
              Len(HexToData(s)) = n /\ \A k \in 1..n : HexToData(s)[k] = 2 * s[2 * k - 1] + s[2 * k]
<1> DEFINE m == (Len(s) + 1) \div 2
<1>1. Len(s) \in Nat /\ m \in Nat /\ 2 * m =< Len(s) + 1 /\ Len(s) =< 2 * m
  OBVIOUS
<1>2. \A k \in 1..Len(s) : s[k] \in 0..1
  OBVIOUS
<1>3. ASSUME NEW k \in 1..m
      PROVE  /\ 2 * k - 1 \in 1..Len(s)
             /\ ~(2 * k > Len(s)) => 2 * k \in 1..Len(s)
  <2> HIDE DEF m
  <2> QED BY <1>1
<1>4. ASSUME NEW a \in 0..1, NEW b \in 0..1 PROVE a \in Byte /\ 2 * a + b \in Byte
  BY DEF Byte
<1>5. HexToData(s) = [k \in 1..m |-> IF 2 * k > Len(s) THEN s[2 * k - 1] ELSE 2 * s[2 * k - 1] + s[2 * k]]
  BY DEF HexToData
<1> HIDE DEF m
<1>6. HexToData(s) \in Strings(m, Byte)
  <2>1. ASSUME NEW k \in 1..m
        PROVE  (IF 2 * k > Len(s) THEN s[2 * k - 1] ELSE 2 * s[2 * k - 1] + s[2 * k]) \in Byte
    BY <1>2, <1>3, <1>4
  <2> QED BY <1>5, <2>1 DEF Strings
<1>7. HexToData(s) \in Seq(Byte) /\ Len(HexToData(s)) = m
  BY <1>1, <1>6, AsSequence
<1>8. ASSUME NEW n \in Nat, Len(s) =< 2 * n PROVE m =< n
  BY <1>1, <1>8
<1>9. ASSUME NEW n \in Nat, Len(s) = 2 * n
      PROVE  m = n /\ \A k \in 1..n : HexToData(s)[k] = 2 * s[2 * k - 1] + s[2 * k]
  <2>1. m = n
    BY <1>1, <1>9
  <2>2. \A k \in 1..n : ~(2 * k > Len(s))
    BY <1>9
  <2> QED BY <1>5, <2>1, <2>2
<1> QED BY <1>7, <1>8, <1>9 DEF m

\* A row lies in the section, and its text in that of the section.
LEMMA RowLies ==
  ASSUME NEW n \in Nat, NEW p \in RowsOf(n)
  PROVE  /\ p \in 1..n /\ (p - 1) % RowSize = 0 /\ RowLen(n, p) \in Nat /\ RowLen(n, p) > 0 /\ RowLen(n, p) =< RowSize
         /\ p + RowLen(n, p) - 1 =< n
         /\ Fits(p, RowLen(n, p), n) /\ Fits(2 * p - 1, 2 * RowLen(n, p), 2 * n)
<1>1. p \in 1..n /\ (p - 1) % RowSize = 0
  BY DEF RowsOf
<1>2. /\ RowLen(n, p) \in Nat /\ RowLen(n, p) > 0 /\ RowLen(n, p) =< RowSize
      /\ p + RowLen(n, p) - 1 =< n
  BY <1>1, Sizes DEF RowLen
<1> QED BY <1>1, <1>2 DEF Fits

\* The places of a row.
LEMMA RowPlaces ==
  ASSUME NEW n \in Nat, NEW text \in Strings(2 * n, Place), NEW p \in RowsOf(n)
  PROVE  /\ RowOf(text, n, p) \in Strings(2 * RowLen(n, p), Place)
         /\ \A i \in 1..2 * RowLen(n, p) : RowOf(text, n, p)[i] = text[2 * (p - 1) + i]
<1>1. PICK k : k = RowLen(n, p)
  OBVIOUS
<1>2. k \in Nat /\ p \in Nat /\ Fits(2 * p - 1, 2 * k, 2 * n)
  BY <1>1, RowLies
<1>3. PICK a, b, c : a = 2 * p - 1 /\ b = 2 * k /\ c = 2 * n
  OBVIOUS
<1>4. Fits(a, b, c) /\ text \in Strings(c, Place)
  BY <1>2, <1>3
<1>5. /\ SubSeq(text, a, a + b - 1) \in Seq(Place)
      /\ Len(SubSeq(text, a, a + b - 1)) = b
      /\ \A i \in 1..b : SubSeq(text, a, a + b - 1)[i] = text[a + i - 1]
  BY ONLY <1>4, Part
<1>6. a + b - 1 = 2 * (p + k - 1)
  BY <1>2, <1>3
<1>7. RowOf(text, n, p) = SubSeq(text, a, a + b - 1)
  BY <1>1, <1>3, <1>6 DEF RowOf
<1>8. RowOf(text, n, p) \in [1..b -> Place]
  <2>1. PICK row : row = RowOf(text, n, p)
    OBVIOUS
  <2>2. row \in Seq(Place) /\ Len(row) = b
    BY <1>5, <1>7, <2>1
  <2> QED BY <2>1, <2>2
<1>9. \A i \in 1..b : a + i - 1 = 2 * (p - 1) + i
  BY <1>2, <1>3
<1> QED BY <1>1, <1>3, <1>5, <1>7, <1>8, <1>9 DEF Strings

\* Without a rest, the quotient gives back the dividend.
LEMMA RowNumber ==
  ASSUME NEW a \in Int, NEW b \in Int, b > 0, a % b = 0
  PROVE  a = (a \div b) * b
BY Z3T(30)

\* More rows are longer.
LEMMA MoreRows ==
  ASSUME NEW m \in Int, NEW n \in Int, NEW b \in Nat, m =< n
  PROVE  m * b =< n * b
BY Z3T(30)

\* Two rows have no byte in common.
LEMMA RowsApart ==
  ASSUME NEW n \in Nat, NEW p \in RowsOf(n), NEW q \in RowsOf(n), p < q
  PROVE  p + RowLen(n, p) =< q
<1>1. p \in Nat \ {0} /\ q \in Nat \ {0} /\ (p - 1) % RowSize = 0 /\ (q - 1) % RowSize = 0
  BY RowLies
<1>2. PICK r \in Nat \ {0} : r = RowSize
  BY Sizes
<1>3. PICK a \in Int : p - 1 = a * r
  <2>1. PICK x \in Int : x = p - 1
    BY <1>1
  <2>2. x = (x \div r) * r
    BY <1>1, <1>2, <2>1, RowNumber
  <2> QED BY <2>1, <2>2
<1>4. PICK b \in Int : q - 1 = b * r
  <2>1. PICK x \in Int : x = q - 1
    BY <1>1
  <2>2. x = (x \div r) * r
    BY <1>1, <1>2, <2>1, RowNumber
  <2> QED BY <2>1, <2>2
<1>5. PICK x \in Int, y \in Int, z \in Int : x = a * r /\ y = b * r /\ z = (a + 1) * r
  OBVIOUS
<1>6. a < b
  <2>1. b =< a => b * r =< a * r
    BY MoreRows
  <2> QED BY <1>1, <1>3, <1>4, <1>5, <2>1
<1>7. z =< y
  <2>1. a + 1 \in Int /\ a + 1 =< b
    BY <1>6
  <2> QED BY <1>5, <2>1, MoreRows
<1>8. z = x + r
  BY <1>5, Z3T(30)
<1>9. RowLen(n, p) \in Nat /\ RowLen(n, p) =< r
  BY <1>2, RowLies
<1> QED BY <1>1, <1>3, <1>4, <1>5, <1>7, <1>8, <1>9

\* A dump shows all of the data.
LEMMA DumpShows ==
  ASSUME NEW n \in Nat, NEW d \in Strings(n, Byte)
  PROVE  Dump(d) \in Strings(2 * n, Place) /\ Shows(Dump(d), {}, d, n)
<1>1. Len(d) = n /\ \A i \in 1..n : d[i] \in Byte
  BY AsSequence
<1>2. ASSUME NEW i \in 1..2 * n
      PROVE  /\ i % 2 = 1 => (i + 1) \div 2 \in 1..n
             /\ i % 2 # 1 => i \div 2 \in 1..n
  OBVIOUS
<1>3. ASSUME NEW b \in Byte PROVE b \div 2 \in 0..1 /\ b % 2 \in 0..1 /\ 2 * (b \div 2) + (b % 2) = b
  BY DEF Byte
<1>4. Dump(d) = [i \in 1..2 * n |-> IF i % 2 = 1 THEN d[(i + 1) \div 2] \div 2 ELSE d[i \div 2] % 2]
  BY <1>1 DEF Dump
<1>5. Dump(d) \in Strings(2 * n, 0..1)
  <2>1. ASSUME NEW i \in 1..2 * n
        PROVE  (IF i % 2 = 1 THEN d[(i + 1) \div 2] \div 2 ELSE d[i \div 2] % 2) \in 0..1
    BY <1>1, <1>2, <1>3
  <2> QED BY <1>4, <2>1 DEF Strings
<1>6. ASSUME NEW k \in 1..n
      PROVE  Dump(d)[2 * k - 1] = d[k] \div 2 /\ Dump(d)[2 * k] = d[k] % 2
  <2>1. /\ 2 * k - 1 \in 1..2 * n /\ (2 * k - 1) % 2 = 1 /\ ((2 * k - 1) + 1) \div 2 = k
        /\ 2 * k \in 1..2 * n /\ (2 * k) % 2 # 1 /\ (2 * k) \div 2 = k
    OBVIOUS
  <2> QED BY <1>4, <2>1
<1>7. Dump(d) \in Strings(2 * n, Place) /\ \A i \in 1..2 * n : Dump(d)[i] \in 0..1
  BY <1>5 DEF Strings, Place
<1>8. PICK text \in Strings(2 * n, Place) :
        /\ text = Dump(d) /\ \A i \in 1..2 * n : text[i] \in 0..1
        /\ \A k \in 1..n : text[2 * k - 1] = d[k] \div 2 /\ text[2 * k] = d[k] % 2
  BY <1>6, <1>7
<1>9. ASSUME NEW p \in RowsOf(n)
      PROVE  ShowsRow(RowOf(text, n, p), RowLen(n, p), d, p, TRUE)
  <2>1. PICK k, row : k = RowLen(n, p) /\ row = RowOf(text, n, p)
    OBVIOUS
  <2>2. k \in Nat /\ p \in 1..n /\ p + k - 1 =< n
    BY <2>1, RowLies
  <2>3. row \in Strings(2 * k, Place) /\ \A i \in 1..2 * k : row[i] = text[2 * (p - 1) + i]
    <3>1. p \in RowsOf(n) /\ n \in Nat /\ text \in Strings(2 * n, Place)
      OBVIOUS
    <3>2. /\ RowOf(text, n, p) \in Strings(2 * RowLen(n, p), Place)
          /\ \A i \in 1..2 * RowLen(n, p) : RowOf(text, n, p)[i] = text[2 * (p - 1) + i]
      BY ONLY <3>1, RowPlaces
    <3> QED BY ONLY <2>1, <3>2
  <2>4. \A i \in 1..2 * k : row[i] # Blank /\ row[i] \in 0..1
    <3>1. \A i \in 1..2 * k : 2 * (p - 1) + i \in 1..2 * n
      BY <2>2
    <3> QED BY <1>8, <2>3, <3>1 DEF Blank
  <2>5. PICK s : s = Digits(row)
    OBVIOUS
  <2>6. s \in Seq(0..1) /\ Len(s) = 2 * k /\ \A i \in 1..2 * k : s[i] = row[i]
    <3>1. 2 * k \in Nat
      BY <2>2
    <3> QED BY <2>3, <2>4, <2>5, <3>1, DigitsAre
  <2>7. Len(HexToData(s)) = k /\ \A i \in 1..k : HexToData(s)[i] = 2 * s[2 * i - 1] + s[2 * i]
    BY <2>2, <2>6, DataOfHex
  <2>8. ASSUME NEW i \in 1..k PROVE d[p + i - 1] = HexToData(s)[i]
    <3>1. /\ 2 * i - 1 \in 1..2 * k /\ 2 * i \in 1..2 * k /\ p + i - 1 \in 1..n
          /\ 2 * (p - 1) + (2 * i - 1) = 2 * (p + i - 1) - 1 /\ 2 * (p - 1) + 2 * i = 2 * (p + i - 1)
      BY <2>2
    <3>2. /\ s[2 * i - 1] = text[2 * (p + i - 1) - 1]
          /\ s[2 * i] = text[2 * (p + i - 1)]
      BY <2>3, <2>6, <3>1
    <3>3. s[2 * i - 1] = d[p + i - 1] \div 2 /\ s[2 * i] = d[p + i - 1] % 2
      BY <1>8, <3>1, <3>2
    <3>4. PICK b \in Byte : b = d[p + i - 1]
      BY <1>1, <3>1
    <3>5. HexToData(s)[i] = 2 * (b \div 2) + (b % 2)
      BY <2>7, <3>3, <3>4
    <3> QED BY <1>3, <3>4, <3>5
  <2> QED BY <2>1, <2>2, <2>5, <2>7, <2>8 DEF ShowsRow, Begins
<1> QED BY <1>7, <1>8, <1>9 DEF Shows, ShowsRow

\* The text with a row typed over.
TextWith(text, p, typed) == [i \in DOMAIN text |-> IF i - 2 * (p - 1) \in DOMAIN typed THEN typed[i - 2 * (p - 1)] ELSE text[i]]

\* The row is what was typed, and the other rows are as they were.
LEMMA RowsWith ==
  ASSUME NEW n \in Nat, NEW text \in Strings(2 * n, Place), NEW p \in RowsOf(n),
         NEW typed \in Strings(2 * RowLen(n, p), Place)
  PROVE  /\ TextWith(text, p, typed) \in Strings(2 * n, Place)
         /\ RowOf(TextWith(text, p, typed), n, p) = typed
         /\ \A q \in RowsOf(n) : q # p => RowOf(TextWith(text, p, typed), n, q) = RowOf(text, n, q)
<1>1. PICK k \in Nat : k = RowLen(n, p) /\ p \in 1..n /\ p + k - 1 =< n
  BY RowLies
<1>2. DOMAIN typed = 1..2 * k /\ DOMAIN text = 1..2 * n /\ typed \in [1..2 * k -> Place]
  BY <1>1 DEF Strings
<1>3. PICK text2 : text2 = TextWith(text, p, typed)
  OBVIOUS
<1>4. text2 = [i \in 1..2 * n |-> IF i - 2 * (p - 1) \in 1..2 * k THEN typed[i - 2 * (p - 1)] ELSE text[i]]
  BY <1>2, <1>3 DEF TextWith
<1>5. text2 \in Strings(2 * n, Place)
  BY <1>2, <1>4 DEF Strings
<1>6. ASSUME NEW q \in RowsOf(n)
      PROVE  /\ RowOf(text2, n, q) \in [1..2 * RowLen(n, q) -> Place]
             /\ RowOf(text, n, q) \in [1..2 * RowLen(n, q) -> Place]
             /\ \A i \in 1..2 * RowLen(n, q) : /\ RowOf(text2, n, q)[i] = text2[2 * (q - 1) + i]
                                               /\ RowOf(text, n, q)[i] = text[2 * (q - 1) + i]
  <2>1. n \in Nat /\ text \in Strings(2 * n, Place) /\ q \in RowsOf(n)
    OBVIOUS
  <2>2. /\ RowOf(text2, n, q) \in Strings(2 * RowLen(n, q), Place)
        /\ \A i \in 1..2 * RowLen(n, q) : RowOf(text2, n, q)[i] = text2[2 * (q - 1) + i]
    BY ONLY <1>5, <2>1, RowPlaces
  <2>3. /\ RowOf(text, n, q) \in Strings(2 * RowLen(n, q), Place)
        /\ \A i \in 1..2 * RowLen(n, q) : RowOf(text, n, q)[i] = text[2 * (q - 1) + i]
    BY ONLY <2>1, RowPlaces
  <2> QED BY ONLY <2>2, <2>3 DEF Strings
<1>7. RowOf(text2, n, p) = typed
  <2>1. PICK row \in [1..2 * k -> Place] :
          row = RowOf(text2, n, p) /\ \A i \in 1..2 * k : row[i] = text2[2 * (p - 1) + i]
    BY <1>1, <1>6
  <2>2. ASSUME NEW i \in 1..2 * k PROVE row[i] = typed[i]
    <3>1. PICK j : j = 2 * (p - 1) + i
      OBVIOUS
    <3>2. j \in 1..2 * n /\ j - 2 * (p - 1) = i
      BY <1>1, <3>1
    <3> QED BY <1>4, <2>1, <3>1, <3>2
  <2>3. row = [i \in 1..2 * k |-> row[i]] /\ typed = [i \in 1..2 * k |-> typed[i]]
    BY <1>2
  <2>4. [i \in 1..2 * k |-> row[i]] = [i \in 1..2 * k |-> typed[i]]
    BY ONLY <2>2
  <2> QED BY ONLY <2>1, <2>3, <2>4
<1>8. ASSUME NEW q \in RowsOf(n), q # p PROVE RowOf(text2, n, q) = RowOf(text, n, q)
  <2>1. PICK l \in Nat : l = RowLen(n, q) /\ q \in 1..n /\ q + l - 1 =< n
    BY RowLies
  <2>2. q + l =< p \/ p + k =< q
    <3>1. CASE q < p
      <4>1. q + RowLen(n, q) =< p
        BY <3>1, RowsApart
      <4> QED BY <2>1, <4>1
    <3>2. CASE p < q
      <4>1. p + RowLen(n, p) =< q
        BY <3>2, RowsApart
      <4> QED BY <1>1, <4>1
    <3> QED BY <1>1, <1>8, <2>1, <3>1, <3>2
  <2>3. PICK row2 \in [1..2 * l -> Place], row1 \in [1..2 * l -> Place] :
          /\ row2 = RowOf(text2, n, q) /\ row1 = RowOf(text, n, q)
          /\ \A i \in 1..2 * l : row2[i] = text2[2 * (q - 1) + i] /\ row1[i] = text[2 * (q - 1) + i]
    BY <1>6, <2>1
  <2>4. ASSUME NEW i \in 1..2 * l PROVE row2[i] = row1[i]
    <3>1. PICK j \in Int, x \in Int : j = 2 * (q - 1) + i /\ x = j - 2 * (p - 1)
      BY <1>1, <2>1
    <3>2. j \in 1..2 * n
      BY <2>1, <3>1
    <3>3. ~(x \in 1..2 * k)
      <4>1. CASE q + l =< p
        <5>1. x =< 0
          BY <1>1, <2>1, <3>1, <4>1
        <5> QED BY <5>1
      <4>2. CASE p + k =< q
        <5>1. x > 2 * k
          BY <1>1, <2>1, <3>1, <4>2
        <5> QED BY <5>1
      <4> QED BY <2>2, <4>1, <4>2
    <3> QED BY <1>4, <2>3, <3>1, <3>2, <3>3
  <2>5. row2 = [i \in 1..2 * l |-> row2[i]] /\ row1 = [i \in 1..2 * l |-> row1[i]]
    OBVIOUS
  <2>6. [i \in 1..2 * l |-> row2[i]] = [i \in 1..2 * l |-> row1[i]]
    BY ONLY <2>4
  <2> QED BY ONLY <2>3, <2>5, <2>6
<1> QED BY <1>3, <1>5, <1>7, <1>8

\* OK leaves the rows showing the data if they did, whatever is missing in this
\* one: the bytes that its digits make are those that are written.
LEMMA RowShown ==
  ASSUME NEW n \in Nat, NEW d \in Strings(n, Byte), NEW text \in Strings(2 * n, Place), NEW edited,
         NEW p \in RowsOf(n), NEW typed \in Strings(2 * RowLen(n, p), Place)
  PROVE  LET d2 == Written(d, p, HexToData(Digits(typed)))
             text2 == TextWith(text, p, typed) IN
         /\ d2 \in Strings(n, Byte) /\ text2 \in Strings(2 * n, Place)
         /\ Shows(text, edited, d, n) => Shows(text2, edited \union {p}, d2, n)
<1>1. PICK k \in Nat : k = RowLen(n, p) /\ p \in 1..n /\ p + k - 1 =< n
  BY RowLies
<1>2. PICK b : b = HexToData(Digits(typed))
  OBVIOUS
<1>3. b \in Seq(Byte) /\ Len(b) \in Nat /\ Len(b) =< k
  <2>1. 2 * k \in Nat /\ typed \in Strings(2 * k, Place)
    BY <1>1
  <2>2. Digits(typed) \in Seq(0..1) /\ Len(Digits(typed)) =< 2 * k
    BY <2>1, DigitsAre
  <2> QED BY <1>2, <2>2, DataOfHex
<1>4. Fits(p, Len(b), n)
  BY <1>1, <1>3 DEF Fits
<1>5. PICK d2 : d2 = Written(d, p, b)
  OBVIOUS
<1>6. /\ d2 \in Strings(n, Byte)
      /\ \A i \in 1..Len(b) : d2[p + i - 1] = b[i]
      /\ \A i \in 1..n : i < p \/ i >= p + Len(b) => d2[i] = d[i]
  <2>1. d \in Strings(n, Byte)
    OBVIOUS
  <2>2. /\ Written(d, p, b) \in Strings(n, Byte)
        /\ \A i \in 1..Len(b) : Written(d, p, b)[p + i - 1] = b[i]
        /\ \A i \in 1..n : i < p \/ i >= p + Len(b) => Written(d, p, b)[i] = d[i]
    <3>1. PICK x : x = p
      OBVIOUS
    <3>2. d \in Strings(n, Byte) /\ b \in Seq(Byte) /\ Fits(x, Len(b), n)
      BY <1>3, <1>4, <2>1, <3>1
    <3>3. /\ Written(d, x, b) \in Strings(n, Byte)
          /\ \A i \in 1..Len(b) : Written(d, x, b)[x + i - 1] = b[i]
          /\ \A i \in 1..n : i < x \/ i >= x + Len(b) => Written(d, x, b)[i] = d[i]
      BY ONLY <3>2, WrittenIs
    <3> QED BY <3>1, <3>3
  <2> QED BY <1>5, <2>2
<1>7. PICK text2 : text2 = TextWith(text, p, typed)
  OBVIOUS
<1>8. /\ text2 \in Strings(2 * n, Place) /\ RowOf(text2, n, p) = typed
      /\ \A q \in RowsOf(n) : q # p => RowOf(text2, n, q) = RowOf(text, n, q)
  BY <1>7, RowsWith
<1>9. ASSUME Shows(text, edited, d, n), NEW q \in RowsOf(n)
      PROVE  ShowsRow(RowOf(text2, n, q), RowLen(n, q), d2, q, q \notin edited \union {p})
  <2>1. CASE q = p
    BY <1>1, <1>2, <1>3, <1>6, <1>8, <2>1 DEF ShowsRow, Begins
  <2>2. CASE q # p
    <3>1. ShowsRow(RowOf(text, n, q), RowLen(n, q), d, q, q \notin edited)
      BY <1>9 DEF Shows
    <3>2. PICK l \in Nat : l = RowLen(n, q) /\ q \in 1..n /\ q + l - 1 =< n
      BY RowLies
    <3>3. q + l =< p \/ p + k =< q
      <4>1. CASE q < p
        <5>1. q + RowLen(n, q) =< p
          BY <4>1, RowsApart
        <5> QED BY <3>2, <5>1
      <4>2. CASE p < q
        <5>1. p + RowLen(n, p) =< q
          BY <4>2, RowsApart
        <5> QED BY <1>1, <5>1
      <4> QED BY <1>1, <2>2, <3>2, <4>1, <4>2
    <3>4. PICK shown : shown = HexToData(Digits(RowOf(text, n, q)))
      OBVIOUS
    <3>5. Len(shown) =< l /\ Begins(shown, d, q) /\ (q \notin edited => Len(shown) = l)
      BY <3>1, <3>2, <3>4 DEF ShowsRow
    <3>6. Len(shown) \in Nat
      <4>1. RowOf(text, n, q) \in Strings(2 * l, Place) /\ 2 * l \in Nat
        <5>1. RowOf(text, n, q) \in Strings(2 * RowLen(n, q), Place)
          BY RowPlaces
        <5> QED BY <3>2, <5>1
      <4>2. Digits(RowOf(text, n, q)) \in Seq(0..1)
        BY <4>1, DigitsAre
      <4>3. shown \in Seq(Byte)
        BY <3>4, <4>2, DataOfHex
      <4> QED BY <4>3
    <3>7. Begins(shown, d2, q)
      <4>1. ASSUME NEW i \in 1..Len(shown) PROVE d2[q + i - 1] = shown[i]
        <5>0. PICK c \in Nat, m \in Nat : c = Len(b) /\ m = Len(shown) /\ c =< k /\ m =< l /\ i \in 1..m
          BY <1>3, <3>5, <3>6
        <5>1. q + i - 1 \in 1..n /\ (q + i - 1 < p \/ q + i - 1 >= p + Len(b))
          <6>1. p \in Nat /\ q \in Nat /\ i \in Nat /\ i > 0 /\ i =< l /\ q > 0 /\ q + l - 1 =< n
            BY <1>1, <3>2, <5>0
          <6>2. q + i - 1 \in 1..n
            BY ONLY <6>1, n \in Nat, l \in Nat
          <6>3. q + i - 1 < p \/ q + i - 1 >= p + c
            BY ONLY <6>1, <3>3, <5>0, l \in Nat, k \in Nat
          <6> QED BY <5>0, <6>2, <6>3
        <5>2. d2[q + i - 1] = d[q + i - 1]
          BY <1>6, <5>1
        <5> QED BY <3>5, <5>2 DEF Begins
      <4> QED BY <4>1 DEF Begins
    <3>8. RowOf(text2, n, q) = RowOf(text, n, q)
      BY <1>8, <2>2
    <3> QED BY <2>2, <3>2, <3>4, <3>5, <3>7, <3>8 DEF ShowsRow
  <2> QED BY <2>1, <2>2
<1>10. Shows(text, edited, d, n) => Shows(text2, edited \union {p}, d2, n)
  BY <1>9 DEF Shows
<1> QED BY <1>2, <1>5, <1>6, <1>7, <1>8, <1>10

-----------------------------------------------------------------------------
(***************************************************************************)
(* Parts of the invariant that a step leaves alone                         *)
(***************************************************************************)

\* The fields of the editors.
LEMMA Fields ==
  ASSUME TypeOK
  PROVE  /\ hex.stamp \in AnyStamp /\ hex.dirty \in BOOLEAN /\ hex.text \in Texts \union {<<>>} /\ hex.edited \in SUBSET Nat
         /\ loading.state \in {"no", "delayed", "waiting"} /\ loading.dump \in Contents \union {<<>>}
         /\ code.stamp \in AnyStamp /\ code.dirty \in BOOLEAN /\ code.rows \in SUBSET RowSet
         /\ code.button \in BOOLEAN /\ code.stale \in BOOLEAN
         /\ versions.stamp \in AnyStamp /\ versions.read \in [1..2 -> Minors] \union {<<>>}
         /\ versions.spin \in [1..2 -> SpinRange] \union {<<>>}
BY DEF TypeOK, HexState, LoadingState, CodeState, VersionsState

\* What a section may hold, as a function.
LEMMA ContentsAre ==
  ASSUME TypeOK, NEW d \in Contents
  PROVE  /\ d # <<>>
         /\ kind = "code" => d \in CodeContents
         /\ kind # "code" => d \in Strings(2, Byte)
<1>1. kind = "code" => d \in CodeContents /\ d # <<>>
  <2>1. CodeContents = [1..Size -> Byte] /\ 1 \in 1..Size
    BY Sizes DEF CodeContents, Strings
  <2>2. d \in CodeContents => DOMAIN d # {}
    BY <2>1
  <2> QED BY <2>2 DEF Contents
<1>2. kind # "code" => d \in Strings(2, Byte) /\ d # <<>>
  <2>1. d \in Strings(2, Byte) => DOMAIN d # {}
    BY DEF Strings
  <2> QED BY <2>1 DEF Contents
<1> QED BY <1>1, <1>2

\* What the hex editor shows has two places for every byte.
LEMMA Widths ==
  ASSUME TypeOK
  PROVE  \E n \in Nat : /\ n > 0 /\ Contents = Strings(n, Byte) /\ Texts = Strings(2 * n, Place)
                        /\ \A t \in Texts : t # << >>
<1>1. kind = "code" => Size > 0 /\ Contents = Strings(Size, Byte) /\ Texts = Strings(2 * Size, Place)
  BY Sizes DEF Contents, CodeContents, Texts, CodeTexts
<1>2. kind # "code" => Contents = Strings(2, Byte) /\ Texts = Strings(2 * 2, Place)
  <2>1. 2 * 2 = 4
    OBVIOUS
  <2> QED BY <2>1 DEF Contents, Texts
<1>3. PICK n \in Nat : n > 0 /\ Contents = Strings(n, Byte) /\ Texts = Strings(2 * n, Place)
  <2>1. 2 > 0 /\ 2 \in Nat /\ Size \in Nat
    BY Sizes
  <2> QED BY <1>1, <1>2, <2>1
<1>4. ASSUME NEW t \in Texts PROVE t # << >>
  <2>1. 1 \in DOMAIN t
    BY <1>3 DEF Strings
  <2> QED BY ONLY <2>1
<1> QED BY <1>3, <1>4

\* The kind of the section stays, and with it what it may hold.
LEMMA KindStays ==
  ASSUME kind' = kind
  PROVE  Contents' = Contents /\ HexState' = HexState /\ LoadingState' = LoadingState
<1>1. Contents' = Contents /\ Texts' = Texts
  BY DEF Contents, Texts
<1> QED BY <1>1 DEF HexState, LoadingState

LEMMA NextTypeOK ==
  ASSUME kind' = kind, kind \in {"code", "versions"}, data' \in Contents, touched' \in BOOLEAN,
         open' \in {"none", "hex", "code", "versions"},
         hex' \in HexState, loading' \in LoadingState, raced' \in BOOLEAN, code' \in CodeState,
         RowsOK(code'.rows), RowsOK(disasm'), versions' \in VersionsState,
         versions'.read = <<>> <=> versions'.spin = <<>>
  PROVE  TypeOK'
BY KindStays DEF TypeOK, RowsOK

\* updateDisassembly.
LEMMA Disassembled ==
  ASSUME TypeOK, UpdateDisassembly(data)
  PROVE  /\ RowsOK(disasm')
         /\ kind = "code" /\ Decodable(data) => disasm' = Instructions(data) /\ Matches(disasm', data)
<1>1. CASE kind = "code" /\ Decodable(data)
  <2>1. data \in CodeContents
    BY <1>1 DEF TypeOK, Contents
  <2>2. disasm' = Instructions(data)
    BY <1>1 DEF UpdateDisassembly
  <2> QED BY <2>1, <2>2, InstructionsOK
<1>2. CASE ~(kind = "code" /\ Decodable(data))
  BY <1>2 DEF UpdateDisassembly, TypeOK
<1> QED BY <1>1, <1>2

\* The hex editor is not concerned.
LEMMA HexSame ==
  ASSUME EInv, kind' = kind, data' = data, touched' = touched,
         hex' = hex, loading' = loading, raced' = raced, open' = "hex" => open = "hex"
  PROVE  HexInv'
<1>1. Contents' = Contents
  BY KindStays
<1> QED BY <1>1 DEF EInv, HexInv, NotLoading

\* The disassembly editor is not concerned.
LEMMA CodeSame ==
  ASSUME EInv, kind' = kind, data' = data, touched' = touched, code' = code, open' = "code" => open = "code"
  PROVE  CodeInv'
BY DEF EInv, CodeInv, Matches

\* The disassembly stays as it is.
LEMMA DisasmSame ==
  ASSUME EInv, kind' = kind, data' = data, touched' = touched, disasm' = disasm,
         hex'.dirty = hex.dirty, code'.dirty = code.dirty,
         open = "hex" => open' = "hex", open = "code" => open' = "code"
  PROVE  DisasmInv'
BY DEF EInv, DisasmInv, Decodable

\* The main view stays as it is, while an editor is opened, used, or closed with
\* the section as it was.
LEMMA MainSame ==
  ASSUME EInv, kind' = kind, main' = main, declined' = declined,
         \/ open' = open /\ open # "none" /\ prior' = prior
         \/ open = "none" /\ open' # "none" /\ prior' = data
         \/ open # "none" /\ open' = "none" /\ data' = prior
  PROVE  MainInv'
BY DEF EInv, MainInv, UpToDate, Fresh, Decodable

-----------------------------------------------------------------------------
(***************************************************************************)
(* The steps of the hex editor                                             *)
(***************************************************************************)

\* The hex editor is opened for the first time.
LEMMA OpenHexFirstStep == ASSUME EInv, OpenHexFirst PROVE EInv'
<1>1. /\ hex.text = <<>> /\ open = "none" /\ open' = "hex" /\ prior' = data
      /\ loading' = [state |-> "delayed", dump |-> <<>>]
      /\ kind' = kind /\ data' = data /\ touched' = touched /\ disasm' = disasm
      /\ hex' = hex /\ raced' = raced /\ code' = code /\ versions' = versions
      /\ main' = main /\ declined' = declined
  BY DEF OpenHexFirst, Open, section
<1>2. TypeOK /\ OpenInv /\ HexInv /\ CodeInv /\ DisasmInv /\ MainInv
  BY DEF EInv
<1>3. TypeOK'
  <2>1. loading' \in LoadingState
    BY <1>1 DEF LoadingState
  <2> QED BY <1>1, <1>2, <2>1, NextTypeOK DEF TypeOK
<1>4. Contents' = Contents
  BY <1>1, KindStays
<1>5. OpenInv'
  BY <1>1, <1>2, <1>4 DEF OpenInv, TypeOK, NotLoading
<1>6. HexInv'
  BY <1>1, <1>4 DEF HexInv
<1>7. CodeInv' /\ DisasmInv' /\ MainInv'
  BY <1>1, CodeSame, DisasmSame, MainSame
<1> QED BY <1>3, <1>5, <1>6, <1>7 DEF EInv

\* It is opened again: it makes a new dump if the section was changed elsewhere.
LEMMA OpenHexAgainStep == ASSUME EInv, OpenHexAgain PROVE EInv'
<1>1. /\ hex.text # <<>> /\ open = "none" /\ open' = "hex" /\ prior' = data
      /\ kind' = kind /\ data' = data /\ touched' = touched
      /\ code' = code /\ versions' = versions /\ main' = main /\ declined' = declined
  BY DEF OpenHexAgain, Open
<1>2. TypeOK /\ OpenInv /\ HexInv /\ CodeInv /\ DisasmInv /\ MainInv
  BY DEF EInv
<1>3. Contents' = Contents /\ HexState' = HexState /\ LoadingState' = LoadingState
  BY <1>1, KindStays
<1>4. CodeInv' /\ MainInv'
  BY <1>1, CodeSame, MainSame
<1>5. loading = NotLoading
  BY <1>1, <1>2 DEF OpenInv
<1>6. CASE Outdated(hex)
  <2>1. /\ hex' = [hex EXCEPT !.stamp = "same", !.dirty = TRUE]
        /\ UpdateDisassembly(data)
        /\ loading' = [state |-> "waiting", dump |-> data]
        /\ raced' = FALSE
    BY <1>6 DEF OpenHexAgain
  <2>2. touched
    BY <1>6 DEF Outdated
  <2>3. hex' \in HexState /\ hex'.dirty = TRUE /\ hex'.text = hex.text /\ hex'.edited = hex.edited
    BY <1>2, <2>1 DEF TypeOK, HexState, AnyStamp
  <2>4. loading' \in LoadingState
    BY <1>2, <2>1 DEF TypeOK, LoadingState
  <2>5. RowsOK(disasm')
    BY <1>2, <2>1, Disassembled
  <2>6. TypeOK'
    BY <1>1, <1>2, <2>1, <2>3, <2>4, <2>5, NextTypeOK DEF TypeOK
  <2>7. OpenInv'
    BY <1>1, <1>2, <1>3, <2>1 DEF OpenInv, TypeOK, NotLoading
  <2>8. HexInv'
    BY <1>1, <1>2, <1>3, <2>1 DEF HexInv, TypeOK, NotLoading
  <2>9. DisasmInv'
    BY <1>1, <1>2, <2>2, <2>3 DEF DisasmInv
  <2> QED BY <1>4, <2>6, <2>7, <2>8, <2>9 DEF EInv
<1>7. CASE ~Outdated(hex)
  <2>1. hex' = hex /\ disasm' = disasm /\ loading' = loading /\ raced' = raced
    BY <1>7 DEF OpenHexAgain
  <2>2. TypeOK'
    BY <1>1, <1>2, <2>1, NextTypeOK DEF TypeOK
  <2>3. OpenInv'
    BY <1>1, <1>2, <1>3, <1>5, <2>1 DEF OpenInv, TypeOK, NotLoading
  <2>4. ~touched \/ hex.stamp = "same"
    BY <1>7 DEF Outdated
  <2>5. HexInv'
    BY <1>1, <1>2, <1>3, <1>5, <2>1, <2>4 DEF HexInv, NotLoading
  <2>6. DisasmInv'
    BY <1>1, <2>1, DisasmSame
  <2> QED BY <1>4, <2>2, <2>3, <2>5, <2>6 DEF EInv
<1> QED BY <1>6, <1>7

\* The tasks of the encoder start with the data as it is.
LEMMA StartDecodeStep == ASSUME EInv, StartDecode PROVE EInv'
<1>1. /\ open = "hex" /\ open' = open /\ prior' = prior
      /\ loading' = [state |-> "waiting", dump |-> data]
      /\ kind' = kind /\ data' = data /\ touched' = touched /\ disasm' = disasm
      /\ hex' = hex /\ raced' = raced /\ code' = code /\ versions' = versions
      /\ main' = main /\ declined' = declined
  BY DEF StartDecode, WhileOpen, section
<1>2. TypeOK /\ OpenInv /\ HexInv /\ CodeInv /\ DisasmInv /\ MainInv
  BY DEF EInv
<1>3. TypeOK'
  <2>1. loading' \in LoadingState
    BY <1>1, <1>2 DEF TypeOK, LoadingState
  <2> QED BY <1>1, <1>2, <2>1, NextTypeOK DEF TypeOK
<1>4. Contents' = Contents
  BY <1>1, KindStays
<1>5. OpenInv'
  BY <1>1, <1>2, <1>4 DEF OpenInv, NotLoading
<1>6. HexInv'
  BY <1>1, <1>2, <1>4 DEF HexInv, TypeOK, NotLoading
<1>7. CodeInv' /\ DisasmInv' /\ MainInv'
  BY <1>1, CodeSame, DisasmSame, MainSame
<1> QED BY <1>3, <1>5, <1>6, <1>7 DEF EInv

\* Their dump becomes the text.
LEMMA FinishDecodeStep == ASSUME EInv, FinishDecode PROVE EInv'
<1>1. /\ open = "hex" /\ open' = open /\ prior' = prior /\ loading.state = "waiting"
      /\ hex' = [hex EXCEPT !.text = Dump(loading.dump), !.edited = {}] /\ loading' = NotLoading
      /\ kind' = kind /\ data' = data /\ touched' = touched /\ disasm' = disasm
      /\ raced' = raced /\ code' = code /\ versions' = versions
      /\ main' = main /\ declined' = declined
  BY DEF FinishDecode, WhileOpen, section
<1>2. TypeOK /\ OpenInv /\ HexInv /\ CodeInv /\ DisasmInv /\ MainInv
  BY DEF EInv
<1>3. loading.dump \in Contents /\ loading.dump # <<>>
  BY <1>1, <1>2, ContentsAre DEF HexInv
<1>4. PICK n \in Nat : /\ Contents = Strings(n, Byte) /\ Texts = Strings(2 * n, Place)
                       /\ \A t \in Texts : t # << >>
  BY <1>2, Widths
<1>5. Dump(loading.dump) \in Texts /\ Shows(Dump(loading.dump), {}, loading.dump, n) /\ Len(loading.dump) = n
  BY <1>3, <1>4, DumpShows, AsSequence
<1>6. /\ hex' \in HexState /\ hex'.text = Dump(loading.dump) /\ hex'.edited = {} /\ hex'.dirty = hex.dirty
       /\ hex'.text # << >>
  BY <1>1, <1>2, <1>4, <1>5 DEF TypeOK, HexState
<1>7. TypeOK'
  <2>1. loading' \in LoadingState
    BY <1>1 DEF LoadingState, NotLoading
  <2> QED BY <1>1, <1>2, <1>6, <2>1, NextTypeOK DEF TypeOK
<1>8. Contents' = Contents
  BY <1>1, KindStays
<1>9. OpenInv'
  BY <1>1, <1>2, <1>8, <1>6 DEF OpenInv, NotLoading
<1>10. HexInv'
  <2>1. ~raced => loading.dump = data
    BY <1>1, <1>2 DEF HexInv
  <2>2. ~raced' => Shows(hex'.text, hex'.edited, data', Len(data'))
    BY <1>1, <1>5, <1>6, <2>1
  <2> QED BY <1>1, <2>2 DEF HexInv, NotLoading
<1>11. CodeInv' /\ DisasmInv' /\ MainInv'
  BY <1>1, <1>6, CodeSame, DisasmSame, MainSame
<1> QED BY <1>7, <1>9, <1>10, <1>11 DEF EInv

\* A row of the hex editor is edited.
LEMMA EditRowStep == ASSUME EInv, EditRow PROVE EInv'
<1>1. /\ open = "hex" /\ open' = open /\ prior' = prior /\ hex.text # << >>
      /\ kind' = kind /\ touched' = TRUE /\ disasm' = disasm
      /\ code' = Aged(code) /\ versions' = Aged(versions)
      /\ raced' = (raced \/ loading # NotLoading) /\ loading' = loading
      /\ main' = main /\ declined' = declined
  BY DEF EditRow, WhileOpen, SetSubData
<1>2. TypeOK /\ OpenInv /\ HexInv /\ CodeInv /\ DisasmInv /\ MainInv
  BY DEF EInv
<1>3. PICK n \in Nat : /\ Contents = Strings(n, Byte) /\ Texts = Strings(2 * n, Place)
                       /\ \A t \in Texts : t # << >>
  BY <1>2, Widths
<1>4. PICK text \in Strings(2 * n, Place), d \in Strings(n, Byte) : text = hex.text /\ d = data
  BY <1>1, <1>2, <1>3 DEF TypeOK, HexState
<1>5. Len(data) = n /\ DOMAIN data = 1..n
  BY <1>4, AsSequence
<1>6. Rows = RowsOf(n) /\ \A p \in Rows : RowLength(p) = RowLen(n, p)
  BY <1>5 DEF Rows, RowsOf, RowLength, RowLen
<1>7. PICK p \in Rows, stamp \in Stamps :
        \E offered \in Offered(RowText(p), p \in hex.edited) : \E typed \in Typed(RowLength(p), offered) :
          /\ SetSubData(p, HexToData(Digits(typed)))
          /\ hex' = [text |-> [i \in DOMAIN hex.text |-> IF i - 2 * (p - 1) \in DOMAIN typed
                                                         THEN typed[i - 2 * (p - 1)] ELSE hex.text[i]],
                     edited |-> hex.edited \union {p}, stamp |-> stamp, dirty |-> TRUE]
  BY DEF EditRow
<1>8. PICK typed \in [1..2 * RowLength(p) -> Place] :
        /\ SetSubData(p, HexToData(Digits(typed)))
        /\ hex' = [text |-> [i \in DOMAIN hex.text |-> IF i - 2 * (p - 1) \in DOMAIN typed
                                                       THEN typed[i - 2 * (p - 1)] ELSE hex.text[i]],
                   edited |-> hex.edited \union {p}, stamp |-> stamp, dirty |-> TRUE]
  BY <1>7 DEF Typed
<1>9. p \in RowsOf(n) /\ p \in Nat /\ typed \in Strings(2 * RowLen(n, p), Place)
  BY <1>6 DEF Strings, RowsOf
<1>10. PICK b : b = HexToData(Digits(typed))
  OBVIOUS
<1>11. /\ data' = Written(d, p, b)
       /\ hex' = [text |-> TextWith(text, p, typed), edited |-> hex.edited \union {p}, stamp |-> stamp, dirty |-> TRUE]
  BY <1>4, <1>8, <1>10 DEF SetSubData, Written, TextWith
<1>12. PICK edited : edited = hex.edited /\ edited \in SUBSET Nat
  BY <1>2 DEF TypeOK, HexState
<1>13. /\ Written(d, p, b) \in Strings(n, Byte) /\ TextWith(text, p, typed) \in Strings(2 * n, Place)
       /\ Shows(text, edited, d, n) => Shows(TextWith(text, p, typed), edited \union {p}, Written(d, p, b), n)
  BY <1>9, <1>10, RowShown
<1>14. /\ data' \in Contents /\ Len(data') = n
       /\ hex'.text \in Texts /\ hex'.text # << >> /\ hex'.edited = edited \union {p}
       /\ hex'.dirty = TRUE /\ hex'.stamp \in AnyStamp
       /\ Shows(text, edited, d, n) => Shows(hex'.text, hex'.edited, data', n)
  <2>1. data' \in Strings(n, Byte) /\ Len(data') = n
    BY <1>11, <1>13, AsSequence
  <2>2. hex'.text = TextWith(text, p, typed) /\ hex'.edited = edited \union {p}
    BY <1>11, <1>12
  <2>3. hex'.dirty = TRUE /\ hex'.stamp \in AnyStamp
    BY <1>11 DEF Stamps, AnyStamp
  <2> QED BY <1>3, <1>11, <1>13, <2>1, <2>2, <2>3
<1>15. hex' \in HexState
  BY <1>9, <1>11, <1>12, <1>14 DEF HexState
<1>16. /\ code' \in CodeState /\ code'.rows = code.rows /\ code'.dirty = code.dirty /\ code'.stale = code.stale
       /\ code'.stamp # "same"
  BY <1>1, <1>2 DEF TypeOK, CodeState, Aged, AnyStamp
<1>17. /\ versions' \in VersionsState /\ versions'.read = versions.read /\ versions'.spin = versions.spin
  BY <1>1, <1>2 DEF TypeOK, VersionsState, Aged, AnyStamp
<1>18. TypeOK'
  <2>1. raced' \in BOOLEAN
    BY <1>1
  <2> QED BY <1>1, <1>2, <1>14, <1>15, <1>16, <1>17, <2>1, NextTypeOK DEF TypeOK
<1>19. Contents' = Contents
  BY <1>1, KindStays
<1>20. OpenInv'
  BY <1>1, <1>2, <1>14, <1>19 DEF OpenInv
<1>21. HexInv'
  <2>1. loading = NotLoading /\ ~raced => Shows(hex'.text, hex'.edited, data', Len(data'))
    <3>1. loading = NotLoading /\ ~raced => Shows(text, edited, d, n)
      BY <1>1, <1>2, <1>4, <1>5, <1>12 DEF HexInv
    <3> QED BY <1>14, <3>1
  <2>2. ~raced' => loading = NotLoading /\ ~raced
    BY <1>1
  <2>3. loading.state = "waiting" => loading.dump \in Contents /\ loading # NotLoading
    BY <1>2 DEF HexInv, NotLoading
  <2>4. (hex.text # << >> /\ ~raced /\ loading = NotLoading /\ (~touched \/ hex.stamp = "same" \/ open = "hex") =>
           Shows(hex.text, hex.edited, data, Len(data)))'
    BY <1>1, <2>1, <2>2
  <2>5. (loading.state = "waiting" => loading.dump \in Contents /\ (~raced => loading.dump = data))'
    BY <1>1, <1>19, <2>2, <2>3
  <2> QED BY <2>4, <2>5 DEF HexInv
<1>22. CodeInv'
  BY <1>1, <1>2, <1>16 DEF CodeInv, Matches
<1>23. DisasmInv'
  BY <1>1, <1>2, <1>14, <1>16 DEF DisasmInv
<1>24. MainInv'
  BY <1>1, MainSame
<1> QED BY <1>18, <1>20, <1>21, <1>22, <1>23, <1>24 DEF EInv

\* What closing an editor of bytes or instructions does, up to its own state.
LEMMA Closed ==
  ASSUME EInv, NEW e, open \in {"hex", "code"}, Done(e), NEW changed \in MayHaveChanged, Close(changed),
         touched /\ kind = "code" /\ Decodable(data) => e.dirty \/ disasm = Instructions(data),
         kind = "code" /\ Decodable(data) /\ ~touched => disasm = Instructions(data)
  PROVE  /\ open' = "none" /\ kind' = kind /\ data' = data /\ touched' = touched
         /\ RowsOK(disasm')
         /\ kind = "code" /\ Decodable(data) => disasm' = Instructions(data)
         /\ MainInv'
<1>1. /\ open' = "none" /\ kind' = kind /\ data' = data /\ touched' = touched /\ CheckModified(changed)
  BY DEF Close
<1>2. TypeOK /\ MainInv
  BY DEF EInv
<1>3. /\ RowsOK(disasm')
      /\ kind = "code" /\ Decodable(data) => disasm' = Instructions(data)
  <2>1. CASE touched /\ e.dirty
    BY <1>2, <2>1, Disassembled DEF Done
  <2>2. CASE ~(touched /\ e.dirty)
    BY <1>2, <2>2 DEF Done, TypeOK
  <2> QED BY <2>1, <2>2
<1>4. UpToDate(prior)
  BY <1>2 DEF MainInv
<1>5. MainInv'
  <2>1. CASE ~changed
    <3>1. data = prior /\ main' = main /\ declined' = declined
      BY <1>1, <2>1 DEF CheckModified, MayHaveChanged
    <3> QED BY <1>1, <3>1, MainSame
  <2>2. CASE changed /\ main' = Shown(data, disasm') /\ declined' = FALSE
    BY <1>1, <1>3, <2>2 DEF MainInv, UpToDate, Fresh, Shown, Decodable
  <2>3. CASE changed /\ declined' = TRUE
    BY <1>1, <2>3 DEF MainInv, UpToDate
  <2> QED BY <1>1, <2>1, <2>2, <2>3 DEF CheckModified
<1> QED BY <1>1, <1>3, <1>5

\* The hex editor is closed.
LEMMA CloseHexStep == ASSUME EInv, CloseHex PROVE EInv'
<1>1. /\ open = "hex" /\ loading = NotLoading /\ Done(hex)
      /\ hex' = [hex EXCEPT !.dirty = FALSE] /\ \E changed \in MayHaveChanged : Close(changed)
      /\ loading' = loading /\ raced' = raced /\ code' = code /\ versions' = versions
  BY DEF CloseHex
<1>2. TypeOK /\ OpenInv /\ HexInv /\ CodeInv /\ DisasmInv /\ MainInv
  BY DEF EInv
<1>3. /\ open' = "none" /\ kind' = kind /\ data' = data /\ touched' = touched
      /\ RowsOK(disasm')
      /\ kind = "code" /\ Decodable(data) => disasm' = Instructions(data)
      /\ MainInv'
  <2>1. ~code.dirty /\ (hex.dirty => touched)
    BY <1>1, <1>2 DEF DisasmInv
  <2>2. kind = "code" /\ Decodable(data) /\ ~hex.dirty => disasm = Instructions(data)
    BY <1>2, <2>1 DEF DisasmInv
  <2>3. /\ touched /\ kind = "code" /\ Decodable(data) => hex.dirty \/ disasm = Instructions(data)
        /\ kind = "code" /\ Decodable(data) /\ ~touched => disasm = Instructions(data)
    BY <2>1, <2>2
  <2>4. open \in {"hex", "code"}
    BY <1>1
  <2> QED BY <1>1, <2>3, <2>4, Closed
<1>4. hex' \in HexState /\ hex'.dirty = FALSE /\ hex'.text = hex.text /\ hex'.edited = hex.edited /\ hex'.stamp = hex.stamp
  BY <1>1, <1>2 DEF TypeOK, HexState
<1>5. TypeOK'
  BY <1>1, <1>2, <1>3, <1>4, NextTypeOK DEF TypeOK
<1>6. Contents' = Contents
  BY <1>3, KindStays
<1>7. OpenInv'
  BY <1>1, <1>2, <1>3, <1>6 DEF OpenInv
<1>8. HexInv'
  BY <1>1, <1>2, <1>3, <1>4, <1>6 DEF HexInv, NotLoading
<1>9. CodeInv'
  BY <1>1, <1>3, CodeSame
<1>10. DisasmInv'
  BY <1>1, <1>2, <1>3, <1>4 DEF DisasmInv, Decodable
<1> QED BY <1>3, <1>5, <1>7, <1>8, <1>9, <1>10 DEF EInv

-----------------------------------------------------------------------------
(***************************************************************************)
(* The steps of the disassembly editor                                     *)
(***************************************************************************)

\* The disassembly editor is opened: its rows are made when there are none, and
\* anew if the section was changed elsewhere.
LEMMA OpenCodeStep == ASSUME EInv, OpenCode PROVE EInv'
<1>1. /\ kind = "code" /\ open = "none" /\ open' = "code" /\ prior' = data
      /\ kind' = kind /\ data' = data /\ touched' = touched
      /\ hex' = hex /\ loading' = loading /\ raced' = raced /\ versions' = versions
      /\ main' = main /\ declined' = declined
  BY DEF OpenCode, Open
<1>2. TypeOK /\ OpenInv /\ HexInv /\ CodeInv /\ DisasmInv /\ MainInv
  BY DEF EInv
<1>3. Contents' = Contents
  BY <1>1, KindStays
<1>4. ~hex.dirty /\ ~code.dirty
  BY <1>1, <1>2 DEF DisasmInv
<1>5. OpenInv'
  BY <1>1, <1>2, <1>3 DEF OpenInv, TypeOK
<1>6. HexInv' /\ MainInv'
  BY <1>1, HexSame, MainSame
<1>7. data \in CodeContents
  BY <1>1, <1>2 DEF TypeOK, Contents
<1>8. CASE code.rows = {}
  <2>1. code' = [code EXCEPT !.rows = disasm, !.stale = ~Decodable(data)] /\ disasm' = disasm
    BY <1>8 DEF OpenCode
  <2>2. /\ code' \in CodeState /\ code'.rows = disasm /\ code'.dirty = code.dirty
        /\ code'.stale = ~Decodable(data)
    <3>1. disasm \in SUBSET RowSet
      BY <1>2 DEF TypeOK, RowsOK
    <3>2. (~Decodable(data)) \in BOOLEAN
      BY DEF Decodable
    <3> QED BY <1>2, <2>1, <3>1, <3>2 DEF TypeOK, CodeState
  <2>3. TypeOK'
    BY <1>1, <1>2, <2>1, <2>2, NextTypeOK DEF TypeOK
  <2>4. Decodable(data) => Matches(disasm, data)
    BY <1>1, <1>2, <1>4, <1>7, InstructionsOK DEF DisasmInv
  <2>5. CodeInv'
    BY <1>1, <2>2, <2>4 DEF CodeInv, Matches
  <2>6. DisasmInv'
    BY <1>1, <2>1, <2>2, DisasmSame
  <2> QED BY <1>5, <1>6, <2>3, <2>5, <2>6 DEF EInv
<1>9. CASE code.rows # {} /\ Outdated(code)
  <2>1. /\ UpdateDisassembly(data)
        /\ code' = [code EXCEPT !.stamp = "same", !.dirty = TRUE, !.rows = disasm', !.stale = ~Decodable(data)]
    BY <1>9 DEF OpenCode
  <2>2. /\ RowsOK(disasm')
        /\ kind = "code" /\ Decodable(data) => disasm' = Instructions(data) /\ Matches(disasm', data)
    BY <1>2, <2>1, Disassembled
  <2>3. /\ code' \in CodeState /\ code'.rows = disasm' /\ code'.dirty = TRUE
        /\ code'.stale = ~Decodable(data)
    <3>1. disasm' \in SUBSET RowSet
      BY <2>2 DEF RowsOK
    <3>2. (~Decodable(data)) \in BOOLEAN
      BY DEF Decodable
    <3> QED BY <1>2, <2>1, <3>1, <3>2 DEF TypeOK, CodeState, AnyStamp
  <2>4. TypeOK'
    BY <1>1, <1>2, <2>2, <2>3, NextTypeOK DEF TypeOK
  <2>5. CodeInv'
    BY <1>1, <2>2, <2>3 DEF CodeInv, Matches
  <2>6. touched
    BY <1>9 DEF Outdated
  <2>7. DisasmInv'
    BY <1>1, <1>4, <2>3, <2>6 DEF DisasmInv
  <2> QED BY <1>5, <1>6, <2>4, <2>5, <2>7 DEF EInv
<1>10. CASE code.rows # {} /\ ~Outdated(code)
  <2>1. code' = code /\ disasm' = disasm
    BY <1>10 DEF OpenCode
  <2>2. TypeOK'
    BY <1>1, <1>2, <2>1, NextTypeOK DEF TypeOK
  <2>3. ~touched \/ code.stamp = "same"
    BY <1>10 DEF Outdated
  <2>4. CodeInv'
    BY <1>1, <1>2, <2>1, <2>3 DEF CodeInv, Matches
  <2>5. DisasmInv'
    BY <1>1, <2>1, DisasmSame
  <2> QED BY <1>5, <1>6, <2>2, <2>4, <2>5 DEF EInv
<1> QED BY <1>8, <1>9, <1>10

\* With other digits a byte is a byte.
LEMMA RetypedIsByte == ASSUME NEW byte \in Byte PROVE Retyped(byte) \subseteq Byte
<1>1. byte \div 2 \in 0..1 /\ byte % 2 \in 0..1
  BY DEF Byte
<1>2. ASSUME NEW h \in {byte \div 2} \union Keys, NEW l \in {byte % 2} \union Keys PROVE 2 * h + l \in Byte
  <2>1. h \in 0..1 /\ l \in 0..1
    BY <1>1, Sizes
  <2> QED BY <2>1 DEF Byte
<1> QED BY <1>2 DEF Retyped

\* A row of the disassembly editor is edited: the others do not overlap it.
LEMMA EditInstructionStep == ASSUME EInv, EditInstruction PROVE EInv'
<1>1. /\ open = "code" /\ open' = open /\ prior' = prior
      /\ kind' = kind /\ disasm' = disasm /\ loading' = loading /\ raced' = raced
      /\ hex' = Aged(hex) /\ versions' = versions /\ main' = main /\ declined' = declined
  BY DEF EditInstruction, WhileOpen
<1>2. TypeOK /\ OpenInv /\ HexInv /\ CodeInv /\ DisasmInv /\ MainInv
  BY DEF EInv
<1>3. kind = "code" /\ loading = NotLoading
  BY <1>1, <1>2 DEF OpenInv
<1>4. PICK row \in code.rows, stamp \in Stamps : \E i \in DOMAIN row.bytes : \E b \in Retyped(row.bytes[i]) :
        LET typed == [row.bytes EXCEPT ![i] = b] IN
        /\ SetSubData(row.at, typed)
        /\ code' = [code EXCEPT !.rows = (@ \ {row}) \union {[row EXCEPT !.bytes = typed]},
                                !.stamp = stamp, !.dirty = TRUE,
                                !.button = @ \/ Cardinality(Instructions(typed)) > 1]
  BY DEF EditInstruction
<1>5. PICK i \in DOMAIN row.bytes, b \in Byte :
        LET typed == [row.bytes EXCEPT ![i] = b] IN
        /\ SetSubData(row.at, typed)
        /\ code' = [code EXCEPT !.rows = (@ \ {row}) \union {[row EXCEPT !.bytes = typed]},
                                !.stamp = stamp, !.dirty = TRUE,
                                !.button = @ \/ Cardinality(Instructions(typed)) > 1]
  <2>1. code.rows \subseteq RowSet
    BY <1>2 DEF TypeOK, RowsOK
  <2>2. row.bytes \in Seq(Byte)
    BY <2>1 DEF RowSet
  <2>3. \A i \in DOMAIN row.bytes : Retyped(row.bytes[i]) \subseteq Byte
    BY <2>2, RetypedIsByte
  <2> QED BY <1>4, <2>3
<1> DEFINE typed == [row.bytes EXCEPT ![i] = b]
           R2 == (code.rows \ {row}) \union {[row EXCEPT !.bytes = typed]}
           d2 == Written(data, row.at, typed)
<1>6. data \in CodeContents /\ RowsOK(code.rows)
  BY <1>2, <1>3 DEF TypeOK, Contents
<1>7. /\ R2 \in SUBSET RowSet /\ RowsOK(R2) /\ d2 \in CodeContents
      /\ Matches(code.rows, data) => Matches(R2, d2)
  BY <1>6, RowEdited
<1>8. data' = d2 /\ touched' = TRUE
  BY <1>5 DEF SetSubData, Written
<1>9. PICK button \in BOOLEAN :
        code' = [code EXCEPT !.rows = R2, !.stamp = stamp, !.dirty = TRUE, !.button = button]
  <2>1. (code.button \/ Cardinality(Instructions(typed)) > 1) \in BOOLEAN
    OBVIOUS
  <2> QED BY <1>5, <2>1
<1> HIDE DEF d2, R2, typed
<1>10. /\ code' \in CodeState /\ code'.rows = R2 /\ code'.dirty = TRUE /\ code'.stale = code.stale
  <2>1. stamp \in AnyStamp
    BY DEF Stamps, AnyStamp
  <2> QED BY <1>2, <1>7, <1>9, <2>1 DEF TypeOK, CodeState
<1>11. /\ hex' \in HexState /\ hex'.text = hex.text /\ hex'.edited = hex.edited /\ hex'.dirty = hex.dirty /\ hex'.stamp # "same"
  BY <1>1, <1>2 DEF TypeOK, HexState, Aged, AnyStamp
<1>12. data' \in Contents
  BY <1>3, <1>7, <1>8 DEF Contents
<1>13. TypeOK'
  BY <1>1, <1>2, <1>7, <1>8, <1>10, <1>11, <1>12, NextTypeOK DEF TypeOK
<1>14. Contents' = Contents
  BY <1>1, KindStays
<1>15. OpenInv'
  BY <1>1, <1>2, <1>3, <1>14 DEF OpenInv
<1>16. HexInv'
  BY <1>1, <1>3, <1>8, <1>11 DEF HexInv, NotLoading
<1>17. CodeInv'
  <2>1. ~code.stale => Matches(code.rows, data)
    BY <1>1, <1>2 DEF CodeInv
  <2> QED BY <1>1, <1>3, <1>7, <1>8, <1>10, <2>1 DEF CodeInv, Matches
<1>18. DisasmInv'
  BY <1>1, <1>2, <1>8, <1>10, <1>11 DEF DisasmInv
<1>19. MainInv'
  BY <1>1, MainSame
<1> QED BY <1>13, <1>15, <1>16, <1>17, <1>18, <1>19 DEF EInv

\* The rows are made anew of the bytes as they are.
LEMMA UpdateButtonStep == ASSUME EInv, UpdateButton PROVE EInv'
<1>1. /\ open = "code" /\ open' = open /\ prior' = prior
      /\ kind' = kind /\ data' = data /\ touched' = touched
      /\ UpdateDisassembly(data)
      /\ code' = [code EXCEPT !.rows = disasm', !.stale = ~Decodable(data)]
      /\ hex' = hex /\ loading' = loading /\ raced' = raced /\ versions' = versions
      /\ main' = main /\ declined' = declined
  BY DEF UpdateButton, WhileOpen
<1>2. TypeOK /\ OpenInv /\ HexInv /\ CodeInv /\ DisasmInv /\ MainInv
  BY DEF EInv
<1>3. /\ RowsOK(disasm')
      /\ kind = "code" /\ Decodable(data) => disasm' = Instructions(data) /\ Matches(disasm', data)
  BY <1>1, <1>2, Disassembled
<1>4. /\ code' \in CodeState /\ code'.rows = disasm' /\ code'.dirty = code.dirty
      /\ code'.stale = ~Decodable(data)
  <2>1. disasm' \in SUBSET RowSet
    BY <1>3 DEF RowsOK
  <2>2. (~Decodable(data)) \in BOOLEAN
    BY DEF Decodable
  <2> QED BY <1>1, <1>2, <2>1, <2>2 DEF TypeOK, CodeState
<1>5. TypeOK'
  BY <1>1, <1>2, <1>3, <1>4, NextTypeOK DEF TypeOK
<1>6. Contents' = Contents /\ kind = "code"
  BY <1>1, <1>2, KindStays DEF OpenInv
<1>7. OpenInv'
  BY <1>1, <1>2, <1>6 DEF OpenInv
<1>8. HexInv' /\ MainInv'
  BY <1>1, HexSame, MainSame
<1>9. CodeInv'
  BY <1>1, <1>3, <1>4, <1>6 DEF CodeInv, Matches
<1>10. DisasmInv'
  BY <1>1, <1>2, <1>3, <1>4 DEF DisasmInv, Decodable
<1> QED BY <1>5, <1>7, <1>8, <1>9, <1>10 DEF EInv

\* The disassembly editor is closed.
LEMMA CloseCodeStep == ASSUME EInv, CloseCode PROVE EInv'
<1>1. /\ open = "code" /\ Done(code)
      /\ code' = [code EXCEPT !.dirty = FALSE] /\ \E changed \in MayHaveChanged : Close(changed)
      /\ loading' = loading /\ raced' = raced /\ hex' = hex /\ versions' = versions
  BY DEF CloseCode
<1>2. TypeOK /\ OpenInv /\ HexInv /\ CodeInv /\ DisasmInv /\ MainInv
  BY DEF EInv
<1>3. /\ open' = "none" /\ kind' = kind /\ data' = data /\ touched' = touched
      /\ RowsOK(disasm')
      /\ kind = "code" /\ Decodable(data) => disasm' = Instructions(data)
      /\ MainInv'
  <2>1. ~hex.dirty /\ (code.dirty => touched)
    BY <1>1, <1>2 DEF DisasmInv
  <2>2. kind = "code" /\ Decodable(data) /\ ~code.dirty => disasm = Instructions(data)
    BY <1>2, <2>1 DEF DisasmInv
  <2>3. /\ touched /\ kind = "code" /\ Decodable(data) => code.dirty \/ disasm = Instructions(data)
        /\ kind = "code" /\ Decodable(data) /\ ~touched => disasm = Instructions(data)
    BY <2>1, <2>2
  <2>4. open \in {"hex", "code"}
    BY <1>1
  <2> QED BY <1>1, <2>3, <2>4, Closed
<1>4. /\ code' \in CodeState /\ code'.dirty = FALSE /\ code'.rows = code.rows /\ code'.stamp = code.stamp
      /\ code'.stale = code.stale
  BY <1>1, <1>2 DEF TypeOK, CodeState
<1>5. TypeOK'
  BY <1>1, <1>2, <1>3, <1>4, NextTypeOK DEF TypeOK
<1>6. Contents' = Contents
  BY <1>3, KindStays
<1>7. OpenInv'
  BY <1>1, <1>2, <1>3, <1>6 DEF OpenInv
<1>8. HexInv'
  BY <1>1, <1>3, HexSame
<1>9. CodeInv'
  BY <1>1, <1>2, <1>3, <1>4 DEF CodeInv, Matches
<1>10. DisasmInv'
  BY <1>1, <1>2, <1>3, <1>4 DEF DisasmInv, Decodable
<1> QED BY <1>3, <1>5, <1>7, <1>8, <1>9, <1>10 DEF EInv

-----------------------------------------------------------------------------
(***************************************************************************)
(* The steps of the editor of SDK versions                                 *)
(***************************************************************************)

\* What a spin box takes of a version that can be read.
LEMMA SpinTypes ==
  /\ \A v \in Byte : Decoded(v) \in Minors
  /\ \A v \in Minors : InSpin(v) \in SpinRange
<1>1. MinorMod \in Nat /\ MinorMod > 1
  BY Sizes
<1>2. ASSUME NEW v \in Byte PROVE Decoded(v) \in Minors
  <2>1. v \in Int
    BY DEF Byte
  <2>2. v % MinorMod \in 0..MinorMod - 1
    BY <1>1, <2>1
  <2> QED BY <1>1, <2>2 DEF Decoded, Minors
<1>3. ASSUME NEW v \in Minors PROVE InSpin(v) \in SpinRange
  BY <1>1 DEF InSpin, SpinRange, Minors
<1> QED BY <1>2, <1>3

\* The versions editor is opened: it parses the section the first time, and shows
\* what it parsed or was told to set.
LEMMA OpenVersionsStep == ASSUME EInv, OpenVersions PROVE EInv'
<1> DEFINE read == IF versions.read = <<>> THEN Parsed(data) ELSE versions.read
           inSpin == [i \in DOMAIN read |-> InSpin(read[i])]
<1>1. /\ kind = "versions" /\ open = "none" /\ open' = "versions" /\ prior' = data
      /\ kind' = kind /\ data' = data /\ touched' = touched /\ disasm' = disasm
      /\ hex' = hex /\ loading' = loading /\ raced' = raced /\ code' = code
      /\ main' = main /\ declined' = declined
      /\ versions' = IF versions.read = <<>> THEN [versions EXCEPT !.read = read, !.spin = inSpin]
                     ELSE IF Outdated(versions) THEN [versions EXCEPT !.stamp = "same", !.spin = inSpin]
                     ELSE versions
  BY DEF OpenVersions, Open, section
<1>2. TypeOK /\ OpenInv /\ HexInv /\ CodeInv /\ DisasmInv /\ MainInv
  BY DEF EInv
<1>3. data \in [1..2 -> Byte] /\ \A f \in [1..2 -> Minors] : f # <<>>
  <2>1. data \in [1..2 -> Byte]
    BY <1>1, <1>2 DEF TypeOK, Contents, Strings
  <2>2. ASSUME NEW f \in [1..2 -> Minors] PROVE f # <<>>
    <3>1. DOMAIN f # {}
      OBVIOUS
    <3> QED BY <3>1
  <2> QED BY <2>1, <2>2
<1>4. read \in [1..2 -> Minors] /\ versions.read \in [1..2 -> Minors] \union {<<>>}
  <2>1. Parsed(data) \in [1..2 -> Minors]
    BY <1>3, SpinTypes DEF Parsed
  <2>2. versions.read \in [1..2 -> Minors] \union {<<>>}
    BY <1>2, Fields
  <2> QED BY <2>1, <2>2
<1> HIDE DEF read
<1>5. inSpin \in [1..2 -> SpinRange] /\ inSpin # <<>>
  <2>1. inSpin \in [1..2 -> SpinRange]
    BY <1>4, SpinTypes
  <2> HIDE DEF inSpin
  <2>2. DOMAIN inSpin # DOMAIN <<>>
    <3>1. DOMAIN inSpin = 1..2
      BY <2>1
    <3>2. 1 \in DOMAIN inSpin
      BY <3>1
    <3> QED BY ONLY <3>2
  <2> QED BY <2>1, <2>2
<1> HIDE DEF inSpin
<1>6. /\ versions' \in VersionsState
      /\ versions'.read # <<>> /\ versions'.spin # <<>>
  <2>1. CASE versions.read = <<>>
    <3>1. versions' = [versions EXCEPT !.read = read, !.spin = inSpin]
      BY <1>1, <2>1
    <3> QED BY <1>2, <1>3, <1>4, <1>5, <3>1 DEF TypeOK, VersionsState
  <2>2. CASE versions.read # <<>> /\ Outdated(versions)
    <3>1. versions' = [versions EXCEPT !.stamp = "same", !.spin = inSpin]
      BY <1>1, <2>2
    <3> QED BY <1>2, <1>5, <2>2, <3>1 DEF TypeOK, VersionsState, AnyStamp
  <2>3. CASE versions.read # <<>> /\ ~Outdated(versions)
    BY <1>1, <1>2, <2>3 DEF TypeOK
  <2> QED BY <2>1, <2>2, <2>3
<1>7. TypeOK'
  BY <1>1, <1>2, <1>6, NextTypeOK DEF TypeOK
<1>8. Contents' = Contents
  BY <1>1, KindStays
<1>9. OpenInv'
  BY <1>1, <1>2, <1>6, <1>8 DEF OpenInv, TypeOK
<1>10. HexInv' /\ CodeInv' /\ DisasmInv' /\ MainInv'
  BY <1>1, HexSame, CodeSame, DisasmSame, MainSame
<1> QED BY <1>7, <1>9, <1>10 DEF EInv

\* A spin box is turned.
LEMMA TurnSpinStep == ASSUME EInv, TurnSpin PROVE EInv'
<1>1. /\ open = "versions" /\ open' = open /\ prior' = prior
      /\ kind' = kind /\ data' = data /\ touched' = touched /\ disasm' = disasm
      /\ hex' = hex /\ loading' = loading /\ raced' = raced /\ code' = code
      /\ main' = main /\ declined' = declined
  BY DEF TurnSpin, WhileOpen, section
<1>2. TypeOK /\ OpenInv /\ HexInv /\ CodeInv /\ DisasmInv /\ MainInv
  BY DEF EInv
<1>3. PICK i \in DOMAIN versions.spin, v \in SpinRange : versions' = [versions EXCEPT !.spin[i] = v]
  BY DEF TurnSpin
<1>4. versions.read # <<>> /\ versions.spin # <<>> /\ versions.spin \in [1..2 -> SpinRange]
  BY <1>1, <1>2, Fields DEF OpenInv, TypeOK
<1> DEFINE spin == [versions.spin EXCEPT ![i] = v]
<1>5. versions' = [versions EXCEPT !.spin = spin]
  BY <1>3
<1>6. spin \in [1..2 -> SpinRange] /\ spin # <<>>
  <2>1. spin \in [1..2 -> SpinRange]
    BY <1>4
  <2>2. DOMAIN spin # {}
    BY <1>4
  <2> QED BY <2>1, <2>2
<1> HIDE DEF spin
<1>7. versions' \in VersionsState /\ versions'.read = versions.read /\ versions'.spin = spin
  BY <1>2, <1>5, <1>6 DEF TypeOK, VersionsState
<1>8. TypeOK'
  BY <1>1, <1>2, <1>4, <1>6, <1>7, NextTypeOK DEF TypeOK
<1>9. Contents' = Contents
  BY <1>1, KindStays
<1>10. OpenInv'
  BY <1>1, <1>2, <1>7, <1>9 DEF OpenInv
<1>11. HexInv' /\ CodeInv' /\ DisasmInv' /\ MainInv'
  BY <1>1, HexSame, CodeSame, DisasmSame, MainSame
<1> QED BY <1>8, <1>10, <1>11 DEF EInv

\* What is written is what the section may hold.
LEMMA PatchedOK ==
  ASSUME data \in [1..2 -> Byte], NEW spin \in [1..2 -> SpinRange], NEW read
  PROVE  /\ Patched(spin, read) \in Seq(Byte) /\ Len(Patched(spin, read)) = 2
         /\ Patched(spin, read) = [i \in 1..2 |-> IF spin[i] = read[i] THEN data[i] ELSE spin[i]]
<1>1. SpinRange \subseteq Byte
  BY Sizes DEF SpinRange, Byte
<1> DEFINE f == [i \in 1..2 |-> IF spin[i] = read[i] THEN data[i] ELSE spin[i]]
<1>2. f \in Strings(2, Byte)
  BY <1>1 DEF Strings
<1>3. Patched(spin, read) = f
  BY DEF Patched
<1> HIDE DEF f
<1>4. f \in Seq(Byte) /\ Len(f) = 2
  BY <1>2, AsSequence
<1> QED BY <1>3, <1>4 DEF f

\* OK writes both versions.
LEMMA SpinsWritten ==
  ASSUME data \in [1..2 -> Byte], NEW spin \in [1..2 -> SpinRange], NEW read,
         SetSubData(1, Patched(spin, read))
  PROVE  /\ data' \in [1..2 -> Byte] /\ touched' = TRUE
         /\ \A i \in 1..2 : data'[i] = IF spin[i] = read[i] THEN data[i] ELSE spin[i]
<1> DEFINE b == Patched(spin, read)
<1>1. /\ b \in Seq(Byte) /\ Len(b) = 2
      /\ \A i \in 1..2 : b[i] = IF spin[i] = read[i] THEN data[i] ELSE spin[i]
  BY PatchedOK
<1>2. data' = Written(data, 1, b) /\ touched' = TRUE
  BY DEF SetSubData, Written
<1>3. data \in Strings(2, Byte)
  BY DEF Strings
<1> HIDE DEF b
<1>4. Fits(1, Len(b), 2)
  BY <1>1 DEF Fits
<1>5. /\ Written(data, 1, b) \in Strings(2, Byte)
      /\ \A i \in 1..Len(b) : Written(data, 1, b)[1 + i - 1] = b[i]
  <2>1. PICK n, p : n = 2 /\ p = 1
    OBVIOUS
  <2>2. b \in Seq(Byte)
    BY <1>1
  <2>3. /\ Written(data, p, b) \in Strings(n, Byte)
        /\ \A i \in 1..Len(b) : Written(data, p, b)[p + i - 1] = b[i]
    <3>1. data \in Strings(n, Byte) /\ Fits(p, Len(b), n)
      BY <1>3, <1>4, <2>1
    <3> QED BY ONLY <2>2, <3>1, WrittenIs
  <2> QED BY <2>1, <2>3
<1>6. \A i \in 1..2 : Written(data, 1, b)[i] = b[i]
  <2>1. \A i \in 1..2 : i \in 1..Len(b) /\ 1 + i - 1 = i
    BY <1>1
  <2> QED BY <1>5, <2>1
<1>7. data' \in [1..2 -> Byte]
  BY <1>2, <1>5 DEF Strings
<1> QED BY <1>1, <1>2, <1>6, <1>7

\* The versions editor is left with OK.
LEMMA AcceptVersionsStep == ASSUME EInv, AcceptVersions PROVE EInv'
<1>1. /\ open = "versions" /\ open' = "none" /\ prior' = <<>>
      /\ kind' = kind /\ disasm' = disasm /\ loading' = loading /\ raced' = raced /\ code' = code
  BY DEF AcceptVersions
<1>2. TypeOK /\ OpenInv /\ HexInv /\ CodeInv /\ DisasmInv /\ MainInv
  BY DEF EInv
<1>3. /\ kind = "versions" /\ data = prior /\ versions.read # <<>> /\ versions.spin # <<>>
      /\ loading = NotLoading /\ ~code.dirty /\ ~hex.dirty
  BY <1>1, <1>2 DEF OpenInv, DisasmInv, TypeOK
<1>4. data \in [1..2 -> Byte] /\ versions.read \in [1..2 -> Minors] /\ versions.spin \in [1..2 -> SpinRange]
  <2>1. data \in [1..2 -> Byte]
    BY <1>2, <1>3 DEF TypeOK, Contents, Strings
  <2> QED BY <1>2, <1>3, <2>1, Fields
<1>5. Contents' = Contents /\ CodeContents' = CodeContents
  BY <1>1, KindStays DEF CodeContents
<1>6. CASE versions.spin # versions.read
  <2>1. /\ SetSubData(1, Patched(versions.spin, versions.read)) /\ hex' = Aged(hex)
        /\ \/ main' = Parsed(data') /\ declined' = FALSE
           \/ declined' = TRUE
    BY <1>6 DEF AcceptVersions
  <2>2. PICK stamp \in Stamps : versions' = [versions EXCEPT !.stamp = stamp, !.read = versions.spin]
    BY <1>6 DEF AcceptVersions
  <2>3. data' \in [1..2 -> Byte] /\ touched' = TRUE
    BY <1>4, <2>1, SpinsWritten
  <2>4. data' \in Contents
    BY <1>3, <2>3 DEF Contents, Strings
  <2>5. /\ hex' \in HexState /\ hex'.text = hex.text /\ hex'.edited = hex.edited /\ hex'.dirty = hex.dirty /\ hex'.stamp # "same"
    BY <1>2, <2>1 DEF TypeOK, HexState, Aged, AnyStamp
  <2>6. versions' \in VersionsState /\ versions'.read = versions.spin /\ versions'.spin = versions.spin
    <3>1. versions.spin \in [1..2 -> Minors] \union {<<>>}
      BY <1>4, Sizes DEF SpinRange, Minors
    <3> QED BY <1>2, <2>2, <3>1 DEF TypeOK, VersionsState, AnyStamp, Stamps
  <2>7. TypeOK'
    BY <1>1, <1>2, <2>3, <2>4, <2>5, <2>6, NextTypeOK DEF TypeOK
  <2>8. OpenInv'
    BY <1>1, <1>3 DEF OpenInv, NotLoading
  <2>9. HexInv'
    BY <1>1, <1>3, <2>3, <2>5 DEF HexInv, NotLoading
  <2>10. CodeInv'
    BY <1>1, <1>2, <1>3 DEF CodeInv, Matches
  <2>11. DisasmInv'
    BY <1>1, <1>3, <2>3, <2>5 DEF DisasmInv
  <2>12. MainInv'
    BY <1>1, <1>3, <2>1 DEF MainInv, UpToDate, Fresh
  <2> QED BY <2>7, <2>8, <2>9, <2>10, <2>11, <2>12 DEF EInv
<1>7. CASE versions.spin = versions.read
  <2>1. /\ data' = data /\ touched' = touched /\ hex' = hex /\ versions' = versions
        /\ main' = main /\ declined' = declined
    BY <1>7 DEF AcceptVersions
  <2>2. TypeOK'
    BY <1>1, <1>2, <2>1, NextTypeOK DEF TypeOK
  <2>3. OpenInv'
    BY <1>1, <1>3 DEF OpenInv, NotLoading
  <2>4. HexInv' /\ CodeInv' /\ DisasmInv' /\ MainInv'
    BY <1>1, <1>3, <2>1, HexSame, CodeSame, DisasmSame, MainSame
  <2> QED BY <2>2, <2>3, <2>4 DEF EInv
<1> QED BY <1>6, <1>7

\* The versions editor is left without writing.
LEMMA CancelVersionsStep == ASSUME EInv, CancelVersions PROVE EInv'
<1>1. /\ open = "versions" /\ open' = "none" /\ prior' = <<>>
      /\ kind' = kind /\ data' = data /\ touched' = touched /\ disasm' = disasm
      /\ hex' = hex /\ loading' = loading /\ raced' = raced /\ code' = code /\ versions' = versions
      /\ main' = main /\ declined' = declined
  BY DEF CancelVersions, section
<1>2. TypeOK /\ OpenInv
  BY DEF EInv
<1>3. data = prior /\ loading = NotLoading
  BY <1>1, <1>2 DEF OpenInv
<1>4. TypeOK'
  BY <1>1, <1>2, NextTypeOK DEF TypeOK
<1>5. OpenInv'
  BY <1>1, <1>3 DEF OpenInv, NotLoading
<1>6. HexInv' /\ CodeInv' /\ DisasmInv' /\ MainInv'
  BY <1>1, <1>3, HexSame, CodeSame, DisasmSame, MainSame
<1> QED BY <1>4, <1>5, <1>6 DEF EInv

-----------------------------------------------------------------------------
(***************************************************************************)
(* The invariant                                                           *)
(***************************************************************************)

\* A section as it is first shown, with what an earlier session left in it.
LEMMA InitEInv == Init => EInv
<1> SUFFICES ASSUME Init PROVE EInv
  OBVIOUS
<1>1. /\ kind \in {"code", "versions"} /\ data \in Contents /\ touched \in BOOLEAN
      /\ disasm = IF kind = "code" THEN Instructions(data) ELSE {}
  <2>1. CASE kind = "code" /\ data \in [1..Size -> Byte]
    BY <2>1 DEF Init, Contents, CodeContents, Strings
  <2>2. CASE kind = "versions" /\ data \in [1..2 -> Byte]
    BY <2>2 DEF Init, Contents, Strings
  <2> QED BY <2>1, <2>2 DEF Init
<1>2. /\ open = "none" /\ hex = [stamp |-> "null", dirty |-> FALSE, text |-> <<>>, edited |-> {}]
      /\ loading = NotLoading /\ raced = FALSE
      /\ code = [stamp |-> "null", dirty |-> FALSE, rows |-> {}, button |-> FALSE, stale |-> FALSE]
      /\ versions = [stamp |-> "null", read |-> <<>>, spin |-> <<>>]
      /\ main = Shown(data, disasm)
  BY DEF Init
<1>3. RowsOK({})
  BY DEF RowsOK
<1>4. RowsOK(disasm)
  <2>1. kind = "code" => data \in CodeContents
    BY <1>1 DEF Contents
  <2> QED BY <1>1, <1>3, <2>1, InstructionsOK
<1>5. hex \in HexState /\ loading \in LoadingState
  BY <1>2 DEF HexState, LoadingState, AnyStamp, NotLoading
<1>6. code \in CodeState /\ versions \in VersionsState
  BY <1>2 DEF CodeState, VersionsState, AnyStamp
<1>7. TypeOK
  BY <1>1, <1>2, <1>3, <1>4, <1>5, <1>6 DEF TypeOK
<1>8. OpenInv /\ HexInv /\ CodeInv
  BY <1>2 DEF OpenInv, HexInv, CodeInv, Matches, NotLoading
<1>9. DisasmInv
  BY <1>1, <1>2 DEF DisasmInv
<1>10. MainInv
  BY <1>1, <1>2 DEF MainInv, UpToDate, Fresh, Shown
<1> QED BY <1>7, <1>8, <1>9, <1>10 DEF EInv

LEMMA StutterStep == ASSUME EInv, UNCHANGED vars PROVE EInv'
<1>1. /\ kind' = kind /\ data' = data /\ touched' = touched /\ disasm' = disasm
      /\ open' = open /\ prior' = prior /\ hex' = hex /\ loading' = loading /\ raced' = raced
      /\ code' = code /\ versions' = versions /\ main' = main /\ declined' = declined
  BY DEF vars, section, editors
<1>2. TypeOK /\ OpenInv
  BY DEF EInv
<1>3. TypeOK'
  BY <1>1, <1>2, NextTypeOK DEF TypeOK
<1>4. Contents' = Contents
  BY <1>1, KindStays
<1>5. OpenInv'
  BY <1>1, <1>2, <1>4 DEF OpenInv, NotLoading
<1>6. HexInv' /\ CodeInv' /\ DisasmInv'
  BY <1>1, HexSame, CodeSame, DisasmSame
<1>7. MainInv'
  BY <1>1 DEF EInv, MainInv, UpToDate, Fresh, Decodable
<1> QED BY <1>3, <1>5, <1>6, <1>7 DEF EInv

LEMMA StepEInv == EInv /\ [Next]_vars => EInv'
<1> SUFFICES ASSUME EInv, [Next]_vars PROVE EInv'
  OBVIOUS
<1>1. CASE OpenHexFirst \/ OpenHexAgain \/ StartDecode \/ FinishDecode \/ EditRow \/ CloseHex
  BY <1>1, OpenHexFirstStep, OpenHexAgainStep, StartDecodeStep, FinishDecodeStep, EditRowStep, CloseHexStep
<1>2. CASE OpenCode \/ EditInstruction \/ UpdateButton \/ CloseCode
  BY <1>2, OpenCodeStep, EditInstructionStep, UpdateButtonStep, CloseCodeStep
<1>3. CASE OpenVersions \/ TurnSpin \/ AcceptVersions \/ CancelVersions
  BY <1>3, OpenVersionsStep, TurnSpinStep, AcceptVersionsStep, CancelVersionsStep
<1>4. CASE UNCHANGED vars
  BY <1>4, StutterStep
<1> QED BY <1>1, <1>2, <1>3, <1>4 DEF Next

\* EInv, of the editors, the disassembly and the main view together, holds of
\* every section and however its editors are opened, used and closed.
THEOREM EditorsInvariant == Spec => []EInv
<1> QED BY InitEInv, StepEInv, PTL DEF Spec

\* An editor that is opened shows the bytes the section has, not those it had
\* when the editor was last shown (HexEditor.cc, DisassemblyEditor.cc: showEvent).
THEOREM ShowsData == Spec => []EditorsShowData
<1>1. EInv => EditorsShowData
  <2>1. ASSUME EInv, open = "hex", loading = NotLoading, ~raced, NEW p \in Rows
        PROVE  LET shown == HexToData(Digits(RowText(p))) IN
               /\ SubSeq(data, p, p + Len(shown) - 1) = shown
               /\ p \notin hex.edited => Len(shown) = RowLength(p)
    <3>1. TypeOK /\ hex.text # << >> /\ Shows(hex.text, hex.edited, data, Len(data))
      BY <2>1 DEF EInv, OpenInv, HexInv
    <3>2. PICK n \in Nat : Contents = Strings(n, Byte) /\ Texts = Strings(2 * n, Place)
      BY <3>1, Widths
    <3>3. PICK text \in Strings(2 * n, Place), d \in Strings(n, Byte) : text = hex.text /\ d = data
      BY <3>1, <3>2 DEF TypeOK, HexState
    <3>4. Len(data) = n /\ DOMAIN data = 1..n
      BY <3>3, AsSequence
    <3>5. p \in RowsOf(n) /\ RowLength(p) = RowLen(n, p) /\ RowText(p) = RowOf(text, n, p)
      BY <3>3, <3>4 DEF Rows, RowsOf, RowLength, RowLen, RowText, RowOf
    <3>6. PICK shown : shown = HexToData(Digits(RowText(p)))
      OBVIOUS
    <3>7. /\ Len(shown) =< RowLen(n, p) /\ Begins(shown, d, p)
          /\ p \notin hex.edited => Len(shown) = RowLen(n, p)
      BY <3>1, <3>3, <3>4, <3>5, <3>6 DEF Shows, ShowsRow
    <3>8. shown \in Seq(Byte)
      <4>1. PICK k : k = 2 * RowLen(n, p)
        OBVIOUS
      <4>2. RowText(p) \in Strings(k, Place) /\ k \in Nat
        <5>1. n \in Nat /\ text \in Strings(2 * n, Place) /\ p \in RowsOf(n)
          BY <3>5
        <5>2. RowOf(text, n, p) \in Strings(2 * RowLen(n, p), Place)
          BY ONLY <5>1, RowPlaces
        <5>3. RowLen(n, p) \in Nat
          BY ONLY <5>1, RowLies
        <5> QED BY <3>5, <4>1, <5>2, <5>3
      <4>3. Digits(RowText(p)) \in Seq(0..1)
        BY <4>2, DigitsAre
      <4> QED BY <3>6, <4>3, DataOfHex
    <3>9. PICK m \in Nat : m = Len(shown) /\ Fits(p, m, n)
      <4>1. RowLen(n, p) \in Nat /\ p \in 1..n /\ p + RowLen(n, p) - 1 =< n /\ Len(shown) \in Nat
        BY <3>5, <3>8, RowLies
      <4> QED BY <3>7, <4>1 DEF Fits
    <3>10. PICK s : s = SubSeq(d, p, p + m - 1)
      OBVIOUS
    <3>11. s \in Seq(Byte) /\ Len(s) = m /\ \A i \in 1..m : s[i] = d[p + i - 1]
      <4>1. d \in Strings(n, Byte) /\ Fits(p, m, n)
        BY <3>9
      <4>2. /\ SubSeq(d, p, p + m - 1) \in Seq(Byte) /\ Len(SubSeq(d, p, p + m - 1)) = m
            /\ \A i \in 1..m : SubSeq(d, p, p + m - 1)[i] = d[p + i - 1]
        BY ONLY <4>1, Part
      <4> QED BY <3>10, <4>2
    <3>12. s = shown
      <4>1. \A i \in 1..m : s[i] = shown[i]
        BY <3>7, <3>9, <3>11 DEF Begins
      <4> QED BY <3>8, <3>9, <3>11, <4>1, SeqEqual
    <3> QED BY <3>3, <3>5, <3>6, <3>7, <3>9, <3>10, <3>12
  <2>2. EInv /\ open = "code" /\ ~code.stale =>
          \A row \in code.rows : SubSeq(data, row.at, row.at + Len(row.bytes) - 1) = row.bytes
    BY DEF EInv, CodeInv, Matches
  <2> QED BY <2>1, <2>2 DEF EditorsShowData
<1> QED BY <1>1, EditorsInvariant, PTL

\* Once the editors are closed, the disassembly of the section is that of its
\* bytes, if they have one (done() of the editors).
THEOREM DisassemblyFollows == Spec => []DisassemblyIsCurrent
<1>1. EInv => DisassemblyIsCurrent
  BY DEF EInv, DisasmInv, DisassemblyIsCurrent
<1> QED BY <1>1, EditorsInvariant, PTL

\* The main view is behind only by what its user declined to load
\* (BinaryWidget::checkModified).
THEOREM MainViewFollows == Spec => []MainViewIsCurrent
<1>1. EInv => MainViewIsCurrent
  BY DEF EInv, MainInv, UpToDate, Fresh, Shown, DisasmInv, MainViewIsCurrent
<1> QED BY <1>1, EditorsInvariant, PTL

\* OK leaves the versions that the spin boxes show (MacSdkVersionsEditor::done).
THEOREM OkWritesSpins == Spec => OkWritesWhatIsShown
<1>1. ASSUME EInv, AcceptVersions, versions.read = Parsed(data), NEW i \in DOMAIN data
      PROVE  data'[i] = versions.spin[i] \/ (data'[i] = data[i] /\ Decoded(data[i]) = versions.spin[i])
  <2>1. TypeOK /\ kind = "versions" /\ versions.read # <<>> /\ versions.spin # <<>>
    BY <1>1 DEF EInv, OpenInv, TypeOK, AcceptVersions
  <2>2. data \in [1..2 -> Byte] /\ versions.spin \in [1..2 -> SpinRange]
    <3>1. data \in [1..2 -> Byte]
      BY <2>1 DEF TypeOK, Contents, Strings
    <3> QED BY <2>1, <3>1, Fields
  <2>3. i \in 1..2 /\ versions.read[i] = Decoded(data[i])
    BY <1>1, <2>2 DEF Parsed
  <2>4. CASE versions.spin # versions.read
    <3>1. SetSubData(1, Patched(versions.spin, versions.read))
      BY <1>1, <2>4 DEF AcceptVersions
    <3>2. data'[i] = IF versions.spin[i] = versions.read[i] THEN data[i] ELSE versions.spin[i]
      <4>1. PICK spin, read : spin = versions.spin /\ read = versions.read
        OBVIOUS
      <4>2. data \in [1..2 -> Byte] /\ spin \in [1..2 -> SpinRange] /\ SetSubData(1, Patched(spin, read))
        BY <2>2, <3>1, <4>1
      <4>3. \A j \in 1..2 : data'[j] = IF spin[j] = read[j] THEN data[j] ELSE spin[j]
        BY ONLY <4>2, SpinsWritten
      <4> QED BY ONLY <2>3, <4>1, <4>3
    <3> QED BY <2>3, <3>2
  <2>5. CASE versions.spin = versions.read
    BY <1>1, <2>3, <2>5 DEF AcceptVersions
  <2> QED BY <2>4, <2>5
<1>2. EInv /\ [Next]_vars =>
        [AcceptVersions /\ versions.read = Parsed(data) =>
           \A i \in DOMAIN data :
             data'[i] = versions.spin[i] \/ (data'[i] = data[i] /\ Decoded(data[i]) = versions.spin[i])]_vars
  BY <1>1
<1> QED BY <1>2, EditorsInvariant, PTL DEF Spec, OkWritesWhatIsShown
=============================================================================
