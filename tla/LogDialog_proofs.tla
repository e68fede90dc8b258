-------------------------- MODULE LogDialog_proofs --------------------------
(***************************************************************************)
(* LogHandler and LogDialog for every set of threads, any number of        *)
(* messages and every size of the memory.  LogInv relates what is written  *)
(* to the step of addEntry each thread is in; DialogInv says where in the  *)
(* tree, or on the way to it, the last message heard of each thread is.    *)
(***************************************************************************)
EXTENDS LogDialog, Regions_proofs

\* How many messages of each thread were appended to the entries, and emitted.
Appended == [t \in Threads |-> message[t].number - (IF at[t] \in {"append", "appending"} THEN 1 ELSE 0)]
Done == [t \in Threads |-> message[t].number - (IF at[t] = "idle" THEN 0 ELSE 1)]

\* What holds of the entries, also as a thread in the middle of append saw them,
\* when n messages of each thread were appended.
EntriesOK(s, n) ==
  /\ s \in Seq(Message) /\ Len(s) =< MemoryEntries
  /\ InOrder(s)
  /\ \A i \in DOMAIN s : s[i].number =< n[s[i].thread]

\* The last message of a thread is written as it was logged.
LatestWritten ==
  \A i \in DOMAIN Written :
    Written[i].number = message[Written[i].thread].number => Written[i] = Latest(Written[i].thread)

\* The inductive invariant of the log handler.
LogInv ==
  /\ TypeOK
  /\ \A t \in Threads : at[t] # "idle" => message[t].number # 0
  /\ EntriesOK(entries, Appended) /\ \A t \in Threads : EntriesOK(seen[t], Appended)
  /\ NoMessageLost
  /\ LatestWritten
  /\ ImportantIsOnDisk

\* Messages of h's thread beyond position i of s are newer than h.
NewerAfter(s, i, h) == \A j \in DOMAIN s : j > i /\ s[j].thread = h.thread => s[j].number > h.number

\* Where a message is that the dialog heard: not accepted, on its way, or past
\* the newest row of its thread, unless the rows were filled after it.
IsShown(h) ==
  \/ ~Accepts(h)
  \/ \E j \in DOMAIN posted : posted[j] = h
  \/ /\ NewerAfter(posted, 0, h)
     /\ \/ \E i \in DOMAIN rows : rows[i] = h /\ NewerAfter(rows, i, h)
        \/ Len(rows) = MemoryEntries /\ NewerAfter(rows, 0, h)

DialogTypeOK ==
  /\ dialog \in {"none", "loaded", "connected"}
  /\ rows \in Seq(Message) /\ Len(rows) =< MemoryEntries
  /\ posted \in Seq(Message)
  /\ logLevel \in Levels
  /\ heard \subseteq Message

PostedInv ==
  /\ InOrder(posted)
  /\ \A j \in DOMAIN posted : posted[j].thread # Main /\ posted[j].number =< Done[posted[j].thread]

RowsInv ==
  /\ OwnRowsInOrder
  /\ \A i \in DOMAIN rows : rows[i].thread = Main => rows[i].number =< Done[Main]

HeardInv == \A h \in heard : h.number =< Done[h.thread] /\ IsShown(h)

\* The inductive invariant of the dialog.
DialogInv ==
  /\ DialogTypeOK
  /\ dialog # "connected" => posted = <<>> /\ heard = {}
  /\ PostedInv
  /\ RowsInv
  /\ HeardInv

-----------------------------------------------------------------------------
(***************************************************************************)
(* Messages and sequences of them                                          *)
(***************************************************************************)

\* The fields of a message.
LEMMA MessageFields ==
  ASSUME NEW m \in Message
  PROVE  m.thread \in Threads /\ m.number \in Nat /\ m.number # 0 /\ m.level \in Levels
BY LogAssumption DEF Message

\* The message a thread logged last.
LEMMA LatestIs ==
  ASSUME TypeOK, NEW t \in Threads, message[t].number # 0
  PROVE  /\ Latest(t) \in Message
         /\ Latest(t).thread = t /\ Latest(t).number = message[t].number
         /\ Latest(t).level = message[t].level
<1>1. /\ message[t].number \in 0..MaxMessages /\ message[t].level \in Levels
      /\ MaxMessages \in Nat
  BY LogAssumption DEF TypeOK
<1>2. message[t].number \in 1..MaxMessages
  BY <1>1
<1> QED BY <1>1, <1>2 DEF Latest, Message

\* What messages are counted by.
LEMMA CounterTypes ==
  ASSUME TypeOK, NEW t \in Threads
  PROVE  /\ message[t].number \in Nat /\ at[t] \in Places
         /\ Appended[t] \in Int /\ Queued[t] \in Int /\ Done[t] \in Int
<1>1. message[t].number \in 0..MaxMessages /\ MaxMessages \in Nat /\ at[t] \in Places
  BY LogAssumption DEF TypeOK
<1> QED BY <1>1 DEF Appended, Queued, Done

\* An element more, at the end.
LEMMA AppendAt ==
  ASSUME NEW S, NEW s \in Seq(S), NEW e \in S
  PROVE  /\ Append(s, e) \in Seq(S) /\ Len(Append(s, e)) = Len(s) + 1 /\ Len(s) \in Nat
         /\ DOMAIN Append(s, e) = 1..Len(s) + 1 /\ DOMAIN s = 1..Len(s)
         /\ \A i \in 1..Len(s) + 1 : Append(s, e)[i] = IF i = Len(s) + 1 THEN e ELSE s[i]
<1>1. /\ Append(s, e) \in Seq(S) /\ Len(Append(s, e)) = Len(s) + 1
      /\ \A i \in 1..Len(s) : Append(s, e)[i] = s[i]
      /\ Append(s, e)[Len(s) + 1] = e
  BY AppendProperties
<1> QED BY <1>1

\* A message that is newer than all of its thread keeps a sequence in order.
LEMMA AppendInOrder ==
  ASSUME NEW s \in Seq(Message), InOrder(s), NEW m \in Message,
         \A i \in DOMAIN s : s[i].thread = m.thread => s[i].number < m.number
  PROVE  InOrder(Append(s, m))
<1> DEFINE r == Append(s, m)
<1>1. /\ Len(s) \in Nat /\ DOMAIN r = 1..Len(s) + 1 /\ DOMAIN s = 1..Len(s)
      /\ \A i \in 1..Len(s) + 1 : r[i] = IF i = Len(s) + 1 THEN m ELSE s[i]
  BY AppendAt
<1> HIDE DEF r
<1>2. ASSUME NEW i \in DOMAIN r, NEW j \in DOMAIN r, i < j, r[i].thread = r[j].thread
      PROVE  r[i].number < r[j].number
  <2>1. i \in DOMAIN s /\ r[i] = s[i]
    BY <1>1, <1>2
  <2>2. CASE j = Len(s) + 1
    BY <1>1, <1>2, <2>1, <2>2
  <2>3. CASE j # Len(s) + 1
    BY <1>1, <1>2, <2>1, <2>3 DEF InOrder
  <2> QED BY <2>2, <2>3
<1>3. InOrder(r)
  BY <1>2 DEF InOrder
<1> QED BY <1>3 DEF r

\* The newest of a sequence that was no longer than the memory and got one more:
\* it, or all but its first element if there is no room.
LEMMA NewestOfAppend ==
  ASSUME NEW s \in Seq(Message), NEW m \in Message, Len(s) =< MemoryEntries
  PROVE  LET r == Newest(Append(s, m)) IN
         \E d \in {0, 1} :
           /\ r \in Seq(Message) /\ Len(r) = Len(s) + 1 - d /\ Len(r) =< MemoryEntries
           /\ Len(r) \in Nat \ {0} /\ Len(s) \in Nat
           /\ DOMAIN r = 1..Len(r) /\ DOMAIN s = 1..Len(s)
           /\ d = 1 => Len(r) = MemoryEntries /\ Len(s) = MemoryEntries
           /\ \A i \in 1..Len(r) : r[i] = IF i = Len(r) THEN m ELSE s[i + d]
           /\ \A i \in 1..Len(r) - 1 : i + d \in 1..Len(s)
<1> DEFINE a == Append(s, m)
           d == IF Len(a) > MemoryEntries THEN Len(a) - MemoryEntries ELSE 0
           r == SubSeq(a, 1 + d, Len(a))
<1>1. MemoryEntries \in Int /\ MemoryEntries > 0
  BY LogAssumption
<1>2. /\ a \in Seq(Message) /\ Len(a) = Len(s) + 1 /\ Len(s) \in Nat /\ DOMAIN s = 1..Len(s)
      /\ \A i \in 1..Len(s) + 1 : a[i] = IF i = Len(s) + 1 THEN m ELSE s[i]
  BY AppendAt
<1> HIDE DEF a
<1>3. /\ d \in {0, 1} /\ (d = 1 => Len(s) = MemoryEntries) /\ (d = 0 => Len(s) < MemoryEntries)
      /\ 1 + d \in 1..Len(a) + 1 /\ Len(a) \in 0..Len(a) /\ d \in Int
  <2>1. Len(a) \in Int /\ Len(s) \in Int /\ Len(a) = Len(s) + 1 /\ Len(s) >= 0 /\ Len(s) =< MemoryEntries
    BY <1>2
  <2>2. CASE Len(a) > MemoryEntries
    <3>1. Len(s) = MemoryEntries /\ d = 1
      BY <1>1, <2>1, <2>2
    <3> QED BY <1>1, <2>1, <3>1
  <2>3. CASE ~(Len(a) > MemoryEntries)
    <3>1. d = 0
      BY <2>3
    <3> QED BY <1>1, <2>1, <2>3, <3>1
  <2> QED BY <2>2, <2>3
<1>5. Newest(a) = r
  BY DEF Newest
<1> HIDE DEF d
<1>4. Len(s) + 1 - d =< MemoryEntries /\ Len(s) + 1 - d \in Nat \ {0}
  <2>1. CASE d = 0
    BY <1>1, <1>2, <1>3, <2>1
  <2>2. CASE d = 1
    BY <1>1, <1>2, <1>3, <2>2
  <2> QED BY <1>3, <2>1, <2>2
<1>6. /\ r \in Seq(Message)
      /\ Len(r) = IF 1 + d =< Len(a) THEN Len(a) - (1 + d) + 1 ELSE 0
      /\ \A i \in 1..Len(a) - (1 + d) + 1 : r[i] = a[1 + d + i - 1]
  BY <1>2, <1>3, SubSeqProperties
<1> HIDE DEF r
<1>7. Len(r) = Len(s) + 1 - d
  BY <1>2, <1>3, <1>4, <1>6
<1>8. ASSUME NEW i \in 1..Len(r) PROVE r[i] = IF i = Len(r) THEN m ELSE s[i + d]
  <2>1. r[i] = a[i + d] /\ i + d \in 1..Len(s) + 1 /\ (i + d = Len(s) + 1 <=> i = Len(r))
    BY <1>2, <1>3, <1>6, <1>7
  <2> QED BY <1>2, <2>1
<1>9. \A i \in 1..Len(r) - 1 : i + d \in 1..Len(s)
  BY <1>2, <1>3, <1>7
<1>10. DOMAIN r = 1..Len(r)
  BY <1>6
<1> QED BY <1>2, <1>3, <1>4, <1>5, <1>6, <1>7, <1>8, <1>9, <1>10 DEF a

\* It stays in order.
LEMMA NewestInOrder ==
  ASSUME NEW s \in Seq(Message), NEW m \in Message, Len(s) =< MemoryEntries, InOrder(s),
         \A i \in DOMAIN s : s[i].thread = m.thread => s[i].number < m.number
  PROVE  InOrder(Newest(Append(s, m)))
<1> DEFINE r == Newest(Append(s, m))
<1>1. PICK d \in {0, 1} :
        /\ r \in Seq(Message) /\ Len(r) = Len(s) + 1 - d /\ Len(r) =< MemoryEntries
        /\ Len(r) \in Nat \ {0} /\ Len(s) \in Nat
        /\ DOMAIN r = 1..Len(r) /\ DOMAIN s = 1..Len(s)
        /\ d = 1 => Len(r) = MemoryEntries /\ Len(s) = MemoryEntries
        /\ \A i \in 1..Len(r) : r[i] = IF i = Len(r) THEN m ELSE s[i + d]
        /\ \A i \in 1..Len(r) - 1 : i + d \in 1..Len(s)
  BY NewestOfAppend
<1> HIDE DEF r
<1>2. ASSUME NEW i \in DOMAIN r, NEW j \in DOMAIN r, i < j, r[i].thread = r[j].thread
      PROVE  r[i].number < r[j].number
  <2>0. i \in 1..Len(r) /\ j \in 1..Len(r) /\ i \in 1..Len(r) - 1 /\ i # Len(r)
    BY <1>1, <1>2
  <2>1. i \in 1..Len(r) - 1 /\ i + d \in DOMAIN s /\ r[i] = s[i + d]
    BY <1>1, <2>0
  <2>2. CASE j = Len(r)
    BY <1>1, <1>2, <2>1, <2>2
  <2>3. CASE j # Len(r)
    <3>0. j \in 1..Len(r) - 1
      BY <1>1, <2>0, <2>3
    <3>1. j + d \in DOMAIN s /\ r[j] = s[j + d] /\ i + d < j + d
      <4>1. d \in Int /\ i \in Int /\ j \in Int
        BY <1>1, <2>0
      <4>2. i + d < j + d
        BY <1>2, <4>1
      <4>3. j + d \in DOMAIN s
        BY <1>1, <3>0
      <4>4. r[j] = s[j + d]
        BY <1>1, <2>0, <2>3
      <4> QED BY <4>2, <4>3, <4>4
    <3> QED BY <1>2, <2>1, <3>1 DEF InOrder
  <2> QED BY <2>2, <2>3
<1>3. InOrder(r)
  BY <1>2 DEF InOrder
<1> QED BY <1>3 DEF r

-----------------------------------------------------------------------------
(***************************************************************************)
(* The log handler                                                         *)
(***************************************************************************)

\* A thread goes on from one place to the next.
LEMMA StepAt ==
  ASSUME TypeOK, NEW t \in Threads, NEW from, NEW to \in Places, Step(t, from, to)
  PROVE  /\ process = "running" /\ at[t] = from
         /\ at' \in [Threads -> Places] /\ at'[t] = to
         /\ \A u \in Threads : u # t => at'[u] = at[u]
BY DEF Step, TypeOK

\* Writing the chunk loses nothing and only makes the file longer.
LEMMA WriteChunkEffect ==
  ASSUME TypeOK, WriteChunk
  PROVE  /\ Written' = Written
         /\ file' \in Seq(Message) /\ chunk' \in Seq(Message)
         /\ file' = file \/ file' = Written
         /\ fileOpen => file' = Written
<1>1. file \in Seq(Message) /\ chunk \in Seq(Message)
  BY DEF TypeOK
<1>2. CASE fileOpen
  <2>1. file' = file \o chunk /\ chunk' = <<>>
    BY <1>2 DEF WriteChunk
  <2>2. file \o chunk \in Seq(Message) /\ (file \o chunk) \o <<>> = file \o chunk
    BY <1>1, ConcatProperties, ConcatEmptySeq
  <2>3. <<>> \in Seq(Message)
    OBVIOUS
  <2> QED BY <2>1, <2>2, <2>3 DEF Written
<1>3. CASE ~fileOpen
  BY <1>1, <1>3 DEF WriteChunk, Written
<1> QED BY <1>2, <1>3

\* What is in the file stays there.
LEMMA FileGrows ==
  ASSUME TypeOK, file' = file \/ file' = Written, NEW m, Contains(file, m)
  PROVE  Contains(file', m)
<1>1. file \in Seq(Message) /\ chunk \in Seq(Message)
  BY DEF TypeOK
<1>2. PICK i \in 1..Len(file) : file[i] = m
  BY DEF Contains
<1>3. /\ Len(Written) = Len(file) + Len(chunk)
      /\ Len(file) \in Nat /\ Len(chunk) \in Nat
      /\ \A k \in 1..Len(file) + Len(chunk) :
           Written[k] = IF k =< Len(file) THEN file[k] ELSE chunk[k - Len(file)]
  BY <1>1, ConcatProperties DEF Written
<1>4. i \in 1..Len(Written) /\ Written[i] = m
  BY <1>2, <1>3
<1> QED BY <1>2, <1>4 DEF Contains

\* Steps that write nothing new: every message counts as queued or as new.
LEMMA SameWritten ==
  ASSUME LogInv, Written' = Written,
         \A u \in Threads : Queued'[u] = Queued[u],
         \A u \in Threads : \/ message'[u] = message[u]
                            \/ message'[u].number > Queued[u]
  PROVE  NoMessageLost' /\ LatestWritten'
<1>1. Written \in Seq(Message)
  BY ConcatProperties DEF LogInv, TypeOK, Written
<1>2. \A i \in DOMAIN Written : Written[i].thread \in Threads
  BY <1>1, MessageFields
<1>3. NoMessageLost'
  BY <1>2 DEF LogInv, NoMessageLost, InOrder
<1>4. ASSUME NEW i \in DOMAIN Written, Written[i].number = message'[Written[i].thread].number
      PROVE  Written[i] = Latest(Written[i].thread)'
  <2>1. Written[i].number =< Queued[Written[i].thread] /\ Queued[Written[i].thread] \in Int
    BY <1>2, CounterTypes DEF LogInv, NoMessageLost
  <2>2. Written[i].number \in Int
    BY <1>1, MessageFields
  <2>3. message'[Written[i].thread] = message[Written[i].thread]
    BY <1>2, <1>4, <2>1, <2>2
  <2> QED BY <1>4, <2>3 DEF LogInv, LatestWritten, Latest
<1>5. LatestWritten'
  BY <1>4 DEF LatestWritten
<1> QED BY <1>3, <1>5

\* A thread whose last message did not change has its warning in the file still.
LEMMA StillOnDisk ==
  ASSUME LogInv, file' = file \/ file' = Written, fileOpen' = fileOpen, fileOpen,
         NEW t \in Threads, message'[t] = message[t], message[t].level = "warning",
         message[t].number > 0, at[t] \in {"emit", "idle"}
  PROVE  Contains(file', Latest(t)')
<1>1. Contains(file, Latest(t))
  BY DEF LogInv, ImportantIsOnDisk
<1>2. Latest(t)' = Latest(t)
  BY DEF Latest
<1> QED BY <1>1, <1>2, FileGrows DEF LogInv

\* More messages may have been appended.
LEMMA MoreAppended ==
  ASSUME NEW s, NEW n, NEW n2, EntriesOK(s, n),
         \A u \in Threads : n[u] \in Int /\ n2[u] \in Int /\ n[u] =< n2[u]
  PROVE  EntriesOK(s, n2)
<1>1. ASSUME NEW i \in DOMAIN s PROVE s[i].number =< n2[s[i].thread]
  <2>1. s[i] \in Message
    BY DEF EntriesOK
  <2>2. s[i].thread \in Threads /\ s[i].number \in Nat /\ s[i].number =< n[s[i].thread]
    BY <2>1, MessageFields DEF EntriesOK
  <2> QED BY <2>2
<1> QED BY <1>1 DEF EntriesOK

\* Steps in which no entry is added.
LEMMA EntriesKept ==
  ASSUME LogInv, TypeOK', entries' = entries,
         \A u \in Threads : seen'[u] \in {seen[u], entries},
         \A u \in Threads : Appended[u] =< Appended'[u]
  PROVE  EntriesOK(entries, Appended)' /\ \A u \in Threads : EntriesOK(seen[u], Appended)'
<1>1. \A u \in Threads : Appended[u] \in Int /\ Appended'[u] \in Int
  <2>1. \A u \in Threads : message'[u].number \in 0..MaxMessages /\ MaxMessages \in Nat
    BY LogAssumption DEF TypeOK
  <2> QED BY <2>1, CounterTypes DEF LogInv, Appended
<1>2. \A s : EntriesOK(s, Appended) => EntriesOK(s, Appended')
  BY <1>1, MoreAppended
<1> QED BY <1>2 DEF LogInv

\* Steps that write nothing new and finish no warning.
LEMMA DiskKept ==
  ASSUME LogInv, file' = file \/ file' = Written, fileOpen' = fileOpen,
         \A u \in Threads :
           message'[u].level = "warning" /\ at'[u] \in {"emit", "idle"} =>
             message'[u] = message[u] /\ at[u] \in {"emit", "idle"}
  PROVE  ImportantIsOnDisk'
BY StillOnDisk DEF ImportantIsOnDisk

\* Steps of the others, in which no thread moves.
LEMMA NobodyMoves ==
  ASSUME LogInv, UNCHANGED <<at, message, seen, entries, fileOpen>>,
         Written' = Written, file' \in Seq(Message), chunk' \in Seq(Message),
         file' = file \/ file' = Written, process' \in {"running", "crashed", "over"}
  PROVE  LogInv'
<1>1. TypeOK'
  BY DEF LogInv, TypeOK
<1>2. \A u \in Threads : Queued'[u] = Queued[u] /\ Appended'[u] = Appended[u]
  BY DEF Queued, Appended
<1>3. \A u \in Threads : message[u].number \in Nat /\ Appended[u] \in Int
  BY CounterTypes DEF LogInv
<1>4. NoMessageLost' /\ LatestWritten'
  BY <1>2, SameWritten
<1>5. EntriesOK(entries, Appended)' /\ \A u \in Threads : EntriesOK(seen[u], Appended)'
  BY <1>1, <1>2, <1>3, EntriesKept
<1>6. ImportantIsOnDisk'
  BY DiskKept
<1> QED BY <1>1, <1>4, <1>5, <1>6 DEF LogInv

LEMMA LogStep == ASSUME LogInv, NEW t \in Threads, NEW level \in Levels, Log(t, level) PROVE LogInv'
<1>1. /\ at[t] = "idle" /\ at' \in [Threads -> Places] /\ at'[t] = "append"
      /\ \A u \in Threads : u # t => at'[u] = at[u]
  BY StepAt DEF LogInv, Log, Places
<1>2. /\ message[t].number < MaxMessages
      /\ message' = [message EXCEPT ![t] = [number |-> @.number + 1, level |-> level]]
      /\ UNCHANGED <<seen, entries, chunk, file, fileOpen, process>>
  BY DEF Log
<1>3. /\ message[t].number \in Nat /\ MaxMessages \in Nat
      /\ message \in [Threads -> [number : 0..MaxMessages, level : Levels]]
  BY LogAssumption, CounterTypes DEF LogInv, TypeOK
<1>4. /\ message'[t] = [number |-> message[t].number + 1, level |-> level]
      /\ \A u \in Threads : u # t => message'[u] = message[u]
  BY <1>2, <1>3
<1>5. message' \in [Threads -> [number : 0..MaxMessages, level : Levels]]
  BY <1>2, <1>3
<1>6. TypeOK'
  BY <1>1, <1>2, <1>5 DEF LogInv, TypeOK
<1>7. ASSUME NEW u \in Threads
      PROVE  /\ Queued'[u] = Queued[u] /\ Appended'[u] = Appended[u]
             /\ message[u].number \in Nat /\ Appended[u] \in Int /\ Queued[u] \in Int
             /\ message'[u].number >= message[u].number
             /\ message'[u] = message[u] \/ message'[u].number > Queued[u]
             /\ at'[u] # "idle" => message'[u].number # 0
  <2>1. message[u].number \in Nat /\ Appended[u] \in Int /\ Queued[u] \in Int
    BY CounterTypes DEF LogInv
  <2>2. CASE u = t
    BY <1>1, <1>4, <2>1, <2>2 DEF Queued, Appended
  <2>3. CASE u # t
    BY <1>1, <1>4, <2>1, <2>3 DEF Queued, Appended, LogInv
  <2> QED BY <2>1, <2>2, <2>3
<1>8. NoMessageLost' /\ LatestWritten'
  BY <1>2, <1>7, SameWritten DEF Written
<1>9. EntriesOK(entries, Appended)' /\ \A u \in Threads : EntriesOK(seen[u], Appended)'
  BY <1>2, <1>6, <1>7, EntriesKept
<1>10. ImportantIsOnDisk'
  BY <1>1, <1>2, <1>4, DiskKept
<1> QED BY <1>6, <1>7, <1>8, <1>9, <1>10 DEF LogInv

\* A thread that goes on, without a new message, after the append and before the
\* queue or after it.
LEMMA MovesOn ==
  ASSUME LogInv, NEW t \in Threads, NEW from, NEW to \in Places, Step(t, from, to),
         from \in {"append", "appending", "queue"} <=> to \in {"append", "appending", "queue"},
         from \in {"append", "appending"} \/ to \notin {"append", "appending"},
         from # "idle", message' = message
  PROVE  /\ at' \in [Threads -> Places] /\ at[t] = from /\ at'[t] = to
         /\ \A u \in Threads : u # t => at'[u] = at[u]
         /\ \A u \in Threads :
              /\ Queued'[u] = Queued[u] /\ Appended[u] =< Appended'[u]
              /\ message'[u].number >= message[u].number
              /\ at'[u] # "idle" => message'[u].number # 0
<1>1. /\ at' \in [Threads -> Places] /\ at[t] = from /\ at'[t] = to
      /\ \A u \in Threads : u # t => at'[u] = at[u]
  BY StepAt DEF LogInv
<1>2. ASSUME NEW u \in Threads
      PROVE  /\ Queued'[u] = Queued[u] /\ Appended[u] =< Appended'[u]
             /\ message'[u].number >= message[u].number
             /\ at'[u] # "idle" => message'[u].number # 0
  <2>1. message[u].number \in Nat
    BY CounterTypes DEF LogInv
  <2>2. CASE u = t
    BY <1>1, <2>1, <2>2 DEF Queued, Appended, LogInv
  <2>3. CASE u # t
    BY <1>1, <2>1, <2>3 DEF Queued, Appended, LogInv
  <2> QED BY <2>2, <2>3
<1> QED BY <1>1, <1>2

LEMMA BeginAppendStep == ASSUME LogInv, NEW t \in Threads, BeginAppend(t) PROVE LogInv'
<1>1. /\ Step(t, "append", "appending") /\ seen' = [seen EXCEPT ![t] = entries]
      /\ UNCHANGED <<message, entries, chunk, file, fileOpen, process>>
  BY DEF BeginAppend
<1>2. /\ at' \in [Threads -> Places] /\ at[t] = "append" /\ at'[t] = "appending"
      /\ \A u \in Threads : u # t => at'[u] = at[u]
      /\ \A u \in Threads :
           /\ Queued'[u] = Queued[u] /\ Appended[u] =< Appended'[u]
           /\ message'[u].number >= message[u].number
           /\ at'[u] # "idle" => message'[u].number # 0
  BY <1>1, MovesOn DEF Places
<1>3. TypeOK' /\ \A u \in Threads : seen'[u] \in {seen[u], entries}
  BY <1>1, <1>2 DEF LogInv, TypeOK
<1>4. NoMessageLost' /\ LatestWritten'
  BY <1>1, <1>2, SameWritten DEF Written
<1>5. EntriesOK(entries, Appended)' /\ \A u \in Threads : EntriesOK(seen[u], Appended)'
  BY <1>1, <1>2, <1>3, EntriesKept
<1>6. ImportantIsOnDisk'
  BY <1>1, <1>2, DiskKept
<1> QED BY <1>2, <1>3, <1>4, <1>5, <1>6 DEF LogInv

\* What a thread saw of the entries has none of its new message.
LEMMA EndAppendStep == ASSUME LogInv, NEW t \in Threads, EndAppend(t) PROVE LogInv'
<1>1. /\ Step(t, "appending", "queue")
      /\ entries' = Newest(Append(seen[t], Latest(t)))
      /\ seen' = [seen EXCEPT ![t] = <<>>]
      /\ UNCHANGED <<message, chunk, file, fileOpen, process>>
  BY DEF EndAppend
<1>2. /\ at' \in [Threads -> Places] /\ at[t] = "appending" /\ at'[t] = "queue"
      /\ \A u \in Threads : u # t => at'[u] = at[u]
      /\ \A u \in Threads :
           /\ Queued'[u] = Queued[u] /\ Appended[u] =< Appended'[u]
           /\ message'[u].number >= message[u].number
           /\ at'[u] # "idle" => message'[u].number # 0
  BY <1>1, MovesOn DEF Places
<1>3. /\ EntriesOK(seen[t], Appended) /\ message[t].number \in Nat
      /\ Latest(t) \in Message /\ Latest(t).thread = t /\ Latest(t).number = message[t].number
  BY <1>2, LatestIs, CounterTypes DEF LogInv
<1> DEFINE m == Latest(t)
           s == seen[t]
           r == Newest(Append(s, m))
<1>4. \A i \in DOMAIN s : s[i].thread = t => s[i].number < m.number
  <2> TAKE i \in DOMAIN s
  <2>1. s[i] \in Message /\ s[i].number \in Nat /\ s[i].number =< Appended[s[i].thread]
    BY <1>3, MessageFields DEF EntriesOK
  <2>2. Appended[t] = message[t].number - 1
    BY <1>2 DEF Appended
  <2> QED BY <1>3, <2>1, <2>2
<1>5. PICK d \in {0, 1} :
        /\ r \in Seq(Message) /\ Len(r) = Len(s) + 1 - d /\ Len(r) =< MemoryEntries
        /\ Len(r) \in Nat \ {0} /\ Len(s) \in Nat
        /\ DOMAIN r = 1..Len(r) /\ DOMAIN s = 1..Len(s)
        /\ d = 1 => Len(r) = MemoryEntries /\ Len(s) = MemoryEntries
        /\ \A i \in 1..Len(r) : r[i] = IF i = Len(r) THEN m ELSE s[i + d]
        /\ \A i \in 1..Len(r) - 1 : i + d \in 1..Len(s)
  BY <1>3, NewestOfAppend DEF EntriesOK
<1>6. InOrder(r)
  BY <1>3, <1>4, NewestInOrder DEF EntriesOK
<1>7. TypeOK'
  <2>1. seen' \in [Threads -> Seq(Message)]
    BY <1>1 DEF LogInv, TypeOK
  <2> QED BY <1>1, <1>2, <1>5, <2>1 DEF LogInv, TypeOK
<1>8. \A q : EntriesOK(q, Appended) => EntriesOK(q, Appended')
  <2>1. \A u \in Threads : message'[u].number \in 0..MaxMessages /\ MaxMessages \in Nat
    BY <1>7, LogAssumption DEF TypeOK
  <2>2. \A u \in Threads : Appended[u] \in Int /\ Appended'[u] \in Int
    BY <2>1, CounterTypes DEF LogInv, Appended
  <2> QED BY <1>2, <2>2, MoreAppended
<1>9. ASSUME NEW i \in DOMAIN r PROVE r[i].number =< Appended'[r[i].thread]
  <2>1. CASE i = Len(r)
    <3>1. r[i] = m
      BY <1>5, <2>1
    <3>2. Appended'[t] = message[t].number
      BY <1>1, <1>2, <1>3 DEF Appended
    <3> QED BY <1>3, <3>1, <3>2
  <2>2. CASE i # Len(r)
    <3>1. i \in 1..Len(r) - 1
      BY <1>5, <2>2
    <3>2. i + d \in DOMAIN s /\ r[i] = s[i + d]
      BY <1>5, <2>2, <3>1
    <3> QED BY <1>3, <1>8, <3>2 DEF EntriesOK
  <2> QED BY <2>1, <2>2
<1>10. EntriesOK(entries, Appended)'
  <2> HIDE DEF r
  <2>1. entries' = r
    BY <1>1 DEF r
  <2> QED BY <1>5, <1>6, <1>9, <2>1 DEF EntriesOK
<1>11. ASSUME NEW u \in Threads PROVE EntriesOK(seen[u], Appended)'
  <2>1. CASE u = t
    <3>1. seen'[u] = <<>>
      BY <1>1, <2>1 DEF LogInv, TypeOK
    <3>2. <<>> \in Seq(Message) /\ Len(<<>>) = 0 /\ DOMAIN <<>> = {} /\ 0 =< MemoryEntries
      BY LogAssumption
    <3> QED BY <3>1, <3>2 DEF EntriesOK, InOrder
  <2>2. CASE u # t
    <3>1. seen'[u] = seen[u] /\ EntriesOK(seen[u], Appended)
      BY <1>1, <2>2 DEF LogInv, TypeOK
    <3> QED BY <1>8, <3>1
  <2> QED BY <2>1, <2>2
<1>12. NoMessageLost' /\ LatestWritten'
  BY <1>1, <1>2, SameWritten DEF Written
<1>13. ImportantIsOnDisk'
  BY <1>1, <1>2, DiskKept
<1> QED BY <1>2, <1>7, <1>10, <1>11, <1>12, <1>13 DEF LogInv

\* The message of a thread is the next of its messages to be queued.
LEMMA QueueStep == ASSUME LogInv, NEW t \in Threads, Queue(t) PROVE LogInv'
<1> DEFINE to == IF message[t].level = "warning" THEN "flush" ELSE "emit"
           m == Latest(t)
           w == Written
<1>1. /\ Step(t, "queue", to) /\ chunk' = Append(chunk, m)
      /\ UNCHANGED <<message, seen, entries, file, fileOpen, process>>
  BY DEF Queue
<1>2. /\ at' \in [Threads -> Places] /\ at[t] = "queue" /\ at'[t] = to
      /\ \A u \in Threads : u # t => at'[u] = at[u]
  BY <1>1, StepAt DEF LogInv, Places
<1>3. /\ message[t].number \in Nat /\ message[t].number # 0
      /\ m \in Message /\ m.thread = t /\ m.number = message[t].number
  BY <1>2, LatestIs, CounterTypes DEF LogInv
<1>4. /\ file \in Seq(Message) /\ chunk \in Seq(Message) /\ w \in Seq(Message)
      /\ Written' = Append(w, m)
  <2>1. file \in Seq(Message) /\ chunk \in Seq(Message)
    BY DEF LogInv, TypeOK
  <2>2. file \o Append(chunk, m) = Append(file \o chunk, m)
    <3>1. /\ Append(chunk, m) = chunk \o <<m>> /\ <<m>> \in Seq(Message)
          /\ Append(file \o chunk, m) = (file \o chunk) \o <<m>>
      BY <1>3, <2>1, AppendIsConcat, ConcatProperties
    <3>2. file \o (chunk \o <<m>>) = (file \o chunk) \o <<m>>
      BY <2>1, <3>1, ConcatAssociative
    <3> QED BY <3>1, <3>2
  <2> QED BY <1>1, <2>1, <2>2, ConcatProperties DEF Written
<1>5. chunk' \in Seq(Message)
  BY <1>1, <1>3, <1>4
<1>6. TypeOK'
  BY <1>1, <1>2, <1>5 DEF LogInv, TypeOK
<1>7. ASSUME NEW u \in Threads
      PROVE  /\ Queued'[u] = IF u = t THEN message[t].number ELSE Queued[u]
             /\ Queued[t] = message[t].number - 1
             /\ Queued[u] \in Int
             /\ Appended'[u] = Appended[u] /\ Appended[u] \in Int
             /\ at'[u] # "idle" => message'[u].number # 0
  <2>1. message[u].number \in Nat /\ Queued[u] \in Int /\ Appended[u] \in Int
    BY CounterTypes DEF LogInv
  <2>2. CASE u = t
    BY <1>1, <1>2, <1>3, <2>1, <2>2 DEF Queued, Appended
  <2>3. CASE u # t
    BY <1>1, <1>2, <2>1, <2>3 DEF Queued, Appended, LogInv
  <2> QED BY <1>2, <1>3, <2>1, <2>2, <2>3 DEF Queued
<1> DEFINE v == Append(w, m)
<1>8. /\ v \in Seq(Message) /\ Len(w) \in Nat
      /\ DOMAIN v = 1..Len(w) + 1 /\ DOMAIN w = 1..Len(w)
      /\ \A i \in 1..Len(w) + 1 : v[i] = IF i = Len(w) + 1 THEN m ELSE w[i]
  BY <1>3, <1>4, AppendAt
<1>9. /\ \A i \in DOMAIN w : w[i].number =< Queued[w[i].thread]
      /\ \A u \in Threads : \A n \in 1..Queued[u] : \E i \in DOMAIN w : w[i].thread = u /\ w[i].number = n
      /\ InOrder(w)
      /\ \A i \in DOMAIN w : w[i].number = message[w[i].thread].number => w[i] = Latest(w[i].thread)
  BY DEF LogInv, NoMessageLost, LatestWritten
<1>10. \A i \in DOMAIN w : w[i].thread \in Threads /\ w[i].number \in Nat
  BY <1>4, MessageFields
<1>11. InOrder(v)
  <2>1. \A i \in DOMAIN w : w[i].thread = m.thread => w[i].number < m.number
    BY <1>3, <1>7, <1>9, <1>10
  <2> QED BY <1>3, <1>4, <1>9, <2>1, AppendInOrder
<1> HIDE DEF m, v, w
<1>12. ASSUME NEW u \in Threads, NEW n \in 1..Queued'[u]
       PROVE  \E i \in DOMAIN v : v[i].thread = u /\ v[i].number = n
  <2>1. CASE n \in 1..Queued[u]
    <3>1. PICK i \in DOMAIN w : w[i].thread = u /\ w[i].number = n
      BY <1>9, <2>1
    <3>2. i \in DOMAIN v /\ v[i] = w[i]
      BY <1>8
    <3> QED BY <3>1, <3>2
  <2>2. CASE n \notin 1..Queued[u]
    <3>1. u = t /\ n = message[t].number
      BY <1>3, <1>7, <1>12, <2>2
    <3>2. Len(w) + 1 \in DOMAIN v /\ v[Len(w) + 1] = m
      BY <1>8
    <3> QED BY <1>3, <3>1, <3>2
  <2> QED BY <2>1, <2>2
<1>13. ASSUME NEW i \in DOMAIN v
       PROVE  /\ v[i].thread \in Threads
              /\ v[i].number =< Queued'[v[i].thread]
              /\ v[i].number = message[v[i].thread].number => v[i] = Latest(v[i].thread)
  <2>1. CASE i = Len(w) + 1
    <3>1. v[i] = m
      BY <1>8, <2>1
    <3>2. Queued'[t] = m.number
      BY <1>3, <1>7
    <3> QED BY <1>1, <1>3, <3>1, <3>2 DEF m, Queued
  <2>2. CASE i # Len(w) + 1
    <3>1. i \in DOMAIN w /\ v[i] = w[i]
      BY <1>8, <2>2
    <3> DEFINE u == w[i].thread
    <3>2. u \in Threads /\ w[i].number \in Nat /\ w[i].number =< Queued[u]
      BY <1>9, <1>10, <3>1
    <3>3. w[i].number = message[u].number => w[i] = Latest(u)
      BY <1>9, <3>1
    <3> HIDE DEF u
    <3>4. Queued[u] =< IF u = t THEN message[t].number ELSE Queued[u]
      BY <1>3, <1>7, <3>2
    <3> QED BY <1>3, <1>7, <3>1, <3>2, <3>3, <3>4 DEF u
  <2> QED BY <2>1, <2>2
<1>14. Written' = v
  BY <1>4 DEF v
<1>15. NoMessageLost'
  BY <1>11, <1>12, <1>13, <1>14 DEF NoMessageLost, InOrder
<1>16. LatestWritten'
  BY <1>1, <1>13, <1>14 DEF LatestWritten, Latest
<1>17. EntriesOK(entries, Appended)' /\ \A u \in Threads : EntriesOK(seen[u], Appended)'
  BY <1>1, <1>6, <1>7, EntriesKept
<1>18. ImportantIsOnDisk'
  BY <1>1, <1>2, DiskKept
<1> QED BY <1>6, <1>7, <1>15, <1>16, <1>17, <1>18 DEF LogInv

\* A warning that was queued is in what the flush writes.
LEMMA FlushStep == ASSUME LogInv, NEW t \in Threads, Flush(t) PROVE LogInv'
<1>1. /\ Step(t, "flush", "emit") /\ WriteChunk
      /\ UNCHANGED <<message, seen, entries, fileOpen, process>>
  BY DEF Flush
<1>2. /\ at' \in [Threads -> Places] /\ at[t] = "flush" /\ at'[t] = "emit"
      /\ \A u \in Threads : u # t => at'[u] = at[u]
      /\ \A u \in Threads :
           /\ Queued'[u] = Queued[u] /\ Appended[u] =< Appended'[u]
           /\ message'[u].number >= message[u].number
           /\ at'[u] # "idle" => message'[u].number # 0
  BY <1>1, MovesOn DEF Places
<1>3. /\ Written' = Written /\ file' \in Seq(Message) /\ chunk' \in Seq(Message)
      /\ file' = file \/ file' = Written
      /\ fileOpen => file' = Written
  BY <1>1, WriteChunkEffect DEF LogInv
<1>4. TypeOK'
  BY <1>1, <1>2, <1>3 DEF LogInv, TypeOK
<1>5. NoMessageLost' /\ LatestWritten'
  BY <1>1, <1>2, <1>3, SameWritten
<1>6. EntriesOK(entries, Appended)' /\ \A u \in Threads : EntriesOK(seen[u], Appended)'
  BY <1>1, <1>2, <1>4, EntriesKept
<1>7. Contains(Written, Latest(t))
  <2>1. Queued[t] = message[t].number /\ message[t].number \in 1..Queued[t]
    BY <1>2, CounterTypes DEF LogInv, Queued
  <2>2. PICK i \in DOMAIN Written : Written[i].thread = t /\ Written[i].number = message[t].number
    BY <2>1 DEF LogInv, NoMessageLost
  <2>3. Written[i] = Latest(t)
    BY <2>2 DEF LogInv, LatestWritten
  <2>4. Written \in Seq(Message)
    BY ConcatProperties DEF LogInv, TypeOK, Written
  <2>5. i \in 1..Len(Written)
    BY <2>4
  <2> QED BY <2>3, <2>5 DEF Contains
<1>8. ASSUME fileOpen, NEW u \in Threads, message'[u].level = "warning",
             message'[u].number > 0, at'[u] \in {"emit", "idle"}
      PROVE  Contains(file', Latest(u)')
  <2>1. CASE u = t
    BY <1>1, <1>3, <1>7, <1>8, <2>1 DEF Latest
  <2>2. CASE u # t
    BY <1>1, <1>2, <1>3, <1>8, <2>2, StillOnDisk
  <2> QED BY <2>1, <2>2
<1>9. ImportantIsOnDisk'
  BY <1>1, <1>8 DEF ImportantIsOnDisk
<1> QED BY <1>2, <1>4, <1>5, <1>6, <1>9 DEF LogInv

LEMMA EmitStep == ASSUME LogInv, NEW t \in Threads, EmitNewEntry(t) PROVE LogInv'
<1>1. /\ Step(t, "emit", "idle")
      /\ UNCHANGED <<message, seen, entries, chunk, file, fileOpen, process>>
  BY DEF EmitNewEntry
<1>2. /\ at' \in [Threads -> Places] /\ at[t] = "emit" /\ at'[t] = "idle"
      /\ \A u \in Threads : u # t => at'[u] = at[u]
      /\ \A u \in Threads :
           /\ Queued'[u] = Queued[u] /\ Appended[u] =< Appended'[u]
           /\ message'[u].number >= message[u].number
           /\ at'[u] # "idle" => message'[u].number # 0
  BY <1>1, MovesOn DEF Places
<1>3. TypeOK'
  BY <1>1, <1>2 DEF LogInv, TypeOK
<1>4. NoMessageLost' /\ LatestWritten'
  BY <1>1, <1>2, SameWritten DEF Written
<1>5. EntriesOK(entries, Appended)' /\ \A u \in Threads : EntriesOK(seen[u], Appended)'
  BY <1>1, <1>2, <1>3, EntriesKept
<1>6. ImportantIsOnDisk'
  BY <1>1, <1>2, DiskKept
<1> QED BY <1>2, <1>3, <1>4, <1>5, <1>6 DEF LogInv

LEMMA InitLogInv == Init => LogInv
<1> SUFFICES ASSUME Init PROVE LogInv
  OBVIOUS
<1>1. /\ at = [t \in Threads |-> "idle"]
      /\ message = [t \in Threads |-> [number |-> 0, level |-> "debug"]]
      /\ seen = [t \in Threads |-> <<>>]
      /\ entries = <<>> /\ chunk = <<>> /\ file = <<>>
      /\ fileOpen \in BOOLEAN /\ process = "running"
  BY DEF Init
<1>2. <<>> \in Seq(Message) /\ Len(<<>>) = 0 /\ DOMAIN <<>> = {} /\ 0 =< MemoryEntries /\ 0 \in 0..MaxMessages
  BY LogAssumption
<1>3. TypeOK
  BY <1>1, <1>2 DEF TypeOK, Levels, Places
<1>4. EntriesOK(<<>>, Appended)
  BY <1>2 DEF EntriesOK, InOrder
<1>5. Written = <<>>
  BY <1>1 DEF Written
<1>6. \A t \in Threads : Queued[t] = 0 /\ message[t].number = 0 /\ seen[t] = <<>> /\ at[t] = "idle"
  BY <1>1 DEF Queued
<1>7. NoMessageLost /\ LatestWritten
  BY <1>2, <1>5, <1>6 DEF NoMessageLost, LatestWritten, InOrder
<1>8. ImportantIsOnDisk
  BY <1>6 DEF ImportantIsOnDisk
<1> QED BY <1>1, <1>3, <1>4, <1>6, <1>7, <1>8 DEF LogInv

LEMMA StepKeepsLogInv == LogInv /\ [Next]_vars => LogInv'
<1> SUFFICES ASSUME LogInv, [Next]_vars PROVE LogInv'
  OBVIOUS
<1>1. /\ file \in Seq(Message) /\ chunk \in Seq(Message)
      /\ process \in {"running", "crashed", "over"}
  BY DEF LogInv, TypeOK
<1>2. CASE FlushTimer
  BY <1>1, <1>2, WriteChunkEffect, NobodyMoves DEF FlushTimer, LogInv
<1>3. CASE Destroy
  BY <1>1, <1>3, WriteChunkEffect, NobodyMoves DEF Destroy, LogInv
<1>4. CASE Crash
  BY <1>1, <1>4, NobodyMoves DEF Crash, Written
<1>5. CASE UNCHANGED vars
  BY <1>1, <1>5, NobodyMoves DEF vars, Written
<1>6. ASSUME NEW t \in Threads, LogSome(t) \/ AddEntry(t) PROVE LogInv'
  BY <1>6, LogStep, BeginAppendStep, EndAppendStep, QueueStep, FlushStep, EmitStep DEF LogSome, AddEntry
<1> QED BY <1>2, <1>3, <1>4, <1>5, <1>6 DEF Next

\* The inductive invariant of the log handler by itself.
THEOREM LogInvariant == Spec => []LogInv
<1> QED BY InitLogInv, StepKeepsLogInv, PTL DEF Spec

-----------------------------------------------------------------------------
(***************************************************************************)
(* The rows of the dialog                                                  *)
(***************************************************************************)

\* Message h is past the newest row of its thread in s, or has given way.
RowsShow(s, h) ==
  \/ \E i \in DOMAIN s : s[i] = h /\ NewerAfter(s, i, h)
  \/ Len(s) = MemoryEntries /\ NewerAfter(s, 0, h)

\* The rows of the main thread are in order.
OwnInOrder(s) ==
  \A i, j \in DOMAIN s : i < j /\ s[i].thread = Main /\ s[j].thread = Main => s[i].number < s[j].number

\* What loadEntries makes of the entries.
LEMMA LoadedIs ==
  ASSUME LogInv, NEW least
  PROVE  /\ Loaded(least) \in Seq(Message) /\ Len(Loaded(least)) =< MemoryEntries
         /\ OwnInOrder(Loaded(least))
         /\ \A i \in DOMAIN Loaded(least) :
              Loaded(least)[i].thread = Main => Loaded(least)[i].number =< Appended[Main]
<1> DEFINE K == {i \in DOMAIN entries : AcceptsAt(entries[i], least)}
           r == Loaded(least)
<1>1. /\ entries \in Seq(Message) /\ Len(entries) =< MemoryEntries /\ InOrder(entries)
      /\ \A i \in DOMAIN entries : entries[i].number =< Appended[entries[i].thread]
  BY DEF LogInv, EntriesOK
<1>2. K \subseteq DOMAIN entries /\ r = Selected(entries, K)
  BY DEF Loaded
<1> HIDE DEF K, r
<1>3. /\ r \in Seq(Message) /\ Len(r) = Cardinality(K) /\ DOMAIN r = 1..Cardinality(K)
      /\ \A k \in DOMAIN r : Nth(K, k) \in K /\ r[k] = entries[Nth(K, k)]
      /\ \A k, l \in DOMAIN r : k < l => Nth(K, k) < Nth(K, l)
  BY <1>1, <1>2, SelectedEnumerates
<1>4. Cardinality(K) =< Len(entries)
  <2>1. Len(entries) \in Nat /\ K \subseteq 1..Len(entries)
    BY <1>1, <1>2
  <2>2. IsFiniteSet(1..Len(entries)) /\ Cardinality(1..Len(entries)) = Len(entries)
    BY <2>1, FS_Interval
  <2> QED BY <2>1, <2>2, FS_Subset
<1>5. Len(r) =< MemoryEntries
  <2>1. Cardinality(K) \in Int /\ Len(entries) \in Int /\ MemoryEntries \in Int
    BY <1>1, <1>3, LogAssumption
  <2> QED BY <1>1, <1>3, <1>4, <2>1
<1>6. OwnInOrder(r)
  BY <1>1, <1>2, <1>3 DEF OwnInOrder, InOrder
<1>7. \A i \in DOMAIN r : r[i].thread = Main => r[i].number =< Appended[Main]
  BY <1>1, <1>2, <1>3
<1> QED BY <1>3, <1>5, <1>6, <1>7 DEF r

\* What a new row does to the others.
LEMMA WithRowIs ==
  ASSUME NEW s \in Seq(Message), Len(s) =< MemoryEntries, NEW m \in Message
  PROVE  LET r == WithRow(s, m) IN
         /\ r \in Seq(Message) /\ Len(r) =< MemoryEntries
         /\ \A i \in DOMAIN r : r[i] = m \/ \E j \in DOMAIN s : r[i] = s[j]
         /\ OwnInOrder(s) /\ (\A i \in DOMAIN s : s[i].thread = Main /\ m.thread = Main => s[i].number < m.number)
              => OwnInOrder(r)
         /\ Accepts(m) => RowsShow(r, m)
         /\ \A h \in Message :
              RowsShow(s, h) /\ (m.thread = h.thread => m.number > h.number) => RowsShow(r, h)
<1> DEFINE r == WithRow(s, m)
<1>1. CASE ~Accepts(m)
  BY <1>1 DEF WithRow
<1>2. CASE Accepts(m)
  <2> DEFINE q == Newest(Append(s, m))
  <2>1. r = q
    BY <1>2 DEF WithRow
  <2>0. PICK d \in {0, 1} :
          /\ q \in Seq(Message) /\ Len(q) = Len(s) + 1 - d /\ Len(q) =< MemoryEntries
          /\ Len(q) \in Nat \ {0} /\ Len(s) \in Nat
          /\ DOMAIN q = 1..Len(q) /\ DOMAIN s = 1..Len(s)
          /\ d = 1 => Len(q) = MemoryEntries /\ Len(s) = MemoryEntries
          /\ \A i \in 1..Len(q) : q[i] = IF i = Len(q) THEN m ELSE s[i + d]
          /\ \A i \in 1..Len(q) - 1 : i + d \in 1..Len(s)
    BY NewestOfAppend
  <2> HIDE DEF r, q
  <2>2. /\ r \in Seq(Message) /\ Len(r) = Len(s) + 1 - d /\ Len(r) =< MemoryEntries
        /\ Len(r) \in Nat \ {0} /\ Len(s) \in Nat
        /\ DOMAIN r = 1..Len(r) /\ DOMAIN s = 1..Len(s)
        /\ d = 1 => Len(r) = MemoryEntries /\ Len(s) = MemoryEntries
        /\ \A i \in 1..Len(r) : r[i] = IF i = Len(r) THEN m ELSE s[i + d]
        /\ \A i \in 1..Len(r) - 1 : i + d \in 1..Len(s)
    BY <2>0, <2>1
  <2>3. ASSUME NEW i \in DOMAIN r
        PROVE  \/ i = Len(r) /\ r[i] = m
               \/ i # Len(r) /\ i + d \in DOMAIN s /\ r[i] = s[i + d]
    <3>1. CASE i = Len(r)
      BY <2>2, <3>1
    <3>2. CASE i # Len(r)
      <4>1. i \in 1..Len(r) - 1
        BY <2>2, <3>2
      <4> QED BY <2>2, <3>2, <4>1
    <3> QED BY <3>1, <3>2
  <2>4. d \in Int /\ Len(r) \in Int /\ Len(r) \in DOMAIN r /\ \A i \in DOMAIN r : i \in Int /\ i =< Len(r)
    BY <2>2
  <2>5. ASSUME OwnInOrder(s), \A i \in DOMAIN s : s[i].thread = Main /\ m.thread = Main => s[i].number < m.number
        PROVE  OwnInOrder(r)
    <3> SUFFICES ASSUME NEW i \in DOMAIN r, NEW j \in DOMAIN r, i < j, r[i].thread = Main, r[j].thread = Main
                 PROVE  r[i].number < r[j].number
      BY DEF OwnInOrder
    <3>1. i # Len(r)
      BY <2>4
    <3>2. i + d \in DOMAIN s /\ r[i] = s[i + d]
      BY <2>3, <3>1
    <3>3. CASE j = Len(r)
      <4>1. r[j] = m
        BY <2>3, <3>3
      <4> QED BY <2>5, <3>2, <4>1
    <3>4. CASE j # Len(r)
      <4>1. j + d \in DOMAIN s /\ r[j] = s[j + d] /\ i + d < j + d
        BY <2>3, <2>4, <3>4
      <4> QED BY <2>5, <3>2, <4>1 DEF OwnInOrder
    <3> QED BY <3>3, <3>4
  <2>6. RowsShow(r, m)
    <3>1. r[Len(r)] = m
      BY <2>3, <2>4
    <3>2. NewerAfter(r, Len(r), m)
      BY <2>4 DEF NewerAfter
    <3> QED BY <2>4, <3>1, <3>2 DEF RowsShow
  <2>7. ASSUME NEW h \in Message, RowsShow(s, h), m.thread = h.thread => m.number > h.number
        PROVE  RowsShow(r, h)
    <3>1. ASSUME NEW k \in Int, NewerAfter(s, k, h), k >= 0
          PROVE  NewerAfter(r, k - d, h)
      <4> SUFFICES ASSUME NEW j \in DOMAIN r, j > k - d, r[j].thread = h.thread
                   PROVE  r[j].number > h.number
        BY DEF NewerAfter
      <4>1. CASE j = Len(r)
        BY <2>3, <2>7, <4>1
      <4>2. CASE j # Len(r)
        <5>1. j + d \in DOMAIN s /\ r[j] = s[j + d] /\ j + d > k
          BY <2>3, <2>4, <4>2
        <5> QED BY <3>1, <5>1 DEF NewerAfter
      <4> QED BY <4>1, <4>2
    <3>2. CASE Len(s) = MemoryEntries /\ NewerAfter(s, 0, h)
      <4>1. d = 1 /\ Len(r) = MemoryEntries
        BY <2>2, <3>2
      <4>2. NewerAfter(r, 0 - d, h)
        BY <3>1, <3>2
      <4>3. NewerAfter(r, 0, h)
        BY <2>4, <4>1, <4>2 DEF NewerAfter
      <4> QED BY <4>1, <4>3 DEF RowsShow
    <3>3. ASSUME NEW i \in DOMAIN s, s[i] = h, NewerAfter(s, i, h)
          PROVE  RowsShow(r, h)
      <4>1. i \in Int /\ i >= 1 /\ i =< Len(s)
        BY <2>2
      <4>2. NewerAfter(r, i - d, h)
        BY <3>1, <3>3, <4>1
      <4>3. CASE i - d >= 1
        <5>1. i - d \in DOMAIN r /\ i - d # Len(r) /\ (i - d) + d = i
          BY <2>2, <2>4, <4>1, <4>3
        <5>2. r[i - d] = h
          BY <2>3, <3>3, <5>1
        <5> QED BY <4>2, <5>1, <5>2 DEF RowsShow
      <4>4. CASE ~(i - d >= 1)
        <5>1. d = 1 /\ i - d = 0 /\ Len(r) = MemoryEntries
          BY <2>2, <4>1, <4>4
        <5> QED BY <4>2, <5>1 DEF RowsShow
      <4> QED BY <4>3, <4>4
    <3> QED BY <2>7, <3>2, <3>3 DEF RowsShow
  <2>8. \A i \in DOMAIN r : r[i] = m \/ \E j \in DOMAIN s : r[i] = s[j]
    BY <2>3
  <2> QED BY <2>2, <2>5, <2>6, <2>7, <2>8 DEF r
<1> QED BY <1>1, <1>2

-----------------------------------------------------------------------------
(***************************************************************************)
(* The steps of the dialog                                                 *)
(***************************************************************************)

\* The dialog lets the log handler do nothing it would not do by itself.
LEMMA DialogStepsLog == DialogNext => [Next]_vars
<1> SUFFICES ASSUME DialogNext PROVE [Next]_vars
  OBVIOUS
<1>1. CASE FileSteps
  BY <1>1 DEF FileSteps, Next
<1>2. CASE OpenDialog \/ ConnectDialog \/ Deliver
  BY <1>2 DEF OpenDialog, ConnectDialog, Deliver
<1>3. ASSUME NEW level \in Levels, SetLogLevel(level) PROVE [Next]_vars
  BY <1>3 DEF SetLogLevel
<1>4. ASSUME NEW t \in Threads, LogAccepted(t) \/ Entered(t) \/ Emitted(t) PROVE [Next]_vars
  BY <1>4 DEF LogAccepted, Entered, Emitted, Next, LogSome, AddEntry
<1> QED BY <1>1, <1>2, <1>3, <1>4 DEF DialogNext

\* Only emitting a message counts as being done with it.
LEMMA NotDone ==
  ASSUME LogInv, FileSteps \/ \E t \in Threads : LogAccepted(t) \/ Entered(t)
  PROVE  \A u \in Threads : Done'[u] = Done[u]
<1>1. TypeOK
  BY DEF LogInv
<1>2. CASE FileSteps
  <2>1. UNCHANGED <<at, message>>
    BY <1>2 DEF FileSteps, Crash, FlushTimer, Destroy
  <2> QED BY <2>1 DEF Done
<1>3. ASSUME NEW t \in Threads, LogAccepted(t)
      PROVE  \A u \in Threads : Done'[u] = Done[u]
  <2>1. PICK level \in Levels : Log(t, level)
    BY <1>3 DEF LogAccepted
  <2>2. /\ Step(t, "idle", "append")
        /\ message' = [message EXCEPT ![t] = [number |-> @.number + 1, level |-> level]]
    BY <2>1 DEF Log
  <2>3. /\ at[t] = "idle" /\ at'[t] = "append"
        /\ \A u \in Threads : u # t => at'[u] = at[u]
    BY <1>1, <2>2, StepAt DEF Places
  <2>4. /\ message'[t].number = message[t].number + 1
        /\ \A u \in Threads : u # t => message'[u] = message[u]
    BY <1>1, <2>2 DEF TypeOK
  <2>5. message[t].number \in Nat
    BY <1>1, CounterTypes
  <2>6. Done[t] = message[t].number - 0
    BY <2>3 DEF Done
  <2>7. Done'[t] = message'[t].number - 1
    BY <2>3 DEF Done
  <2>8. Done'[t] = Done[t]
    BY <2>4, <2>5, <2>6, <2>7
  <2>9. \A u \in Threads : u # t => Done'[u] = Done[u]
    BY <2>3, <2>4 DEF Done
  <2> QED BY <2>8, <2>9
<1>4. ASSUME NEW t \in Threads, Entered(t)
      PROVE  \A u \in Threads : Done'[u] = Done[u]
  <2>1. PICK from \in Places \ {"idle"}, to \in Places \ {"idle"} : Step(t, from, to) /\ message' = message
    <3>1. BeginAppend(t) \/ EndAppend(t) \/ Queue(t) \/ Flush(t)
      BY <1>4 DEF Entered
    <3>2. CASE BeginAppend(t)
      BY <3>2 DEF BeginAppend, Places
    <3>3. CASE EndAppend(t)
      BY <3>3 DEF EndAppend, Places
    <3>4. CASE Queue(t)
      <4> DEFINE to == IF message[t].level = "warning" THEN "flush" ELSE "emit"
      <4>1. Step(t, "queue", to) /\ message' = message
        BY <3>4 DEF Queue
      <4>2. to \in Places \ {"idle"} /\ "queue" \in Places \ {"idle"}
        BY DEF Places
      <4> HIDE DEF to
      <4> QED BY <4>1, <4>2
    <3>5. CASE Flush(t)
      BY <3>5 DEF Flush, Places
    <3> QED BY <3>1, <3>2, <3>3, <3>4, <3>5
  <2>2. /\ at[t] # "idle" /\ at'[t] # "idle"
        /\ \A u \in Threads : u # t => at'[u] = at[u]
    BY <1>1, <2>1, StepAt
  <2> QED BY <2>1, <2>2 DEF Done
<1> QED BY <1>2, <1>3, <1>4

\* Emitting a message, its thread is done with it.
LEMMA EmittedIsDone ==
  ASSUME LogInv, NEW t \in Threads, EmitNewEntry(t)
  PROVE  /\ Latest(t) \in Message /\ Latest(t).thread = t
         /\ Done'[t] = Latest(t).number /\ Done[t] = Latest(t).number - 1
         /\ \A u \in Threads : u # t => Done'[u] = Done[u]
<1>1. /\ TypeOK /\ (at[t] # "idle" => message[t].number # 0)
  BY DEF LogInv
<1>2. Step(t, "emit", "idle") /\ message' = message
  BY DEF EmitNewEntry
<1>3. /\ at[t] = "emit" /\ at'[t] = "idle"
      /\ \A u \in Threads : u # t => at'[u] = at[u]
  BY <1>1, <1>2, StepAt DEF Places
<1>4. Latest(t) \in Message /\ Latest(t).thread = t /\ Latest(t).number = message[t].number
  BY <1>1, <1>3, LatestIs
<1>5. message[t].number \in Nat
  BY <1>1, CounterTypes
<1>6. Done'[t] = message'[t].number - 0 /\ Done[t] = message[t].number - 1
  BY <1>3 DEF Done
<1>7. Done'[t] = Latest(t).number /\ Done[t] = Latest(t).number - 1
  BY <1>2, <1>4, <1>5, <1>6
<1>8. \A u \in Threads : u # t => Done'[u] = Done[u]
  BY <1>2, <1>3 DEF Done
<1> QED BY <1>4, <1>7, <1>8

\* What the rows of the main thread say of its messages, for other rows.
OwnRowsOK(s, n) == OwnInOrder(s) /\ \A i \in DOMAIN s : s[i].thread = Main => s[i].number =< n

\* RowsInv and HeardInv, said with the helpers above.
LEMMA RowsInvIs == RowsInv <=> OwnRowsOK(rows, Done[Main])
BY DEF RowsInv, OwnRowsOK, OwnInOrder, OwnRowsInOrder

\* The same of the next state.
LEMMA NextRowsInvIs == RowsInv' <=> OwnRowsOK(rows', Done'[Main])
BY DEF RowsInv, OwnRowsOK, OwnInOrder, OwnRowsInOrder

\* What IsShown comes to.
LEMMA IsShownIs ==
  ASSUME NEW h
  PROVE  /\ IsShown(h) <=> \/ ~AcceptsAt(h, logLevel)
                           \/ \E j \in DOMAIN posted : posted[j] = h
                           \/ NewerAfter(posted, 0, h) /\ RowsShow(rows, h)
         /\ IsShown(h)' <=> \/ ~AcceptsAt(h, logLevel')
                            \/ \E j \in DOMAIN posted' : posted'[j] = h
                            \/ NewerAfter(posted', 0, h) /\ RowsShow(rows', h)
BY DEF IsShown, Accepts, RowsShow

\* While the dialog stays as it is, more may only be done.
LEMMA DialogKept ==
  ASSUME LogInv, LogInv', DialogInv, UNCHANGED dialogVars, \A u \in Threads : Done'[u] = Done[u]
  PROVE  DialogInv'
<1>1. /\ dialog' = dialog /\ rows' = rows /\ posted' = posted /\ logLevel' = logLevel /\ heard' = heard
  BY DEF dialogVars
<1>2. DialogTypeOK /\ PostedInv /\ RowsInv /\ HeardInv /\ (dialog # "connected" => posted = <<>> /\ heard = {})
  BY DEF DialogInv
<1>3. DialogTypeOK' /\ (dialog # "connected" => posted = <<>> /\ heard = {})'
  BY <1>1, <1>2 DEF DialogTypeOK
<1>4. RowsInv'
  BY <1>1, <1>2, RowsInvIs, NextRowsInvIs, LogAssumption
<1>5. posted \in Seq(Message) /\ heard \subseteq Message
  BY <1>2 DEF DialogTypeOK
<1>6. \A j \in DOMAIN posted : posted[j].thread \in Threads
  BY <1>5, MessageFields
<1>7. PostedInv'
  BY <1>1, <1>2, <1>6 DEF PostedInv
<1>8. \A h \in heard : h.thread \in Threads
  BY <1>5, MessageFields
<1>9. \A h \in heard : IsShown(h)'
  BY <1>1, <1>2, IsShownIs DEF HeardInv
<1>10. HeardInv'
  BY <1>1, <1>2, <1>8, <1>9 DEF HeardInv
<1> QED BY <1>3, <1>4, <1>7, <1>10 DEF DialogInv

\* When the main thread is idle, it is done with all it has appended.
LEMMA IdleIsDone == MainIdle => Appended[Main] = Done[Main]
BY LogAssumption DEF MainIdle, Appended, Done

\* What loadEntries makes of the entries is right for the tree.
LEMMA LoadedRowsOK ==
  ASSUME LogInv, MainIdle, NEW least
  PROVE  /\ Loaded(least) \in Seq(Message) /\ Len(Loaded(least)) =< MemoryEntries
         /\ OwnRowsOK(Loaded(least), Done[Main])
BY LoadedIs, IdleIsDone DEF OwnRowsOK

-----------------------------------------------------------------------------

\* The dialog is made and filled.
LEMMA OpenDialogStep == ASSUME LogInv, DialogInv, OpenDialog PROVE DialogInv'
<1>1. /\ MainIdle /\ dialog = "none" /\ dialog' = "loaded" /\ rows' = Loaded(logLevel)
      /\ posted' = posted /\ logLevel' = logLevel /\ heard' = heard
      /\ at' = at /\ message' = message
  BY DEF OpenDialog, vars
<1>2. DialogTypeOK /\ posted = <<>> /\ heard = {}
  BY <1>1 DEF DialogInv
<1>3. /\ rows' \in Seq(Message) /\ Len(rows') =< MemoryEntries
      /\ OwnRowsOK(rows', Done[Main])
  BY <1>1, LoadedRowsOK
<1>4. Done' = Done
  BY <1>1 DEF Done
<1>5. DialogTypeOK' /\ (dialog # "connected" => posted = <<>> /\ heard = {})'
  BY <1>1, <1>2, <1>3 DEF DialogTypeOK
<1>6. RowsInv'
  BY <1>3, <1>4, NextRowsInvIs
<1>7. PostedInv'
  BY <1>1, <1>2 DEF PostedInv, InOrder
<1>8. HeardInv'
  BY <1>1, <1>2 DEF HeardInv
<1> QED BY <1>5, <1>6, <1>7, <1>8 DEF DialogInv

\* The dialog connects to newEntry.
LEMMA ConnectDialogStep == ASSUME LogInv, DialogInv, ConnectDialog PROVE DialogInv'
<1>1. /\ dialog = "loaded" /\ dialog' = "connected" /\ rows' = rows
      /\ posted' = posted /\ logLevel' = logLevel /\ heard' = heard
      /\ at' = at /\ message' = message
  BY DEF ConnectDialog, vars
<1>2. DialogTypeOK /\ PostedInv /\ RowsInv /\ posted = <<>> /\ heard = {}
  BY <1>1 DEF DialogInv
<1>3. Done' = Done
  BY <1>1 DEF Done
<1>4. DialogTypeOK' /\ (dialog # "connected" => posted = <<>> /\ heard = {})'
  BY <1>1, <1>2 DEF DialogTypeOK
<1>5. RowsInv'
  BY <1>1, <1>2, <1>3, RowsInvIs, NextRowsInvIs
<1>6. PostedInv'
  BY <1>1, <1>2 DEF PostedInv, InOrder
<1>7. HeardInv'
  BY <1>1, <1>2 DEF HeardInv
<1> QED BY <1>4, <1>5, <1>6, <1>7 DEF DialogInv

\* The dialog loads the entries again for another level: nothing it heard counts
\* any more, and what is on its way comes on top.
LEMMA SetLogLevelStep == ASSUME LogInv, DialogInv, NEW level \in Levels, SetLogLevel(level) PROVE DialogInv'
<1>1. /\ MainIdle /\ dialog' = dialog /\ posted' = posted /\ logLevel' = level
      /\ at' = at /\ message' = message
      /\ IF dialog = "connected" THEN rows' = Loaded(level) /\ heard' = {}
                                 ELSE rows' = rows /\ heard' = heard
  BY DEF SetLogLevel, InEventLoop, vars
<1>2. DialogTypeOK /\ PostedInv /\ RowsInv /\ HeardInv /\ (dialog # "connected" => posted = <<>> /\ heard = {})
  BY DEF DialogInv
<1>3. Done' = Done
  BY <1>1 DEF Done
<1>4. heard' = {} /\ (dialog # "connected" => posted = <<>>)
  BY <1>1, <1>2
<1>5. /\ rows' \in Seq(Message) /\ Len(rows') =< MemoryEntries
      /\ OwnRowsOK(rows', Done[Main])
  BY <1>1, <1>2, LoadedRowsOK, RowsInvIs DEF DialogTypeOK
<1>6. DialogTypeOK' /\ (dialog # "connected" => posted = <<>> /\ heard = {})'
  BY <1>1, <1>2, <1>4, <1>5 DEF DialogTypeOK
<1>7. RowsInv'
  BY <1>3, <1>5, NextRowsInvIs
<1>8. PostedInv'
  BY <1>1, <1>2, <1>3 DEF PostedInv
<1>9. HeardInv'
  BY <1>4 DEF HeardInv
<1> QED BY <1>6, <1>7, <1>8, <1>9 DEF DialogInv

\* The first of a sequence is taken from it.
LEMMA TailIs ==
  ASSUME NEW s \in Seq(Message), s # <<>>
  PROVE  /\ Head(s) \in Message /\ Head(s) = s[1] /\ 1 \in DOMAIN s
         /\ Tail(s) \in Seq(Message) /\ Len(s) \in Nat
         /\ DOMAIN Tail(s) = 1..Len(s) - 1 /\ DOMAIN s = 1..Len(s)
         /\ \A j \in DOMAIN Tail(s) : j + 1 \in DOMAIN s /\ j + 1 > 1 /\ Tail(s)[j] = s[j + 1]
<1>1. Len(s) \in Nat /\ Len(s) # 0 /\ DOMAIN s = 1..Len(s)
  BY EmptySeq
<1>2. /\ Tail(s) \in Seq(Message) /\ Len(Tail(s)) = Len(s) - 1
      /\ \A i \in 1..Len(Tail(s)) : Tail(s)[i] = s[i + 1]
      /\ Head(s) = s[1] /\ Head(s) \in Message
  BY HeadTailProperties
<1>3. DOMAIN Tail(s) = 1..Len(Tail(s))
  BY <1>2
<1> QED BY <1>1, <1>2, <1>3

\* A message arrives at the dialog.  It was on its way, so it is not of the main
\* thread, and what its thread logged after it is on its way still.
LEMMA DeliverStep == ASSUME LogInv, DialogInv, Deliver PROVE DialogInv'
<1> DEFINE m == Head(posted)
<1>1. /\ posted # <<>> /\ rows' = WithRow(rows, m) /\ posted' = Tail(posted)
      /\ dialog' = dialog /\ logLevel' = logLevel /\ heard' = heard
      /\ at' = at /\ message' = message
  BY DEF Deliver, vars
<1>2. DialogTypeOK /\ PostedInv /\ RowsInv /\ HeardInv /\ dialog = "connected"
  BY <1>1 DEF DialogInv
<1>3. Done' = Done
  BY <1>1 DEF Done
<1>4. /\ rows \in Seq(Message) /\ Len(rows) =< MemoryEntries /\ posted \in Seq(Message)
      /\ heard \subseteq Message
  BY <1>2 DEF DialogTypeOK
<1>5. /\ m \in Message /\ m = posted[1] /\ 1 \in DOMAIN posted
      /\ posted' \in Seq(Message) /\ Len(posted) \in Nat
      /\ DOMAIN posted' = 1..Len(posted) - 1 /\ DOMAIN posted = 1..Len(posted)
      /\ \A j \in DOMAIN posted' : j + 1 \in DOMAIN posted /\ j + 1 > 1 /\ posted'[j] = posted[j + 1]
  BY <1>1, <1>4, TailIs
<1> HIDE DEF m
<1>6. m.thread # Main /\ InOrder(posted)
  BY <1>2, <1>5 DEF PostedInv
<1>7. /\ rows' \in Seq(Message) /\ Len(rows') =< MemoryEntries
      /\ \A i \in DOMAIN rows' : rows'[i] = m \/ \E j \in DOMAIN rows : rows'[i] = rows[j]
      /\ OwnInOrder(rows) /\ (\A i \in DOMAIN rows : rows[i].thread = Main /\ m.thread = Main => rows[i].number < m.number)
           => OwnInOrder(rows')
      /\ Accepts(m) => RowsShow(rows', m)
      /\ \A h \in Message :
           RowsShow(rows, h) /\ (m.thread = h.thread => m.number > h.number) => RowsShow(rows', h)
  <2>1. PICK r : r = WithRow(rows, m)
    OBVIOUS
  <2>2. rows \in Seq(Message) /\ Len(rows) =< MemoryEntries /\ m \in Message /\ rows' = r
    BY <1>1, <1>4, <1>5, <2>1
  <2>3. /\ r \in Seq(Message) /\ Len(r) =< MemoryEntries
        /\ \A i \in DOMAIN r : r[i] = m \/ \E j \in DOMAIN rows : r[i] = rows[j]
        /\ OwnInOrder(rows) /\ (\A i \in DOMAIN rows : rows[i].thread = Main /\ m.thread = Main => rows[i].number < m.number)
             => OwnInOrder(r)
        /\ Accepts(m) => RowsShow(r, m)
        /\ \A h \in Message :
             RowsShow(rows, h) /\ (m.thread = h.thread => m.number > h.number) => RowsShow(r, h)
    BY ONLY <2>1, <2>2, WithRowIs
  <2> QED BY ONLY <2>2, <2>3
<1>8. DialogTypeOK' /\ (dialog # "connected" => posted = <<>> /\ heard = {})'
  BY <1>1, <1>2, <1>5, <1>7 DEF DialogTypeOK
<1>9. RowsInv'
  <2>1. OwnRowsOK(rows, Done[Main])
    BY <1>2, RowsInvIs
  <2>2. OwnRowsOK(rows', Done[Main])
    BY <1>6, <1>7, <2>1 DEF OwnRowsOK
  <2> QED BY <1>3, <2>2, NextRowsInvIs
<1>10. PostedInv'
  <2>1. InOrder(posted')
    <3> SUFFICES ASSUME NEW i \in DOMAIN posted', NEW j \in DOMAIN posted', i < j,
                        posted'[i].thread = posted'[j].thread
                 PROVE  posted'[i].number < posted'[j].number
      BY DEF InOrder
    <3>1. i + 1 < j + 1
      BY <1>5
    <3> QED BY <1>5, <1>6, <3>1 DEF InOrder
  <2>2. \A j \in DOMAIN posted' : posted'[j].thread # Main /\ posted'[j].number =< Done[posted'[j].thread]
    BY <1>2, <1>5 DEF PostedInv
  <2> QED BY <1>3, <2>1, <2>2 DEF PostedInv
<1>11. ASSUME NEW h \in heard PROVE IsShown(h)'
  <2>1. \/ ~AcceptsAt(h, logLevel)
        \/ \E j \in DOMAIN posted : posted[j] = h
        \/ NewerAfter(posted, 0, h) /\ RowsShow(rows, h)
    BY <1>2, IsShownIs DEF HeardInv
  <2>2. CASE ~AcceptsAt(h, logLevel)
    BY <1>1, <2>2, IsShownIs
  <2>3. ASSUME NEW j \in DOMAIN posted, posted[j] = h, AcceptsAt(h, logLevel) PROVE IsShown(h)'
    <3>1. CASE j = 1
      <4>1. RowsShow(rows', h)
        BY <1>5, <1>7, <2>3, <3>1 DEF Accepts
      <4>2. NewerAfter(posted', 0, h)
        BY <1>5, <1>6, <2>3, <3>1 DEF InOrder, NewerAfter
      <4> QED BY <4>1, <4>2, IsShownIs
    <3>2. CASE j # 1
      <4>1. j - 1 \in DOMAIN posted' /\ (j - 1) + 1 = j
        BY <1>5, <3>2
      <4>2. posted'[j - 1] = h
        BY <1>5, <2>3, <4>1
      <4> QED BY <4>1, <4>2, IsShownIs
    <3> QED BY <3>1, <3>2
  <2>4. CASE NewerAfter(posted, 0, h) /\ RowsShow(rows, h)
    <3>1. m.thread = h.thread => m.number > h.number
      BY <1>5, <2>4 DEF NewerAfter
    <3>2. RowsShow(rows', h)
      BY <1>4, <1>7, <2>4, <3>1
    <3>3. NewerAfter(posted', 0, h)
      BY <1>5, <2>4 DEF NewerAfter
    <3> QED BY <3>2, <3>3, IsShownIs
  <2> QED BY <2>1, <2>2, <2>3, <2>4
<1>12. HeardInv'
  BY <1>1, <1>2, <1>3, <1>11 DEF HeardInv
<1> QED BY <1>8, <1>9, <1>10, <1>12 DEF DialogInv

\* A thread emits a message.  It is newer than what its thread has shown so far
\* and what it has on its way.
LEMMA EmittedStep ==
  ASSUME LogInv, LogInv', DialogInv, NEW t \in Threads, Emitted(t)
  PROVE  DialogInv'
<1>0. EmitNewEntry(t)
  BY DEF Emitted
<1>00. PICK m \in Message : m = Latest(t)
  BY <1>0, EmittedIsDone
<1>1. /\ EmitNewEntry(t) /\ dialog' = dialog /\ logLevel' = logLevel
      /\ IF dialog # "connected" THEN rows' = rows /\ posted' = posted /\ heard' = heard
         ELSE /\ heard' = heard \union {m}
              /\ IF t = Main THEN rows' = WithRow(rows, m) /\ posted' = posted
                             ELSE posted' = Append(posted, m) /\ rows' = rows
  BY <1>00 DEF Emitted
<1>2. /\ m \in Message /\ m.thread = t
      /\ Done'[t] = m.number /\ Done[t] = m.number - 1
      /\ \A u \in Threads : u # t => Done'[u] = Done[u]
  BY <1>1, <1>00, EmittedIsDone
<1>3. DialogTypeOK /\ PostedInv /\ RowsInv /\ HeardInv /\ (dialog # "connected" => posted = <<>> /\ heard = {})
  BY DEF DialogInv
<1>4. /\ rows \in Seq(Message) /\ Len(rows) =< MemoryEntries /\ posted \in Seq(Message)
      /\ heard \subseteq Message
  BY <1>3 DEF DialogTypeOK
<1>5. \A u \in Threads : Done[u] \in Int /\ Done'[u] \in Int /\ Done[u] =< Done'[u]
  <2>1. \A u \in Threads : Done[u] \in Int
    BY CounterTypes DEF LogInv
  <2>2. m.number \in Int
    BY <1>2, MessageFields
  <2> QED BY <1>2, <2>1, <2>2
<1>6. OwnRowsOK(rows, Done[Main]) /\ Main \in Threads /\ InOrder(posted)
  BY <1>3, RowsInvIs, LogAssumption DEF PostedInv
<1>7. \A i \in DOMAIN rows : rows[i].number \in Int
  BY <1>4, MessageFields
<1>8. \A j \in DOMAIN posted :
        /\ posted[j].number \in Int /\ posted[j].thread \in Threads
        /\ posted[j].thread # Main /\ posted[j].number =< Done[posted[j].thread]
  BY <1>3, <1>4, MessageFields DEF PostedInv
<1>9. \A h \in heard : h.number \in Int /\ h.thread \in Threads /\ h.number =< Done[h.thread] /\ IsShown(h)
  BY <1>3, <1>4, MessageFields DEF HeardInv
<1>10. m.number \in Int /\ m.number - 1 < m.number
  BY <1>2, MessageFields
<1>11. OwnRowsOK(rows, Done'[Main])
  <2>1. Done[Main] \in Int /\ Done'[Main] \in Int /\ Done[Main] =< Done'[Main]
    BY <1>5, <1>6
  <2> QED BY <1>6, <1>7, <2>1 DEF OwnRowsOK
<1>12. \A j \in DOMAIN posted : posted[j].thread # Main /\ posted[j].number =< Done'[posted[j].thread]
  <2> SUFFICES ASSUME NEW j \in DOMAIN posted
               PROVE  posted[j].thread # Main /\ posted[j].number =< Done'[posted[j].thread]
    OBVIOUS
  <2> DEFINE u == posted[j].thread
             n == posted[j].number
  <2>1. n \in Int /\ u \in Threads /\ u # Main /\ n =< Done[u]
    BY <1>8
  <2> HIDE DEF u, n
  <2>2. n =< Done'[u]
    BY <1>5, <2>1
  <2> QED BY <2>1, <2>2 DEF u, n
<1>13. \A h \in heard : h.number =< Done'[h.thread]
  <2> SUFFICES ASSUME NEW h \in heard PROVE h.number =< Done'[h.thread]
    OBVIOUS
  <2>1. PICK u \in Threads, n \in Int : u = h.thread /\ n = h.number /\ n =< Done[u]
    BY <1>9
  <2>2. n =< Done'[u]
    BY <1>5, <2>1
  <2> QED BY <2>1, <2>2
<1>14. \A h \in heard : m.thread = h.thread => m.number > h.number
  <2> SUFFICES ASSUME NEW h \in heard, h.thread = t PROVE m.number > h.number
    BY <1>2
  <2>1. h.number \in Int /\ h.number =< m.number - 1
    BY <1>2, <1>9
  <2> QED BY <1>10, <2>1
<1>15. CASE dialog # "connected"
  <2>1. rows' = rows /\ posted' = posted /\ heard' = heard /\ posted = <<>> /\ heard = {}
    BY <1>1, <1>3, <1>15
  <2>2. DialogTypeOK' /\ (dialog # "connected" => posted = <<>> /\ heard = {})'
    BY <1>1, <1>3, <2>1 DEF DialogTypeOK
  <2>3. RowsInv' /\ PostedInv' /\ HeardInv'
    BY <1>11, <2>1, NextRowsInvIs DEF PostedInv, InOrder, HeardInv
  <2> QED BY <2>2, <2>3 DEF DialogInv
<1>16. CASE dialog = "connected" /\ t = Main
  <2>1. rows' = WithRow(rows, m) /\ posted' = posted /\ heard' = heard \union {m}
    BY <1>1, <1>16
  <2>2. /\ rows' \in Seq(Message) /\ Len(rows') =< MemoryEntries
        /\ \A i \in DOMAIN rows' : rows'[i] = m \/ \E j \in DOMAIN rows : rows'[i] = rows[j]
        /\ OwnInOrder(rows) /\ (\A i \in DOMAIN rows : rows[i].thread = Main /\ m.thread = Main => rows[i].number < m.number)
             => OwnInOrder(rows')
        /\ Accepts(m) => RowsShow(rows', m)
        /\ \A h \in Message :
             RowsShow(rows, h) /\ (m.thread = h.thread => m.number > h.number) => RowsShow(rows', h)
    BY <1>2, <1>4, <2>1, WithRowIs
  <2>3. DialogTypeOK' /\ (dialog # "connected" => posted = <<>> /\ heard = {})'
    BY <1>1, <1>2, <1>3, <1>16, <2>1, <2>2 DEF DialogTypeOK
  <2>4. RowsInv'
    <3>1. \A i \in DOMAIN rows : rows[i].thread = Main => rows[i].number < m.number
      <4> SUFFICES ASSUME NEW i \in DOMAIN rows, rows[i].thread = Main PROVE rows[i].number < m.number
        OBVIOUS
      <4>1. rows[i].number \in Int /\ rows[i].number =< m.number - 1
        BY <1>2, <1>6, <1>7, <1>16 DEF OwnRowsOK
      <4> QED BY <1>10, <4>1
    <3>2. OwnInOrder(rows')
      BY <1>6, <2>2, <3>1 DEF OwnRowsOK
    <3>3. \A i \in DOMAIN rows' : rows'[i].thread = Main => rows'[i].number =< m.number
      BY <1>7, <1>10, <2>2, <3>1
    <3>4. OwnRowsOK(rows', Done'[Main])
      BY <1>2, <1>16, <3>2, <3>3 DEF OwnRowsOK
    <3> QED BY <3>4, NextRowsInvIs
  <2>5. PostedInv'
    BY <1>6, <1>12, <2>1 DEF PostedInv
  <2>6. ASSUME NEW h \in heard PROVE IsShown(h)'
    <3>1. \/ ~AcceptsAt(h, logLevel)
          \/ \E j \in DOMAIN posted : posted[j] = h
          \/ NewerAfter(posted, 0, h) /\ RowsShow(rows, h)
      BY <1>9, IsShownIs
    <3>2. NewerAfter(posted, 0, h) /\ RowsShow(rows, h) => NewerAfter(posted', 0, h) /\ RowsShow(rows', h)
      BY <1>4, <1>14, <2>1, <2>2
    <3> QED BY <1>1, <2>1, <3>1, <3>2, IsShownIs
  <2>7. IsShown(m)'
    <3>1. NewerAfter(posted', 0, m)
      BY <1>2, <1>8, <1>16, <2>1 DEF NewerAfter
    <3>2. AcceptsAt(m, logLevel) => RowsShow(rows', m)
      BY <2>2 DEF Accepts
    <3> QED BY <1>1, <3>1, <3>2, IsShownIs
  <2>8. m.number =< Done'[m.thread]
    BY <1>2, <1>10
  <2>9. HeardInv'
    BY <1>13, <2>1, <2>6, <2>7, <2>8 DEF HeardInv
  <2> QED BY <2>3, <2>4, <2>5, <2>9 DEF DialogInv
<1>17. CASE dialog = "connected" /\ t # Main
  <2>1. rows' = rows /\ posted' = Append(posted, m) /\ heard' = heard \union {m}
    BY <1>1, <1>17
  <2>2. /\ posted' \in Seq(Message) /\ Len(posted) \in Nat
        /\ DOMAIN posted' = 1..Len(posted) + 1 /\ DOMAIN posted = 1..Len(posted)
        /\ \A i \in 1..Len(posted) + 1 : posted'[i] = IF i = Len(posted) + 1 THEN m ELSE posted[i]
    BY <1>2, <1>4, <2>1, AppendAt
  <2>3. \A j \in DOMAIN posted' : posted'[j] = m \/ \E i \in DOMAIN posted : posted'[j] = posted[i]
    BY <2>2
  <2>4. DialogTypeOK' /\ (dialog # "connected" => posted = <<>> /\ heard = {})'
    BY <1>1, <1>2, <1>3, <1>17, <2>1, <2>2 DEF DialogTypeOK
  <2>5. RowsInv'
    BY <1>11, <2>1, NextRowsInvIs
  <2>6. PostedInv'
    <3>1. \A i \in DOMAIN posted : posted[i].thread = m.thread => posted[i].number < m.number
      <4> SUFFICES ASSUME NEW i \in DOMAIN posted, posted[i].thread = t PROVE posted[i].number < m.number
        BY <1>2
      <4>1. posted[i].number \in Int /\ posted[i].number =< m.number - 1
        BY <1>2, <1>8
      <4> QED BY <1>10, <4>1
    <3>2. InOrder(posted')
      BY <1>2, <1>4, <1>6, <2>1, <3>1, AppendInOrder
    <3>3. m.thread # Main /\ m.number =< Done'[m.thread]
      BY <1>2, <1>10, <1>17
    <3>4. \A j \in DOMAIN posted' : posted'[j].thread # Main /\ posted'[j].number =< Done'[posted'[j].thread]
      BY <1>12, <2>3, <3>3
    <3> QED BY <3>2, <3>4 DEF PostedInv
  <2>7. ASSUME NEW h \in heard PROVE IsShown(h)'
    <3>1. \/ ~AcceptsAt(h, logLevel)
          \/ \E j \in DOMAIN posted : posted[j] = h
          \/ NewerAfter(posted, 0, h) /\ RowsShow(rows, h)
      BY <1>9, IsShownIs
    <3>2. (\E j \in DOMAIN posted : posted[j] = h) => \E j \in DOMAIN posted' : posted'[j] = h
      BY <2>2
    <3>3. NewerAfter(posted, 0, h) => NewerAfter(posted', 0, h)
      BY <1>14, <2>2 DEF NewerAfter
    <3> QED BY <1>1, <2>1, <3>1, <3>2, <3>3, IsShownIs
  <2>8. IsShown(m)'
    <3>1. Len(posted) + 1 \in DOMAIN posted' /\ posted'[Len(posted) + 1] = m
      BY <2>2
    <3> QED BY <3>1, IsShownIs
  <2>9. m.number =< Done'[m.thread]
    BY <1>2, <1>10
  <2>10. HeardInv'
    BY <1>13, <2>1, <2>7, <2>8, <2>9 DEF HeardInv
  <2> QED BY <2>4, <2>5, <2>6, <2>10 DEF DialogInv
<1> QED BY <1>15, <1>16, <1>17

-----------------------------------------------------------------------------
(***************************************************************************)
(* Theorems of the dialog                                                  *)
(***************************************************************************)

\* No row, nothing heard: the dialog is not made yet.
LEMMA InitDialogInv == DialogInit => DialogInv
<1> SUFFICES ASSUME DialogInit PROVE DialogInv
  OBVIOUS
<1>1. dialog = "none" /\ rows = <<>> /\ posted = <<>> /\ logLevel \in Levels /\ heard = {}
  BY DEF DialogInit
<1>2. <<>> \in Seq(Message) /\ Len(<<>>) = 0 /\ DOMAIN <<>> = {} /\ 0 =< MemoryEntries
  BY LogAssumption
<1>3. DialogTypeOK
  BY <1>1, <1>2 DEF DialogTypeOK
<1>4. PostedInv /\ RowsInv /\ HeardInv
  BY <1>1, <1>2 DEF PostedInv, InOrder, RowsInv, OwnRowsInOrder, HeardInv
<1> QED BY <1>1, <1>3, <1>4 DEF DialogInv

\* Every step of the dialog keeps the two invariants.
LEMMA DialogStepKeepsInv == LogInv /\ DialogInv /\ [DialogNext]_allVars => LogInv' /\ DialogInv'
<1> SUFFICES ASSUME LogInv, DialogInv, [DialogNext]_allVars PROVE LogInv' /\ DialogInv'
  OBVIOUS
<1>1. [Next]_vars
  BY DialogStepsLog DEF allVars
<1>2. LogInv'
  BY <1>1, StepKeepsLogInv
<1>3. CASE UNCHANGED allVars
  <2>1. UNCHANGED dialogVars /\ \A u \in Threads : Done'[u] = Done[u]
    BY <1>3 DEF allVars, vars, Done
  <2> QED BY <1>2, <2>1, DialogKept
<1>4. CASE FileSteps
  BY <1>2, <1>4, NotDone, DialogKept DEF FileSteps
<1>5. CASE OpenDialog \/ ConnectDialog \/ Deliver
  BY <1>2, <1>5, OpenDialogStep, ConnectDialogStep, DeliverStep
<1>6. ASSUME NEW level \in Levels, SetLogLevel(level) PROVE LogInv' /\ DialogInv'
  BY <1>2, <1>6, SetLogLevelStep
<1>7. ASSUME NEW t \in Threads, LogAccepted(t) \/ Entered(t) PROVE LogInv' /\ DialogInv'
  <2>1. UNCHANGED dialogVars
    BY <1>7 DEF LogAccepted, Entered
  <2> QED BY <1>2, <1>7, <2>1, NotDone, DialogKept
<1>8. ASSUME NEW t \in Threads, Emitted(t) PROVE LogInv' /\ DialogInv'
  BY <1>2, <1>8, EmittedStep
<1> QED BY <1>3, <1>4, <1>5, <1>6, <1>7, <1>8 DEF DialogNext

\* The inductive invariants of the log handler and of the dialog.
THEOREM DialogInvariant == DialogSpec => [](LogInv /\ DialogInv)
<1>1. DialogInit => LogInv /\ DialogInv
  BY InitLogInv, InitDialogInv DEF DialogInit
<1> QED BY <1>1, DialogStepKeepsInv, PTL DEF DialogSpec

\* With its dialog, the log handler still starts and steps as it does by itself.
THEOREM DialogKeepsLog == DialogSpec => Init /\ [][Next]_vars
<1>1. DialogInit => Init
  BY DEF DialogInit
<1>2. [DialogNext]_allVars => [Next]_vars
  BY DialogStepsLog DEF allVars
<1> QED BY <1>1, <1>2, PTL DEF DialogSpec

\* Threads that log at once lose no message, write none twice and keep each
\* thread's order: entries_ has no mutex, but the chunk and the file have one.
THEOREM NothingLost == DialogSpec => []NoMessageLost
<1>1. LogInv => NoMessageLost
  BY DEF LogInv
<1> QED BY <1>1, DialogInvariant, PTL

\* When addEntry of a warning returns, the message is in the file.
THEOREM WarningsOnDisk == DialogSpec => []ImportantIsOnDisk
<1>1. LogInv => ImportantIsOnDisk
  BY DEF LogInv
<1> QED BY <1>1, DialogInvariant, PTL

\* The dialog shows all it heard, as far as the level and its size allow.
THEOREM HeardShown == DialogSpec => []HeardIsShown
<1>1. DialogInv => HeardIsShown
  <2> SUFFICES ASSUME DialogInv, NEW m \in heard
               PROVE  \/ Contains(rows, m) \/ Contains(posted, m) \/ ~Accepts(m)
                      \/ /\ Len(rows) = MemoryEntries
                         /\ \A i \in DOMAIN rows : rows[i].thread = m.thread => rows[i].number > m.number
    BY DEF HeardIsShown
  <2>1. IsShown(m) /\ rows \in Seq(Message) /\ posted \in Seq(Message)
    BY DEF DialogInv, HeardInv, DialogTypeOK
  <2>2. DOMAIN rows = 1..Len(rows) /\ DOMAIN posted = 1..Len(posted)
    BY <2>1
  <2>3. \A i \in DOMAIN rows : i > 0
    BY <2>1
  <2>4. CASE NewerAfter(posted, 0, m) /\ RowsShow(rows, m)
    BY <2>2, <2>3, <2>4 DEF RowsShow, NewerAfter, Contains
  <2>5. CASE ~AcceptsAt(m, logLevel)
    BY <2>5 DEF Accepts
  <2>6. CASE \E j \in DOMAIN posted : posted[j] = m
    BY <2>2, <2>6 DEF Contains
  <2> QED BY <2>1, <2>4, <2>5, <2>6, IsShownIs
<1> QED BY <1>1, DialogInvariant, PTL

\* The rows of the main thread are in its order and each is there once, although
\* some of them are loaded and others heard.
THEOREM OwnRowsOrdered == DialogSpec => []OwnRowsInOrder
<1>1. DialogInv => OwnRowsInOrder
  BY DEF DialogInv, RowsInv
<1> QED BY <1>1, DialogInvariant, PTL
=============================================================================
