------------------------ MODULE AddrHexAsciiEncoder ------------------------
(***************************************************************************)
(* The hex dump of a section, encoded in chunks by a thread pool           *)
(* (AddrHexAsciiEncoder.cc): start cuts the data into tasks, each task     *)
(* signals its rows to the main thread, and the last signal to arrive      *)
(* sorts and joins them and wakes the event loop that start waits in.      *)
(*                                                                         *)
(* A byte of the data is its position: what matters is where it ends up.   *)
(***************************************************************************)
EXTENDS Integers, SequencesExt

CONSTANTS
  Sizes,    \* the sizes of data that sections have
  Threads,  \* QThread::idealThreadCount()
  PerChunk, \* bytes per thread in a chunk: 1024
  Row       \* bytes in a row of the dump: 16

\* A chunk ends with a row.
ASSUME EncoderAssumption ==
  /\ Sizes \subseteq Nat
  /\ Threads \in Nat \ {0} /\ PerChunk \in Nat \ {0} /\ Row \in Nat \ {0}
  /\ PerChunk % Row = 0

VARIABLES
  size,     \* the size of the section's data
  caller,   \* the main thread: "before" start, "waiting" in its loop, "after" it
  tasks,    \* AddrHexAsciiEncoder::tasks
  pool,     \* tasks that wait for a thread
  running,  \* tasks in a thread
  signals,  \* results on their way to the main thread
  results,  \* AddrHexAsciiEncoder::results
  result    \* AddrHexAsciiEncoder::result_

encoderVars == <<size, caller, tasks, pool, running, signals, results, result>>

Less(m, n) == IF m < n THEN m ELSE n
Chunk == Threads * PerChunk

\* Util::addrDataString of bytes from..to-1: the address and the bytes of each
\* row, and an empty row for no bytes.
Rows(from, to) ==
  IF from = to THEN <<[address |-> from, bytes |-> <<>>]>>
  ELSE [k \in 1..((to - from + Row - 1) \div Row) |->
          LET first == from + (k - 1) * Row IN
          [address |-> first, bytes |-> [i \in 1..Less(Row, to - first) |-> first + i - 1]]]

EncoderTypeOK ==
  /\ size \in Sizes
  /\ caller \in {"before", "waiting", "after"}
  /\ tasks \in Nat
  /\ \A t \in running \union ToSet(pool) : t.index \in 0..size - 1 /\ t.size \in 1..Chunk
  /\ \A r \in ToSet(signals) \union ToSet(results) : r.index \in 0..size - 1 /\ r.rows # <<>>
  /\ \A i \in DOMAIN result : DOMAIN result[i] = {"address", "bytes"}

EncoderInit ==
  /\ size \in Sizes
  /\ caller = "before"
  /\ tasks = 0
  /\ pool = <<>> /\ running = {} /\ signals = <<>> /\ results = <<>> /\ result = <<>>

-----------------------------------------------------------------------------

\* The chunks that begin at 0, Chunk, 2 * Chunk, ...: the last one is cut.
ChunkCount == (size + Chunk - 1) \div Chunk
TaskAt(k) == [index |-> (k - 1) * Chunk, size |-> Less(Chunk, size - (k - 1) * Chunk)]

\* start(blocking): threads may take tasks while it still adds some, but what
\* they signal waits for the event loop at its end.
Start ==
  /\ caller = "before"
  /\ caller' = "waiting"
  /\ pool' = [k \in 1..ChunkCount |-> TaskAt(k)]
  /\ tasks' = ChunkCount
  /\ UNCHANGED <<size, running, signals, results, result>>

\* QThreadPool: a free thread takes the oldest task.
TakeTask ==
  /\ pool # <<>>
  /\ Cardinality(running) < Threads
  /\ running' = running \union {Head(pool)}
  /\ pool' = Tail(pool)
  /\ UNCHANGED <<size, caller, tasks, signals, results, result>>

\* AddrHexAsciiEncoderTask::run; QByteArray::mid ends where the data ends.
RunTask(t) ==
  /\ t \in running
  /\ running' = running \ {t}
  /\ signals' = Append(signals, [index |-> t.index, rows |-> Rows(t.index, Less(size, t.index + t.size))])
  /\ UNCHANGED <<size, caller, tasks, pool, results, result>>

\* In the order of their indices, and joined: the k-th has k - 1 smaller ones.
Sorted(rs) ==
  LET smaller(i) == {j \in DOMAIN rs : rs[j].index < rs[i].index}
  IN  [k \in DOMAIN rs |-> rs[CHOOSE i \in DOMAIN rs : Cardinality(smaller(i)) = k - 1]]
Joined(rs) == FlattenSeq([i \in DOMAIN rs |-> rs[i].rows])

\* Mutant: joined as the results came in.
AddResultUnsorted ==
  /\ caller = "waiting" /\ signals # <<>>
  /\ signals' = Tail(signals)
  /\ LET all == Append(results, Head(signals)) IN
     IF Len(all) = tasks
     THEN results' = all /\ result' = Joined(all) /\ caller' = "after"
     ELSE results' = all /\ UNCHANGED <<result, caller>>
  /\ UNCHANGED <<size, tasks, pool, running>>

\* Mutant: one task too many is waited for.
AddResultWaitsOn ==
  /\ caller = "waiting" /\ signals # <<>>
  /\ signals' = Tail(signals)
  /\ LET all == Append(results, Head(signals)) IN
     IF Len(all) > tasks
     THEN results' = Sorted(all) /\ result' = Joined(results') /\ caller' = "after"
     ELSE results' = all /\ UNCHANGED <<result, caller>>
  /\ UNCHANGED <<size, tasks, pool, running>>

\* addResult, delivered by the event loop: with the last one, finished quits it.
AddResult ==
  /\ caller = "waiting" /\ signals # <<>>
  /\ signals' = Tail(signals)
  /\ LET all == Append(results, Head(signals)) IN
     IF Len(all) = tasks
     THEN results' = Sorted(all) /\ result' = Joined(results') /\ caller' = "after"
     ELSE results' = all /\ UNCHANGED <<result, caller>>
  /\ UNCHANGED <<size, tasks, pool, running>>

RunSome == \E t \in running : RunTask(t)
EncoderNext == Start \/ TakeTask \/ RunSome \/ AddResult

\* Threads run, and the event loop delivers; whether to start is the caller's.
EncoderFairness == WF_encoderVars(TakeTask) /\ WF_encoderVars(RunSome) /\ WF_encoderVars(AddResult)
EncoderSpec == EncoderInit /\ [][EncoderNext]_encoderVars /\ EncoderFairness

-----------------------------------------------------------------------------
(***************************************************************************)
(* Properties                                                              *)
(***************************************************************************)

\* Whatever order the chunks came back in, what start returns with is the dump
\* of the whole data in one piece, and no task is left behind.
ResultIsWhole ==
  caller = "after" => result = Rows(0, size) /\ pool = <<>> /\ running = {} /\ signals = <<>>

\* A dump of some data is finished.  With no data there is no task whose result
\* could finish it: the caller waits for good, and the property leaves it out.
DumpEnds == (caller = "waiting" /\ size > 0) ~> (caller = "after")
=============================================================================
