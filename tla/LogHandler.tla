----------------------------- MODULE LogHandler -----------------------------
(***************************************************************************)
(* Log messages of several threads on their way to the entries in memory   *)
(* and to the log file (LogHandler.cc).  Messages are collected in a chunk *)
(* that a timer of the main thread writes to the file; a warning takes the *)
(* chunk along at once.  The chunk and the file have a mutex, the entries  *)
(* have none.                                                              *)
(***************************************************************************)
EXTENDS Integers, SequencesExt

CONSTANTS
  Threads,       \* the threads that log, with Main
  Main,          \* the main thread
  MemoryEntries, \* Constants::Log::MEMORY_ENTRIES
  MaxMessages    \* BOUND: messages a thread logs

ASSUME LogAssumption ==
  /\ Main \in Threads
  /\ MemoryEntries \in Nat \ {0}
  /\ MaxMessages \in Nat

VARIABLES
  at,       \* where in addEntry each thread is
  message,  \* the last message of each thread: its number and its level
  seen,     \* entries_ as a thread in append found them
  entries,  \* LogHandler::entries_
  chunk,    \* LogHandler::nextChunk
  file,     \* the log file
  fileOpen, \* logFile.isOpen()
  process   \* "running", "crashed", or "over" after ~LogHandler

vars == <<at, message, seen, entries, chunk, file, fileOpen, process>>

Levels == {"debug", "warning"}
Places == {"idle", "append", "appending", "queue", "flush", "emit"}
Message == [thread : Threads, number : 1..MaxMessages, level : Levels]
Latest(t) == [thread |-> t, number |-> message[t].number, level |-> message[t].level]

\* QContiguousCache: the oldest entries give way.
Newest(s) == SubSeq(s, 1 + (IF Len(s) > MemoryEntries THEN Len(s) - MemoryEntries ELSE 0), Len(s))

TypeOK ==
  /\ at \in [Threads -> Places]
  /\ message \in [Threads -> [number : 0..MaxMessages, level : Levels]]
  /\ seen \in [Threads -> Seq(Message)]
  /\ entries \in Seq(Message) /\ Len(entries) =< MemoryEntries
  /\ chunk \in Seq(Message)
  /\ file \in Seq(Message)
  /\ fileOpen \in BOOLEAN
  /\ process \in {"running", "crashed", "over"}

\* The constructor; the file may be impossible to open.
Init ==
  /\ at = [t \in Threads |-> "idle"]
  /\ message = [t \in Threads |-> [number |-> 0, level |-> "debug"]]
  /\ seen = [t \in Threads |-> <<>>]
  /\ entries = <<>> /\ chunk = <<>> /\ file = <<>>
  /\ fileOpen \in BOOLEAN
  /\ process = "running"

-----------------------------------------------------------------------------

Step(t, from, to) ==
  /\ process = "running"
  /\ at[t] = from
  /\ at' = [at EXCEPT ![t] = to]

\* messageHandler accepts a message.
Log(t, level) ==
  /\ message[t].number < MaxMessages
  /\ Step(t, "idle", "append")
  /\ message' = [message EXCEPT ![t] = [number |-> @.number + 1, level |-> level]]
  /\ UNCHANGED <<seen, entries, chunk, file, fileOpen, process>>

\* entries_.append in two halves, as no mutex keeps others out in between: of
\* two messages that are appended at once one may overwrite the other.
BeginAppend(t) ==
  /\ Step(t, "append", "appending")
  /\ seen' = [seen EXCEPT ![t] = entries]
  /\ UNCHANGED <<message, entries, chunk, file, fileOpen, process>>

EndAppend(t) ==
  /\ Step(t, "appending", "queue")
  /\ entries' = Newest(Append(seen[t], Latest(t)))
  /\ seen' = [seen EXCEPT ![t] = <<>>]
  /\ UNCHANGED <<message, chunk, file, fileOpen, process>>

\* Mutant: warnings are left to the timer.
QueueOnly(t) ==
  /\ Step(t, "queue", "emit")
  /\ chunk' = Append(chunk, Latest(t))
  /\ UNCHANGED <<message, seen, entries, file, fileOpen, process>>

\* queueToFile, under the mutex.
Queue(t) ==
  /\ Step(t, "queue", IF message[t].level = "warning" THEN "flush" ELSE "emit")
  /\ chunk' = Append(chunk, Latest(t))
  /\ UNCHANGED <<message, seen, entries, file, fileOpen, process>>

\* Mutants: the chunk is not cleared, or not to its end.
WriteChunkAgain ==
  IF fileOpen THEN file' = file \o chunk /\ UNCHANGED chunk ELSE UNCHANGED <<file, chunk>>
WriteChunkKeepsLast ==
  IF fileOpen /\ chunk # <<>>
  THEN file' = file \o Front(chunk) /\ chunk' = <<Last(chunk)>>
  ELSE UNCHANGED <<file, chunk>>

\* flushToFile, under the mutex.
WriteChunk ==
  IF fileOpen THEN file' = file \o chunk /\ chunk' = <<>> ELSE UNCHANGED <<file, chunk>>

\* queueToFile goes on to flush what is important.
Flush(t) ==
  /\ Step(t, "flush", "emit")
  /\ WriteChunk
  /\ UNCHANGED <<message, seen, entries, fileOpen, process>>

\* newEntry, which log dialogs hear of.
EmitNewEntry(t) ==
  /\ Step(t, "emit", "idle")
  /\ UNCHANGED <<message, seen, entries, chunk, file, fileOpen, process>>

\* fileFlushTimer, when the main thread is in its event loop.
FlushTimer ==
  /\ process = "running"
  /\ at[Main] = "idle"
  /\ WriteChunk
  /\ UNCHANGED <<at, message, seen, entries, fileOpen, process>>

\* ~LogHandler, at exit, when no thread is left that logs.
Destroy ==
  /\ process = "running"
  /\ \A t \in Threads : at[t] = "idle"
  /\ process' = "over"
  /\ WriteChunk
  /\ UNCHANGED <<at, message, seen, entries, fileOpen>>

\* The process dies, and with it what it has in memory.
Crash ==
  /\ process = "running"
  /\ process' = "crashed"
  /\ UNCHANGED <<at, message, seen, entries, chunk, file, fileOpen>>

LogSome(t) == \E level \in Levels : Log(t, level)
AddEntry(t) == BeginAppend(t) \/ EndAppend(t) \/ Queue(t) \/ Flush(t) \/ EmitNewEntry(t)
Next == FlushTimer \/ Destroy \/ Crash \/ \E t \in Threads : LogSome(t) \/ AddEntry(t)

\* Threads run, and the timer fires: its interval comes round whatever is logged.
Fairness == (\A t \in Threads : WF_vars(AddEntry(t))) /\ SF_vars(FlushTimer)
Spec == Init /\ [][Next]_vars /\ Fairness

-----------------------------------------------------------------------------
(***************************************************************************)
(* Properties                                                              *)
(***************************************************************************)

\* How many messages of each thread were queued.
Queued == [t \in Threads |-> message[t].number - (IF at[t] \in {"append", "appending", "queue"} THEN 1 ELSE 0)]

\* The messages of each thread are in the order it logged them, and each is there
\* but once.
InOrder(s) == \A i, j \in DOMAIN s : i < j /\ s[i].thread = s[j].thread => s[i].number < s[j].number

\* The file and the chunk hold every queued message of every thread once, in
\* the order the thread logged them, however the threads interleave.
Written == file \o chunk
NoMessageLost ==
  /\ \A t \in Threads : \A n \in 1..Queued[t] :
       \E i \in DOMAIN Written : Written[i].thread = t /\ Written[i].number = n
  /\ \A i \in DOMAIN Written : Written[i].number =< Queued[Written[i].thread]
  /\ InOrder(Written)

\* Who sees addEntry of a warning return finds it in the file, together with
\* all that was queued before it; a crash does not change that.
ImportantIsOnDisk ==
  fileOpen => \A t \in Threads : message[t].level = "warning" /\ message[t].number > 0 /\ at[t] \in {"emit", "idle"} =>
    Contains(file, Latest(t))

\* A message that was queued reaches the file unless the process dies first.
MessagesReachTheFile == (chunk # <<>> /\ fileOpen) ~> (chunk = <<>> \/ process = "crashed")
=============================================================================
