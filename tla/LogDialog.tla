------------------------------ MODULE LogDialog ------------------------------
(***************************************************************************)
(* The log handler with the dialog that shows its entries (LogDialog.cc)   *)
(* and the log level of the options (Context.cc).  The dialog is made once *)
(* and kept.  It loads the entries and then connects to newEntry: what     *)
(* the main thread logs is shown at once, what others log arrives through  *)
(* the events of the main thread.                                          *)
(***************************************************************************)
EXTENDS LogHandler, Selection

VARIABLES
  dialog,    \* "none", "loaded" once the entries are shown, "connected"
  rows,      \* the rows of its tree
  posted,    \* entries on their way to the main thread
  logLevel,  \* Context::logLevel_
  heard      \* what was emitted to the dialog since it last loaded the entries

dialogVars == <<dialog, rows, posted, logLevel, heard>>
allVars == <<vars, dialogVars>>

\* acceptMsgType, for a message and the level of the options.
AcceptsAt(m, least) == least = "debug" \/ m.level = "warning"
Accepts(m) == AcceptsAt(m, logLevel)

DialogInit ==
  /\ Init
  /\ dialog = "none"
  /\ rows = <<>> /\ posted = <<>>
  /\ logLevel \in Levels
  /\ heard = {}

\* Mutant: addEntry removes the row it has just added.
WithRowDropsNew(s, m) == IF Accepts(m) /\ Len(s) < MemoryEntries THEN Append(s, m) ELSE s
\* addEntry: a row of a message that is accepted now, and no more rows than
\* entries are kept.
WithRow(s, m) == IF Accepts(m) THEN Newest(Append(s, m)) ELSE s

\* loadEntries: all rows are made anew.
Loaded(least) == Selected(entries, {i \in DOMAIN entries : AcceptsAt(entries[i], least)})

\* The main thread is in its event loop, not in the constructor.
MainIdle == process = "running" /\ at[Main] = "idle"
InEventLoop == MainIdle /\ dialog # "loaded"

-----------------------------------------------------------------------------

\* messageHandler ignores what is below the log level.
LogAccepted(t) ==
  /\ \E level \in Levels : AcceptsAt([level |-> level], logLevel) /\ Log(t, level)
  /\ UNCHANGED dialogVars

Entered(t) ==
  /\ BeginAppend(t) \/ EndAppend(t) \/ Queue(t) \/ Flush(t)
  /\ UNCHANGED dialogVars

\* newEntry: a direct call in the main thread, an event for it in others.
Emitted(t) ==
  /\ EmitNewEntry(t)
  /\ IF dialog # "connected" THEN UNCHANGED <<rows, posted, heard>>
     ELSE /\ heard' = heard \union {Latest(t)}
          /\ IF t = Main THEN rows' = WithRow(rows, Latest(t)) /\ UNCHANGED posted
                         ELSE posted' = Append(posted, Latest(t)) /\ UNCHANGED rows
  /\ UNCHANGED <<dialog, logLevel>>

\* onLog, for the first time: the constructor loads, ...
OpenDialog ==
  /\ MainIdle /\ dialog = "none"
  /\ dialog' = "loaded"
  /\ rows' = Loaded(logLevel)
  /\ UNCHANGED <<vars, posted, logLevel, heard>>

\* ... and connects.  The main thread does nothing else before.
ConnectDialog ==
  /\ MainIdle /\ dialog = "loaded"
  /\ dialog' = "connected"
  /\ UNCHANGED <<vars, rows, posted, logLevel, heard>>

MainMayLog(t) == t # Main \/ dialog # "loaded"

Deliver ==
  /\ InEventLoop /\ posted # <<>>
  /\ rows' = WithRow(rows, Head(posted))
  /\ posted' = Tail(posted)
  /\ UNCHANGED <<vars, dialog, logLevel, heard>>

\* Mutant: the tree is not cleared before the entries are loaded.
SetLogLevelUncleared(level) ==
  /\ InEventLoop /\ level # logLevel
  /\ logLevel' = level
  /\ IF dialog = "connected"
     THEN rows' = Newest(SelectSeq(rows, LAMBDA m : AcceptsAt(m, level)) \o Loaded(level)) /\ heard' = {}
     ELSE UNCHANGED <<rows, heard>>
  /\ UNCHANGED <<vars, dialog, posted>>
\* setLogLevel, from the options: the dialog loads the entries again.
SetLogLevel(level) ==
  /\ InEventLoop /\ level # logLevel
  /\ logLevel' = level
  /\ IF dialog = "connected"
     THEN rows' = Loaded(level) /\ heard' = {}
     ELSE UNCHANGED <<rows, heard>>
  /\ UNCHANGED <<vars, dialog, posted>>

\* The timer and the destructor run in the event loop, a crash anywhere.
FileSteps ==
  /\ Crash \/ (InEventLoop /\ (FlushTimer \/ Destroy))
  /\ UNCHANGED dialogVars

DialogNext ==
  \/ FileSteps
  \/ OpenDialog \/ ConnectDialog \/ Deliver
  \/ \E level \in Levels : SetLogLevel(level)
  \/ \E t \in Threads : (MainMayLog(t) /\ LogAccepted(t)) \/ Entered(t) \/ Emitted(t)

\* As in LogHandler; the constructor of the dialog returns to the event loop.
DialogFairness ==
  /\ \A t \in Threads : WF_allVars(Entered(t) \/ Emitted(t))
  /\ SF_allVars(InEventLoop /\ FlushTimer /\ UNCHANGED dialogVars)
  /\ WF_allVars(ConnectDialog)

DialogSpec == DialogInit /\ [][DialogNext]_allVars /\ DialogFairness

-----------------------------------------------------------------------------
(***************************************************************************)
(* Properties                                                              *)
(***************************************************************************)

\* What was emitted to the dialog is among its rows or on its way, unless the
\* level leaves it out or so many newer rows came that they fill the tree.  This
\* is about what was heard since the entries were last loaded: another thread's
\* append may have overwritten an older message among them.
HeardIsShown ==
  \A m \in heard :
    \/ Contains(rows, m) \/ Contains(posted, m) \/ ~Accepts(m)
    \/ /\ Len(rows) = MemoryEntries
       /\ \A i \in DOMAIN rows : rows[i].thread = m.thread => rows[i].number > m.number

\* What the main thread logs is shown in its order and each message once, although
\* some was loaded and some heard, and the entries may be loaded again.
OwnRowsInOrder ==
  \A i, j \in DOMAIN rows :
    i < j /\ rows[i].thread = Main /\ rows[j].thread = Main => rows[i].number < rows[j].number
=============================================================================
