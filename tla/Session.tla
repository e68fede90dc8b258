------------------------------ MODULE Session ------------------------------
(***************************************************************************)
(* The main window over time (MainWindow.cc): opening, closing and saving  *)
(* projects and binaries, the questions it asks, the loader thread and the *)
(* events and timers that the window's event loops deliver.                *)
(*                                                                         *)
(* Every dialog runs an event loop of its own, inside the function that    *)
(* opened it.  "stack" is the C++ stack of the main thread: its head is    *)
(* either a dialog that waits or the function that runs next with "result" *)
(* as what its callee returned.  Menus are out of reach behind a dialog,   *)
(* but events and timers are delivered to any loop that waits.             *)
(***************************************************************************)
EXTENDS Integers, SequencesExt

CONSTANTS
  Binary,    \* the binary files
  NoBinary,  \* no file
  Users,     \* the users: their files, and their habits, see AllHabits
  MaxQueue,  \* BOUND: events that wait for the main thread
  MaxTimers, \* BOUND: timers that run
  MaxDepth   \* BOUND: functions on the stack

AllHabits == {
  "rush",     \* acts while a load is on its way
  "decline",  \* cancels the choice among the objects of a fat binary
  "waver",    \* does not say No again when openProject asks a second time
  "restore"}  \* minimises the window and shows it again

ASSUME SessionAssumption ==
  /\ NoBinary \notin Binary
  /\ Users \subseteq [files : SUBSET Binary, habits : SUBSET AllHabits]
  /\ MaxQueue \in Nat /\ MaxTimers \in Nat /\ MaxDepth \in Nat

VARIABLES
  user,           \* one of the users
  project,        \* Context::project_: its binary, the binary in its file, signals heard
  tags,           \* the project's tags: as saved, changed, or changed but given up
  modified,       \* MainWindow::modified
  binaryModified, \* MainWindow::binaryModified and saveBinaryAction's state
  actions,        \* whether the other project and binary actions are enabled
  widget,         \* MainWindow::binaryWidget; stale when its objects are freed
  format,         \* the file of MainWindow::format
  loader,         \* MainWindow::loader, a thread
  queue,          \* signals of loaders on their way to the main thread
  timers,         \* delayed functions: onLoadSuccess' and showEvent's
  stack,          \* functions and dialogs of the main thread
  result,         \* what the last function returned
  over            \* how the process ended

vars == <<user, project, tags, modified, binaryModified, actions, widget, format, loader, queue, timers, stack, result, over>>

\* What a freed format, or a destroyed project, leaves dangling.
OfFormat == [current |-> "old", editor |-> "staleEditor", choose |-> "chooseOld", disassemble |-> "disassembleOld"]
OfProject == [saveAs |-> "staleSaveAs"]
Aged(s, names) == [i \in DOMAIN s |-> IF s[i] \in DOMAIN names THEN names[s[i]] ELSE s[i]]

Waiting == {
  "ask", "askBinary", "missing", "pickProject", "pickBinary", "saveAs", "staleSaveAs",
  "choose", "chooseOld", "disassemble", "disassembleOld", "editor", "staleEditor"}
Continuing == {"new", "open", "openFile", "openClosed", "close", "reload", "quit"}

NoProject == [binary |-> NoBinary, saved |-> NoBinary, hooked |-> FALSE]
NoLoader == [state |-> "none", file |-> NoBinary]
IsNamed(p) == p.saved # NoBinary

TypeOK ==
  /\ user \in Users
  /\ project \in {NoProject} \union [binary : Binary, saved : Binary \union {NoBinary}, hooked : BOOLEAN]
  /\ tags \in {"saved", "changed", "givenUp"}
  /\ modified \in BOOLEAN /\ binaryModified \in BOOLEAN /\ actions \in BOOLEAN /\ result \in BOOLEAN
  /\ widget \in {"none", "live", "stale"}
  /\ format \in Binary \union {NoBinary}
  /\ loader \in {NoLoader} \union [state : {"running", "reported", "ended"}, file : Binary]
  /\ queue \in Seq([event : {"success", "failed", "finished"}, file : Binary])
  /\ timers \in Seq({"current", "old", "startup"})
  /\ stack \in Seq(Waiting \union Continuing)
  /\ over \in {"no", "quit", "loader destroyed", "no project", "freed object", "assert"}

Init ==
  /\ user \in Users
  /\ project = NoProject
  /\ tags = "saved"
  /\ modified = FALSE /\ binaryModified = FALSE /\ actions = FALSE
  /\ widget = "none"
  /\ format = NoBinary
  /\ loader = NoLoader
  /\ queue = <<>> /\ timers = <<>> /\ stack = <<>>
  /\ result = TRUE
  /\ over = "no"

-----------------------------------------------------------------------------
(***************************************************************************)
(* The stack                                                               *)
(***************************************************************************)

\* An event loop is spinning: the window's, or that of the topmost dialog.
InLoop == over = "no" /\ (stack # <<>> => Head(stack) \in Waiting)

\* The menus can be reached.  The user waits for a load, unless "rush".
Ready ==
  /\ over = "no" /\ stack = <<>>
  /\ "rush" \in user.habits \/ (loader = NoLoader /\ timers = <<>>)

\* The function or dialog f is on top.
On(f) == over = "no" /\ stack # <<>> /\ Head(stack) = f
Return == stack' = Tail(stack)
Becomes(f) == stack' = <<f>> \o Tail(stack)
Ends(how) == over' = how /\ UNCHANGED stack
RestUnchanged == UNCHANGED <<format, queue, timers>>

\* "caller" calls checkSave, with "rest" below it on the stack.
CallCheckSave(caller, rest) ==
  /\ Len(rest) + 2 =< MaxDepth
  /\ stack' = (IF modified THEN <<"ask", caller>> ELSE <<caller>>) \o rest
  /\ result' = TRUE

\* loadBinary: a loader that has not ended takes the process with it; a file
\* that does not exist is not loaded.
LoaderBusy == loader.state \in {"running", "reported"}
StartLoader(f) ==
  \/ LoaderBusy /\ over' = "loader destroyed" /\ UNCHANGED loader
  \/ ~LoaderBusy /\ loader' = [state |-> "running", file |-> f] /\ UNCHANGED over
  \/ UNCHANGED <<loader, over>>

-----------------------------------------------------------------------------
(***************************************************************************)
(* Saving the project and the binary                                       *)
(***************************************************************************)

\* Mutant: "modified" is cleared even if the file cannot be written.
StoreClearsModified ==
  /\ modified' = FALSE
  /\ \/ /\ project' = [project EXCEPT !.saved = project.binary]
        /\ tags' = "saved"
        /\ result' = TRUE
     \/ result' = FALSE /\ UNCHANGED <<project, tags>>

\* The rest of saveProject once the file name is known: saved, or not.
Store ==
  \/ /\ project' = [project EXCEPT !.saved = project.binary]
     /\ tags' = "saved"
     /\ modified' = FALSE
     /\ result' = TRUE
  \/ result' = FALSE /\ UNCHANGED <<project, tags, modified>>

\* saveProject with "rest" below it: the assertion, then a dialog for the name
\* or straight to the file.
CallSaveProject(saveAs, rest) ==
  IF project = NoProject
  THEN Ends("assert") /\ UNCHANGED <<project, tags, modified, result>>
  ELSE /\ UNCHANGED over
       /\ IF saveAs \/ ~IsNamed(project)
          THEN stack' = <<"saveAs">> \o rest /\ UNCHANGED <<project, tags, modified, result>>
          ELSE stack' = rest /\ Store

SaveProject ==
  /\ Ready /\ actions
  /\ \E saveAs \in BOOLEAN : CallSaveProject(saveAs, <<>>)
  /\ UNCHANGED <<binaryModified, actions, widget, loader>> /\ RestUnchanged

SaveAsAnswered ==
  /\ On("saveAs")
  /\ \/ Store
     \/ result' = FALSE /\ UNCHANGED <<project, tags, modified>>
  /\ Return
  /\ UNCHANGED <<binaryModified, actions, widget, loader, over>> /\ RestUnchanged

\* The pointer taken before the dialog is no longer the project.
StaleSaveAsAnswered ==
  /\ On("staleSaveAs")
  /\ \/ Ends("freed object") /\ UNCHANGED result
     \/ Return /\ result' = FALSE /\ UNCHANGED over
  /\ UNCHANGED <<project, tags, modified, binaryModified, actions, widget, loader>> /\ RestUnchanged

\* saveBinary: a file that cannot be opened changes nothing, and the title at
\* the end wants a project.
CallSaveBinary ==
  \/ result' = FALSE /\ UNCHANGED <<binaryModified, over>>
  \/ /\ result' = TRUE
     /\ binaryModified' = FALSE
     /\ over' = IF project = NoProject THEN "no project" ELSE over

SaveBinary ==
  /\ Ready /\ binaryModified
  /\ CallSaveBinary
  /\ UNCHANGED <<project, tags, modified, actions, widget, loader, stack>> /\ RestUnchanged

-----------------------------------------------------------------------------
(***************************************************************************)
(* checkSave                                                               *)
(***************************************************************************)

AnswerYes ==
  /\ On("ask")
  /\ "waver" \in user.habits \/ ~Contains(stack, "openClosed")
  /\ CallSaveProject(FALSE, Tail(stack))
  /\ UNCHANGED <<binaryModified, actions, widget, loader>> /\ RestUnchanged

AnswerNo ==
  /\ On("ask")
  /\ Return
  /\ result' = TRUE
  /\ tags' = IF tags = "changed" THEN "givenUp" ELSE tags
  /\ UNCHANGED <<project, modified, binaryModified, actions, widget, loader, over>> /\ RestUnchanged

AnswerCancel ==
  /\ On("ask")
  /\ "waver" \in user.habits \/ ~Contains(stack, "openClosed")
  /\ Return
  /\ result' = FALSE
  /\ UNCHANGED <<project, tags, modified, binaryModified, actions, widget, loader, over>> /\ RestUnchanged

-----------------------------------------------------------------------------
(***************************************************************************)
(* Closing, opening and loading                                            *)
(***************************************************************************)

\* Mutant: the menu entries stay enabled.
CloseKeepsActions ==
  /\ project' = NoProject
  /\ tags' = "saved"
  /\ modified' = FALSE /\ binaryModified' = FALSE /\ UNCHANGED actions
  /\ widget' = "none"

\* closeProject once checkSave agreed.  The format stays, unused.
Close ==
  /\ project' = NoProject
  /\ tags' = "saved"
  /\ modified' = FALSE /\ binaryModified' = FALSE /\ actions' = FALSE
  /\ widget' = "none"

\* Mutant: closes without a question.
CloseProjectUnasked ==
  /\ Ready /\ actions
  /\ stack' = <<"close">> /\ result' = TRUE
  /\ UNCHANGED <<project, tags, modified, binaryModified, actions, widget, loader, over>> /\ RestUnchanged

CloseProject ==
  /\ Ready /\ actions
  /\ CallCheckSave("close", <<>>)
  /\ UNCHANGED <<project, tags, modified, binaryModified, actions, widget, loader, over>> /\ RestUnchanged

ContinueClose ==
  /\ On("close")
  /\ IF result
     THEN Close /\ stack' = Aged(Tail(stack), OfProject)
     ELSE Return /\ UNCHANGED <<project, tags, modified, binaryModified, actions, widget>>
  /\ UNCHANGED <<loader, result, over>> /\ RestUnchanged

NewProject ==
  /\ Ready /\ actions
  /\ CallCheckSave("new", <<>>)
  /\ UNCHANGED <<project, tags, modified, binaryModified, actions, widget, loader, over>> /\ RestUnchanged

\* newProject clears "modified", so that its closeProject does not ask.
ContinueNew ==
  /\ On("new")
  /\ IF result
     THEN Close /\ Becomes("pickBinary")
     ELSE Return /\ UNCHANGED <<project, tags, modified, binaryModified, actions, widget>>
  /\ UNCHANGED <<loader, result, over>> /\ RestUnchanged

\* From the menu, or with a file: a recent project.
OpenProject ==
  /\ Ready
  /\ \E f \in {"open", "openFile"} : CallCheckSave(f, <<>>)
  /\ UNCHANGED <<project, tags, modified, binaryModified, actions, widget, loader, over>> /\ RestUnchanged

ContinueOpen ==
  /\ On("open")
  /\ IF result THEN Becomes("pickProject") ELSE Return
  /\ UNCHANGED <<project, tags, modified, binaryModified, actions, widget, loader, result, over>> /\ RestUnchanged

\* Mutant: the old project is not closed first.
CloseNothing ==
  /\ Becomes("openClosed")
  /\ UNCHANGED result

\* The file is known, and closeProject asks once more if it has to.
CloseFirst == CallCheckSave("close", <<"openClosed">> \o Tail(stack))

ContinueOpenFile ==
  /\ On("openFile")
  /\ IF result THEN CloseFirst ELSE Return /\ UNCHANGED result
  /\ UNCHANGED <<project, tags, modified, binaryModified, actions, widget, loader, over>> /\ RestUnchanged

PickProject ==
  /\ On("pickProject")
  /\ CloseFirst
  /\ UNCHANGED <<project, tags, modified, binaryModified, actions, widget, loader, over>> /\ RestUnchanged

\* Whatever closeProject did: the new project takes the place of the old one.
LoadProjectFails ==
  /\ On("openClosed")
  /\ project' = NoProject
  /\ tags' = "saved"
  /\ modified' = FALSE
  /\ stack' = Aged(Tail(stack), OfProject)
  /\ UNCHANGED <<binaryModified, actions, widget, loader, result, over>> /\ RestUnchanged

LoadProject(b) ==
  /\ On("openClosed")
  /\ project' = [binary |-> b, saved |-> b, hooked |-> TRUE]
  /\ tags' = "saved"
  /\ StartLoader(b)
  /\ stack' = Aged(Tail(stack), OfProject)
  /\ UNCHANGED <<modified, binaryModified, actions, widget, result>> /\ RestUnchanged

\* Its binary does not exist: a question, and the signal is not connected.
LoadProjectWithoutBinary(b) ==
  /\ On("openClosed")
  /\ project' = [binary |-> b, saved |-> b, hooked |-> FALSE]
  /\ tags' = "saved"
  /\ stack' = <<"missing">> \o Aged(Tail(stack), OfProject)
  /\ UNCHANGED <<modified, binaryModified, actions, widget, loader, result, over>> /\ RestUnchanged

\* Another project, another binary, or neither.
MissingAnswered ==
  /\ On("missing")
  /\ \/ CallCheckSave("open", Tail(stack))
     \/ Becomes("pickBinary") /\ UNCHANGED result
     \/ Return /\ UNCHANGED result
  /\ UNCHANGED <<project, tags, modified, binaryModified, actions, widget, loader, over>> /\ RestUnchanged

OpenBinary ==
  /\ Ready
  /\ stack' = <<"pickBinary">>
  /\ UNCHANGED <<project, tags, modified, binaryModified, actions, widget, loader, result, over>> /\ RestUnchanged

\* A binary that was picked, is a recent one, or was dropped on the window.
LoadBinary(b) ==
  /\ \/ On("pickBinary") /\ Return
     \/ Ready /\ UNCHANGED stack
  /\ StartLoader(b)
  /\ UNCHANGED <<project, tags, modified, binaryModified, actions, widget, result>> /\ RestUnchanged

\* The other ways out of a dialog: nothing is picked, or edited.
CancelDialog ==
  /\ \/ On("pickProject") \/ On("pickBinary") \/ On("editor")
     \/ "decline" \in user.habits /\ (On("choose") \/ On("chooseOld"))
  /\ Return
  /\ UNCHANGED <<project, tags, modified, binaryModified, actions, widget, loader, result, over>> /\ RestUnchanged

ReloadBinary ==
  /\ Ready /\ actions
  /\ CallCheckSave("reload", <<>>)
  /\ UNCHANGED <<project, tags, modified, binaryModified, actions, widget, loader, over>> /\ RestUnchanged

\* The end of reloadBinary.
Reload ==
  IF project = NoProject
  THEN over' = "no project" /\ UNCHANGED loader
  ELSE StartLoader(project.binary)

ContinueReload ==
  /\ On("reload")
  /\ \/ ~result /\ Return /\ UNCHANGED <<loader, over>>
     \/ result /\ binaryModified /\ Becomes("askBinary") /\ UNCHANGED <<loader, over>>
     \/ result /\ ~binaryModified /\ Return /\ Reload
  /\ UNCHANGED <<project, tags, modified, binaryModified, actions, widget, result>> /\ RestUnchanged

\* checkSaveBinary: Yes and saved, Yes and not saved or Cancel, No.
BinaryAnswered ==
  /\ On("askBinary")
  /\ Return
  /\ \/ /\ binaryModified' = FALSE
        /\ IF project = NoProject THEN over' = "no project" /\ UNCHANGED loader ELSE Reload
     \/ UNCHANGED <<binaryModified, loader, over>>
     \/ UNCHANGED binaryModified /\ Reload
  /\ UNCHANGED <<project, tags, modified, actions, widget, result>> /\ RestUnchanged

\* closeEvent; the window takes a loader that has not ended with it.
Quit ==
  /\ Ready
  /\ CallCheckSave("quit", <<>>)
  /\ UNCHANGED <<project, tags, modified, binaryModified, actions, widget, loader, over>> /\ RestUnchanged

\* Mutant: the window closes whatever the answer was.
ContinueQuitAnyway ==
  /\ On("quit")
  /\ modified' = FALSE
  /\ Ends(IF LoaderBusy THEN "loader destroyed" ELSE "quit")
  /\ UNCHANGED <<project, tags, binaryModified, actions, widget, loader, result>> /\ RestUnchanged

ContinueQuit ==
  /\ On("quit")
  /\ IF result
     THEN /\ modified' = FALSE
          /\ Ends(IF LoaderBusy THEN "loader destroyed" ELSE "quit")
     ELSE Return /\ UNCHANGED <<modified, over>>
  /\ UNCHANGED <<project, tags, binaryModified, actions, widget, loader, result>> /\ RestUnchanged

-----------------------------------------------------------------------------
(***************************************************************************)
(* The loader thread, and what it has the main thread do                   *)
(***************************************************************************)

UIUnchanged == UNCHANGED <<project, tags, modified, binaryModified, actions, widget, format, result>>

\* FormatLoader::run signals success or failure, then QThread its end.
Signal(event) ==
  /\ Len(queue) < MaxQueue
  /\ queue' = Append(queue, [event |-> event, file |-> loader.file])

LoaderReports ==
  /\ over = "no" /\ loader.state = "running"
  /\ Signal("success") \/ Signal("failed")
  /\ loader' = [loader EXCEPT !.state = "reported"]
  /\ UNCHANGED <<timers, stack, over>> /\ UIUnchanged

LoaderEnds ==
  /\ over = "no" /\ loader.state = "reported"
  /\ Signal("finished")
  /\ loader' = [loader EXCEPT !.state = "ended"]
  /\ UNCHANGED <<timers, stack, over>> /\ UIUnchanged

Delivers(event) == InLoop /\ queue # <<>> /\ Head(queue).event = event /\ queue' = Tail(queue)

\* A message box.
OnFailed ==
  /\ Delivers("failed")
  /\ UNCHANGED <<loader, timers, stack, over>> /\ UIUnchanged

\* Mutant: the loader is not destroyed.
OnFinishedIgnored ==
  /\ Delivers("finished")
  /\ UNCHANGED <<loader, timers, stack, over>> /\ UIUnchanged

\* Whichever loader the signal came from, the present one is destroyed.
OnFinished ==
  /\ Delivers("finished")
  /\ IF LoaderBusy
     THEN over' = "loader destroyed" /\ UNCHANGED loader
     ELSE loader' = NoLoader /\ UNCHANGED over
  /\ UNCHANGED <<timers, stack>> /\ UIUnchanged

\* onLoadSuccess: the old format is freed, a project without a file is replaced.
OnLoadSuccess ==
  /\ Delivers("success")
  /\ Len(timers) < MaxTimers
  /\ LET file == Head(queue).file IN
     /\ format' = file
     /\ IF IsNamed(project)
        THEN project' = [project EXCEPT !.binary = file] /\ UNCHANGED tags
        ELSE project' = [binary |-> file, saved |-> NoBinary, hooked |-> TRUE] /\ tags' = "saved"
  /\ stack' = Aged(IF IsNamed(project) THEN stack ELSE Aged(stack, OfProject), OfFormat)
  /\ timers' = Append(Aged(timers, OfFormat), "current")
  /\ widget' = IF widget = "none" THEN "none" ELSE "stale"
  /\ binaryModified' = FALSE
  /\ actions' = TRUE
  /\ UNCHANGED <<modified, loader, result, over>>

-----------------------------------------------------------------------------
(***************************************************************************)
(* Delayed functions                                                       *)
(***************************************************************************)

Fires(timer) == InLoop /\ timers # <<>> /\ Head(timers) = timer /\ timers' = Tail(timers)

\* What comes before the new widget: applyModifiedRegions wants a project, may
\* restore edits, and the events that wait are delivered during disassembly.
Show(age, rest) ==
  IF project = NoProject
  THEN Ends("no project") /\ UNCHANGED binaryModified
  ELSE /\ stack' = <<IF age = "current" THEN "disassemble" ELSE "disassembleOld">> \o rest
       /\ binaryModified' \in {binaryModified} \union (IF IsNamed(project) THEN {TRUE} ELSE {})
       /\ UNCHANGED over

\* onLoadSuccess' delayed part: one object, or a choice among several.
ShowLoaded(age) ==
  /\ Fires(age)
  /\ Len(stack) < MaxDepth
  /\ \/ Show(age, stack)
     \/ /\ stack' = <<IF age = "current" THEN "choose" ELSE "chooseOld">> \o stack
        /\ UNCHANGED <<binaryModified, over>>
  /\ UNCHANGED <<project, tags, modified, actions, widget, format, loader, queue, result>>

Choose ==
  /\ \/ On("choose") /\ Show("current", Tail(stack))
     \/ On("chooseOld") /\ Show("old", Tail(stack))
  /\ UNCHANGED <<project, tags, modified, actions, widget, loader, result>> /\ RestUnchanged

Disassembled ==
  /\ On("disassemble") \/ On("disassembleOld")
  /\ widget' = IF On("disassemble") THEN "live" ELSE "stale"
  /\ Return
  /\ UNCHANGED <<project, tags, modified, binaryModified, actions, loader, result, over>> /\ RestUnchanged

\* showEvent does not keep track of the first time: the startup file is loaded
\* whenever the window comes back.
ShowEvent ==
  /\ over = "no"
  /\ "restore" \in user.habits
  /\ Len(timers) < MaxTimers
  /\ timers' = Append(timers, "startup")
  /\ UNCHANGED <<loader, queue, stack, over>> /\ UIUnchanged

LoadStartupFile ==
  /\ Fires("startup")
  /\ \/ \E b \in user.files : StartLoader(b) /\ UNCHANGED <<stack, result>>
     \/ CallCheckSave("openFile", stack) /\ UNCHANGED <<loader, over>>
  /\ UNCHANGED <<project, tags, modified, binaryModified, actions, widget, format, queue>>

-----------------------------------------------------------------------------
(***************************************************************************)
(* Changes to the project and to the binary                                *)
(***************************************************************************)

\* addAddressTag, removeAddressTags: the window notices if it is connected.
EditTags ==
  /\ Ready /\ widget # "none"
  /\ IF project = NoProject
     THEN over' = "no project" /\ UNCHANGED <<tags, modified>>
     ELSE /\ tags' = "changed"
          /\ modified' = (modified \/ project.hooked)
          /\ UNCHANGED over
  /\ UNCHANGED <<project, binaryModified, actions, widget, loader, stack, result>> /\ RestUnchanged

OpenEditor ==
  /\ Ready /\ widget # "none"
  /\ IF widget = "stale" THEN Ends("freed object") ELSE stack' = <<"editor">> /\ UNCHANGED over
  /\ UNCHANGED <<project, tags, modified, binaryModified, actions, widget, loader, result>> /\ RestUnchanged

\* The section was changed; checkModified's signal wants a project.
EditorDone ==
  /\ On("editor")
  /\ Return
  /\ IF project = NoProject THEN over' = "no project" ELSE UNCHANGED over
  /\ binaryModified' = TRUE
  /\ UNCHANGED <<project, tags, modified, actions, widget, loader, result>> /\ RestUnchanged

\* checkModified looks at a section that is gone.
StaleEditorDone ==
  /\ On("staleEditor")
  /\ Ends("freed object")
  /\ UNCHANGED <<project, tags, modified, binaryModified, actions, widget, loader, result>> /\ RestUnchanged

-----------------------------------------------------------------------------
LoadsBinary == \E b \in user.files : LoadBinary(b)
LoadsProject == LoadProjectFails \/ \E b \in user.files : LoadProject(b) \/ LoadProjectWithoutBinary(b)
ShowsLoaded == ShowLoaded("current") \/ ShowLoaded("old")

Menu ==
  \/ SaveProject \/ SaveBinary \/ NewProject \/ OpenProject \/ CloseProject
  \/ OpenBinary \/ ReloadBinary \/ Quit \/ EditTags \/ OpenEditor

Dialogs ==
  \/ AnswerYes \/ AnswerNo \/ AnswerCancel \/ BinaryAnswered \/ MissingAnswered
  \/ SaveAsAnswered \/ StaleSaveAsAnswered \/ PickProject \/ CancelDialog \/ Choose
  \/ EditorDone \/ StaleEditorDone

Continue ==
  \/ ContinueNew \/ ContinueOpen \/ ContinueOpenFile \/ ContinueClose \/ ContinueReload \/ ContinueQuit
  \/ LoadsProject \/ Disassembled

Deliver == OnFailed \/ OnFinished \/ OnLoadSuccess \/ ShowsLoaded \/ LoadStartupFile

Acts == Menu \/ LoadsBinary \/ Dialogs \/ Continue \/ LoaderReports \/ LoaderEnds \/ ShowEvent \/ Deliver
Same(act) == act /\ UNCHANGED user
Next == Same(Acts)

Spec == Init /\ [][Next]_vars

\* The main thread runs on until it waits, the thread runs, and every turn of
\* an event loop delivers the events and timers that wait.  Users do as they like.
Fairness ==
  /\ WF_vars(Same(Continue))
  /\ WF_vars(Same(LoaderReports)) /\ WF_vars(Same(LoaderEnds))
  /\ SF_vars(Same(Deliver))

FairSpec == Spec /\ Fairness

-----------------------------------------------------------------------------
(***************************************************************************)
(* Properties                                                              *)
(***************************************************************************)

\* The process ends only by being quit: no loader is destroyed under its
\* thread, no function finds its project or its objects gone.  For users with
\* no habits: see the README for what each habit can do.
NoFault == user.habits = {} => over \in {"no", "quit"}

\* The project can be saved only while the loaded binary is its binary:
\* saveProject attaches the regions of "format" to whatever project there is.
SavesOwnRegions == user.habits = {} /\ over = "no" /\ (actions \/ modified) => project.binary = format

\* Changed tags that the window heard of make it ask before it drops them.
TagsAreNoticed == tags = "changed" /\ project.hooked => modified

\* The tags of a project the window listens to are dropped only after the user
\* said No to saving them, or by a load that replaces a project without a file.
TagsAreNotDropped ==
  [][tags = "changed" /\ project.hooked /\ tags' = "saved" =>
       \/ SaveProject \/ SaveAsAnswered \/ AnswerYes
       \/ OnLoadSuccess /\ ~IsNamed(project)]_vars

\* Nor does the window close over them.
QuitsClean == over = "quit" /\ project.hooked => tags # "changed"

\* A load comes to an end: its thread is cleaned up and what it found is on
\* show, or being chosen from.
LoadsEnd ==
  (user.habits = {} /\ (loader # NoLoader \/ timers # <<>>)) ~> (loader = NoLoader /\ timers = <<>>) \/ over # "no"

=============================================================================
