# Specifications of dispar

dispar loads a binary (Mach-O, thin or fat), shows its sections as disassembly
and hex dumps, lets the user edit bytes and tag addresses, writes the edits
back into the file, and keeps tags and edits in project files.  These modules
describe how it does that: what is edited, what is remembered, what is asked,
what is written, and in which order.  Paths below are relative to the
repository's `src/` directory (`Section.cc` is `src/src/Section.cc` from the
top); every definition of a module and the lines it stands for are listed in
`PROJECT.json` under `map`.

Contents: [parts of the system](#the-parts-of-the-system) ·
[modules](#the-modules) · [runs and bounds](#what-the-runs-check) ·
[fairness](#fairness) · [proofs](#what-is-proved) ·
[disagreements with comments](#where-code-and-comments-disagree) ·
[abstractions](#abstractions-and-what-is-left-out) · [plan](#plan)

## The parts of the system

| Component | State it keeps | Operations | Talks to |
|---|---|---|---|
| Section (`Section.cc`) | bytes, list of modified regions, time of the last change | `setData`, `setSubData` | filled by the parser, changed by editors, read by `Format::write` |
| Format (`formats/Format.cc`) | objects and their sections | `write`: every region of every section into the open file | called by `MainWindow::saveBinary` and `main.cc` |
| Mach-O parser (`formats/MachO.cc`, `Reader.cc`) | reader position, objects under construction | `parse`: header, load commands, sections, symbols | runs in the loader thread |
| Format loader (`formats/FormatLoader.cc`) | a thread | `run`: detect, parse, signal | signals queued to the main thread |
| Main window (`widgets/MainWindow.cc`) | "modified" and "binary modified", the loader, the format, the binary widget, enabled actions | every menu entry, every question, `onLoadSuccess` | everything |
| Project (`Project.cc`) | tags by address, modified regions by address, its own file and its binary | load, save, add and remove tags, attach and clear regions | signal `modified` to the main window |
| Context (`Context.cc`) | the current project, settings, recent files | create, load, close the project; load and save settings | singleton used everywhere |
| Binary widget (`widgets/BinaryWidget.cc`) | views of one object, cached editors, list of tags | set-up with nested event loops, context menus that open editors, `checkModified` | reports modifications to the main window |
| Hex and disassembly editors (`widgets/HexEdit.cc`, `HexEditor.cc`, `DisassemblyEditor.cc`) | rows of one section | change one row, one instruction | `Section::setSubData` |
| SDK version editor (`MacSdkVersionPatcher.cc`, `widgets/MacSdkVersionsEditor.cc`) | two versions | set target, SDK or both | `Section::setSubData` |
| Hex dump encoder (`AddrHexAsciiEncoder.cc`) | counted tasks, collected results | `start`, `addResult` | thread pool; the main thread waits in a nested event loop |
| Backups (`MainWindow::saveBackup`) | numbered copies beside the binary | copy before each save, remove the oldest | settings of the options dialog |
| Log (`LogHandler.cc`, `widgets/LogDialog.cc`) | entries in memory, pending chunk, log file | accept a message of any thread, flush | every thread; timer; destructor |
| Omni search (`widgets/OmniSearchDialog.cc`) | candidates and results | search in chunks in several threads, activate | binary widget |
| Debugger (`Debugger.cc`) | settings of the debugger | is it runnable, start | processes |
| Tag editing (`widgets/TagsEdit.cc`, `TagItemDelegate.cc`) | the tags of one address | add and remove a tag, follow the cursor | project, binary widget |
| C strings, symbols (`CStringReader.cc`, `SymbolTable.cc`) | read position | next string | parser, binary widget |

What is hard in this program:

- **Overlapping regions.**  A section remembers its edits as a pruned list of
  regions that may overlap; three consumers (write-back, attaching to a
  project, comparison before and after an editor) each rely on a different
  property of that list.
- **Nested event loops.**  Each dialog, the wait for the hex dump, and the
  `processEvents` in the disassembly run an event loop *inside* the function
  that asked.  Signals of the loader thread and timers are delivered to
  whichever loop happens to spin, and replace the project, the format and the
  widget under the function that waits.
- **Two ways to lose work.**  "modified" (the project) and "binary modified"
  (the file) are set, cleared and asked about on different paths.
- **Failure and death.**  The binary is patched in place, region by region,
  and short writes are not looked at; the project file is truncated before it
  is written.
- **Several views of one thing.**  The main view, the lists beside it, three
  kinds of editors that are kept after they are closed, the log dialog and the
  search dialog each hold a copy of, or a pointer into, what another part
  changes; time stamps, signals and modality are all that keeps them together.
- **Threads.**  The loader, the thread pool of the hex dump, the search in
  chunks, and everything that logs.

What makes each component correct:

- *Sections and write-back*: every byte that differs from the file lies in a
  region; the newest region over a byte describes it; no write touches a byte
  that was not edited, and none puts an older edit over a newer one; "nothing
  to save" implies that memory and file agree.
- *Project*: what is saved is what was edited, what is restored is what was
  saved, and the binary counts as modified exactly when something was restored.
- *Main window*: tags are dropped only with the user's consent, the process
  does not reach into freed objects, a load comes to its end, and a project is
  saved with the regions of its own binary.
- *Editors*: what an editor shows is what the section holds, whatever was changed
  in another editor since and whatever was deleted in this one.
- *Tags and the views of them*: a tag is used once, a project reads back as it
  was written, and both views show the tags there are.
- *Main view*: changed in place, it is as if it had been built anew.
- *Omni search*: every match is found once, and an item leads to what was found.
- *Hex dump*: the dump is whole and in order.
- *Log*: no message is lost or doubled, warnings are on disk at once, and the
  dialog shows what it hears of.
- *Backups*: the limit holds, and the newest copies are kept.

## The modules

| Module | Models | Extends |
|---|---|---|
| `Selection` | the elements of a sequence at some positions, in their order | |
| `Regions` | the operators on bytes and region lists of a section | `Selection` |
| `BinaryEdit` | one loaded binary: editors, flag, write-back, death | `Regions` |
| `WriteBack` | abstract: a document, a disk and a claim | |
| `ProjectRegions` | edits that travel through a project file | `Regions` |
| `Session` | the main window, its dialogs, the loader, events and timers | |
| `AddrHexAsciiEncoder` | the parallel hex dump | |
| `LogHandler` | entries, chunk and file under several threads | |
| `LogDialog` | the log handler with its dialog and the log level | `LogHandler`, `Selection` |
| `Editors` | the editors of one section, kept and opened again | `Selection` |
| `ProjectTags` | tags, the list of them, the tags of the address under the cursor | `Selection` |
| `MainView` | the lines of the binary on show and the cursor | |
| `OmniSearch` | the search dialog over tags and main view | `ProjectTags`, `MainView` |
| `Backups` | numbered copies | |
| `MachO` | the parser: from the words of a file to objects and sections | `Selection` |
| `PatchSdk` | patching SDK versions from the command line | `MachO` |
| `Regions_proofs` | lemmas about selections, positions and the operators on regions | |
| `BinaryEdit_proofs`, `ProjectRegions_proofs`, `Session_proofs`, `Editors_proofs`, `LogDialog_proofs`, `OmniSearch_proofs` | theorems about the components and their proofs; the last one covers `ProjectTags` and `MainView` as well | |
| `Standalone_proofs` | theorems about `Backups`, `AddrHexAsciiEncoder`, `MachO` and `PatchSdk`, which share no state with other components | |
| `MC*` | instances for TLC, one module per component | |

Operators named in a comment as a *mutant* are plausible wrong versions of the
definition that follows them.  Nothing refers to them but the mutants listed in
`PROJECT.json`, each of which makes one property fail; they show that the
property depends on the code that is modelled.

### Regions

The pure part of `Section.cc`.  A byte array is a sequence; a `ModifiedRegion`
is its position and the bytes it was made from (the code keeps a hash of those
bytes and uses it only to compare; the hash is exact unless two contents
collide).  `Replace` and `Mid` are what the two `QByteArray` calls do.
`SubDataData` and `SubDataRegions` are `setSubData`: the early return
(`AcceptsSub`), the replacement, the append of a region, and the loop that
drops every region contained in a newer one.  The code's loop erases in place
while it walks; `Prune` says which regions remain and in which order, as a
`Selected` part of the list (`Selection`).

### BinaryEdit

| State | Code |
|---|---|
| `data[s]`, `regions[s]` | `Section::data_`, `Section::modifiedRegions_` |
| `file` | the binary on disk |
| `binaryModified` | `MainWindow::binaryModified`, which enables "Save binary" |
| `phase` | what the main thread does: idle, an editor is open, saving, no process |
| `editor` | the section being edited and the copy of its regions that the binary widget made before it opened the editor |
| `at` | where in its two loops `Format::write` is |

| Action | Code |
|---|---|
| `Load` | `onLoadSuccess` with a parsed format |
| `Crash` | death of the process at any point |
| `OpenEditor`, `Edit`, `CloseEditor` | the context menu of the binary widget, one `setSubData` of a row or instruction, `checkModified` |
| `PatchVersions` | `MacSdkVersionsEditor::accept` and `MacSdkVersionPatcher::patch` |
| `SaveBinary`, `WriteRegion`, `NextSection`, `SaveDone` | `MainWindow::saveBinary` and `Format::write` |

`WriteRegion(n)` writes the first `n` bytes of a region; with `WritesMayFail`
any `n` may happen, as the result of `QIODevice::write` is not looked at.  The
list of regions is not cleared by a save, as in the code.

`WriteBack` is what all this is for: a document and a disk, and a claim that
nothing is unsaved which may be made only when they agree.  `RefinesWriteBack`
states that `BinaryEdit` implements it, with the sections' bytes as the
document (the file's, when there is no process), the bytes of the file at the
sections' offsets as the disk, and "idle and not modified" as the claim.

### ProjectRegions

From `saveProject`, which attaches the regions of all sections to the project
under their addresses, through the project file, to `applyModifiedRegions`,
which puts them back into the sections of the object the user chose.  `todo` is
what the two nested loops of `applyModifiedRegions` still have to visit, in the
code's order; `attached.map` is `Project::modifiedRegions_`, whose keys are
addresses, so that of several regions that begin at one address the last stays.
`attached.origin` and `stored.origin` are history only: the bytes of the image
the regions were taken from.  Loading, editing and saving the binary are single
steps here, as `BinaryEdit` takes them apart.

### Session

| State | Code |
|---|---|
| `project`, `tags` | the project of `Context`, its binary and that of its file, whether its signal is connected; whether tags changed since they were saved |
| `modified`, `binaryModified`, `actions` | the flags of the main window and the menu entries it enables |
| `widget`, `format`, `loader` | the members of those names |
| `queue` | signals of a loader that wait for the main thread |
| `timers` | `Util::delayFunc` calls that have not fired |
| `stack`, `result` | the C++ stack of the main thread and what the last function returned |
| `over` | how the process ended |

A function that opens a dialog becomes two or more actions: the part up to the
dialog, and the part after it, with the dialog and the function on `stack` in
between.  So `openProject` is `OpenProject` (call `checkSave`), `ContinueOpen`
(pick a file), `PickProject` (call `closeProject`, which asks again), and
`LoadProject`, `LoadProjectFails` or `LoadProjectWithoutBinary`.  Anything that
the loader or a timer brings is delivered while a dialog waits.  If a format is
freed under a function that holds on to its objects, that function's name on
the stack is replaced by its "stale" twin (`Aged`); going on with it ends the
process with `over = "freed object"`.

There are several `Users`, each with files and with *habits*, and `user` is the
one at the machine: a careful one, with none, for whom nothing may go wrong, and
one with all of them, for whom less is claimed.  What each habit can lead to:

| Habit | What the user does | What it can lead to |
|---|---|---|
| `rush` | uses the menus while a load is on its way | a running loader is destroyed, a delayed function finds no project, objects are used after they were freed |
| `decline` | cancels the choice among the objects of a fat binary | the widget on show keeps the objects of a format that is gone |
| `waver` | when `openProject` asks a second time, answers Yes or Cancel | the assertion in `saveProject` |
| `restore` | minimises the window and brings it back | the startup file is loaded again, over whatever was open |

### Editors

| State | Code |
|---|---|
| `data`, `touched`, `disasm` | `Section::data_`, `isModified`, `disassembly`; `edits` only counts, for the bound |
| `open`, `prior` | the editor inside whose `exec` the main thread is; the section before it |
| `hex`, `loading`, `raced` | `HexEditor` and the text of its `HexEdit`, with the rows that were edited since they were dumped; the dump it waits for |
| `code` | `DisassemblyEditor`: its rows and its update button |
| `versions` | `MacSdkVersionsEditor`: what its patcher has read, what its fields show |
| `main`, `declined` | what the binary widget shows; whether a reload was declined since |

The binary widget makes an editor of a section once and opens the same one
again.  `showEvent` then compares the time stamp the editor took with that of
the section (`Outdated`).  Only equality of stamps is used, so a stamp is `null`,
the section's, or another; `Section` and editor stamp an edit one after the
other, so that after it the two may be equal or not.  Each kind of row is
written back the way its editor does it: what is left of a row of the dump
(`EditRow`), an instruction (`EditInstruction`), a version that differs from the
one the patcher remembers (`Patched`).

The text of the hex editor is a sequence of places, two for each byte, with a
digit or, where the user deleted it, a blank.  `Dump` fills it from the bytes.  The
dialog of a row offers the digits that `cursorBlock` finds in the line (`Offered`):
all of them by twos, but of an edited row that ends in too many spaces the line
was trimmed, and digits at its end pass for characters.  How many depends on the
layout; the model leaves it open.  `OK` accepts what is left of the input mask
(`Left`, `Typed`): the row then shows the gaps, while `HexToData` of the digits
without them is written, shifted after a lone digit and shorter than the row.
A line that comes out as it was is no edit (`SameLine`).  `Instructions` is what the disassembler finds: it
begins at the first byte, goes from one instruction to the end of it, and stops
at what it cannot decode.

`BinaryEdit` asks which bytes of the file are ever written; `Editors` asks
whether what the user sees while editing is true.

### ProjectTags, MainView, OmniSearch

`ProjectTags` has the tags by address, `Added` and `Without` for
`addAddressTag` and `removeAddressTags`, `Reread` for the way through the
project file, address by address and tag by tag (`AddedAll`), and the two views of the tags.

`MainView` lays the text out as `BinaryWidget::setup` does, line by line with
the address each line has (`Layout`, and `Procedure` for the lines before the
first instruction of one), and changes it in place as the option
"Show Machine Code" does (`Turned`).  A character stands for a column or a word.
`Strings` is `CStringReader` on the bytes of the strings.  `BlockOf` is
`offsetBlock`, in which of two lines with one address the last one stays.
`FirstAddress` is what `setup` selects: of code at address 0 that is the second
instruction, as `firstAddress` is set for as long as it is 0.

`OmniSearch` runs over both:

| State | Code |
|---|---|
| `visible`, `input`, `searchText` | the dialog is shown, its pattern, its check box |
| `timer` | `searchTimer` is running |
| `candidates` | the items of `candidatesWidget`; `live` while what they point to is |
| `searched` | history: they were found since the dialog was shown |
| `activation` | the item for which `activateCurrentItem` has set a timer of 1 ms |

A pattern is an element of `Pattern`: its text, and the tags, rows and sections
that it matches.  The text is literal and within a line; see
[below](#abstractions-and-what-is-left-out) for what that leaves out of an
expression.  `Chunks` cuts the text as `flexMatchTextOffset`'s caller does,
for any number of threads; candidates beyond `Limit` are dropped, and which ones
is left open.  What an item does that was freed, or that leads to a freed list
item, is any movement of the cursor.

### AddrHexAsciiEncoder, LogHandler, LogDialog, Backups

The hex dump: `Start` makes one task per chunk, a pool of `Threads` threads
takes them in order, results come back in any order, and `AddResult` sorts and
joins when the last one is in (`Sorted`, `Joined`).  A byte of data is its
position.  Variables and specification are named `Encoder...` where `Backups` has
the same names, as `Standalone_proofs` is about both; those of `MachO` and `PatchSdk`
are named likewise.

The log: `addEntry` in five steps per thread, with the two mutex-protected
parts (`Queue`, `Flush`) atomic and the unprotected append to the entries in
memory split in two; the timer and the destructor flush as well.

The log dialog (`LogDialog`): it loads the entries and then connects to
`newEntry`; what the main thread logs becomes a row at once, what other threads
log is `posted` to it.  `setLogLevel` makes all rows anew.  The main thread logs,
loads and delivers, never two of these at a time; the other threads go on.

Backups: a copy is a number and the content it holds.  Directory entries are
sorted by *name*, numbers padded to `Width` digits; `NamedBefore` is the
order of those names, `Place` where an entry is in it, and `Remaining` what is
left of the entries when the oldest are gone.

### MachO, PatchSdk

A file is a sequence of words of four bytes, the parser a machine with a
position in it.

| State | Code |
|---|---|
| `file`, `pos`, `order` | the file and the `Reader` on it |
| `archs`, `left` | the loops over the objects of a fat file and over load commands |
| `object`, `objects` | the `BinaryObject` that `parseHeader` builds, `MachO::objects_` |
| `whole` | history: the file before it was cut off |
| `request`, `next`, `patched`, `exit` | options, loop, modified sections and exit code of `main` |

Each kind of load command has in `Checked` the words that `parseHeader` reads
one by one with a check, and in `Unchecked` those it reads with `read`, which
takes what there is.  `CommandFails`, `PassCommand`, the `Load...` actions and
`SegmentFails` are one round of its loop.  Two things keep a model of a parser
from agreeing with itself: commands are found at the position the reader really
reached, so that after a wrong count it reads whatever words are there; and the
last part of the module says independently, from the definition of the format,
where commands begin (`Starts`), what size each has (`SizedAs`) and which sections
they bring (`AllSections`).  The properties are about files whose commands are of
the kinds that `parseHeader` reads in full, cut off or not (`Understood`); the
types (`ParserTypeOK`) and the rest of the inductive invariant are about all.

Byte order matters in one place: the header of a fat file is stored the other
way round.  A word in the other order is the negation of its value, which makes
reading in the wrong order twice harmless and once conspicuous.

`PatchSdk` goes on from there: `handlePatchSdk` looks at the first section of
the platform in each object, and `saveFile` writes the patched ones back.
`SectionsApart` is what `BinaryEdit` assumes of its sections
(`LayoutAssumption`), here as a result of parsing.

## What the runs check

The largest runs (`edit`, `restore`, `log`, `search`) take two minutes or so, the
others less.  `pass` runs:

| Run | Configuration | Shows |
|---|---|---|
| `edit` | one section of three bytes, writes that may fall short | for every sequence of edits, saves, reloads and deaths: a byte that differs from the file is covered by a region, the newest region describes the byte, and nothing but edited bytes is ever written |
| `versions` | two sections, one with SDK versions, gaps around them, writes that succeed | the inductive invariant `IInv`, the flag is sound, `WriteBack` is implemented, and a save ends |
| `restore` | a fat binary of two objects, one section each | what is attached, stored and restored is what was edited, whichever object is chosen; restored edits count as unsaved, and so does whatever else differs |
| `session` | a careful user with two binaries, a user of all habits with one | for the careful user: no fault, regions saved with their own binary, loads end; for both: tags the window has heard of are not dropped unasked, and it does not quit over them |
| `editors` | a section of code of three bytes or of two versions, rows of two bytes, two edits | whatever was edited where, digits deleted and rows cut included: what the open editor shows is what the section holds, the disassembly and the main view follow, and OK writes the versions on show |
| `search` | two instructions, a string, versions and a dump, two tags, any number of threads | tags are used once and read back, both views show them, the view changed in place is the view built anew, each match is found once, and an item just found leads to it |
| `hex_dump` | sizes 0 to 19, chunks of four bytes, two threads | the dump is whole, whatever order the chunks come back in, and it ends |
| `log` | two threads, two messages each, the dialog, changing levels | no message lost, warnings on disk, every queued message in the file in the end; the dialog shows what it was told of, and the main thread's messages once and in order |
| `backups` | up to six saves, any change of settings, deleted copies, copies that fail | the limit holds, and the newest copies are kept while numbers fit the padding |
| `patch_sdk` | files of 24 kinds of load commands, alone, in pairs and in chosen longer orders, 32 and 64 bits, thin and fat, cut off at every word | of commands that are read in full every section is found, cut-off files included; sections do not overlap; stubs have their names; a patch changes target versions only, in every object |

The others (`no_longer_needed`, `in_step`) expect a violation, see
[below](#where-code-and-comments-disagree).

### Bounds, and why they are enough

- `BinaryEdit`: three bytes are the fewest where two regions overlap without
  one containing the other, and where a new region swallows an old one on
  either side; two values make every change visible.  In `edit` the values are
  symmetric (no operator compares or orders them, and that run checks no
  liveness).  `MaxRegions = 2` bounds
  the list *after* pruning, so the third region that makes pruning happen is
  tried; longer lists are covered by the proofs.  Two sections with a gap
  before and after them show a write that strays.
- `ProjectRegions`: a section of three bytes in one object and one of a single
  byte in another; edits of up to two bytes, so that two regions begin at one
  address, overlap or end with the section.  `FewRegions` allows two regions in
  both sections together: two in one section, or one in each object.  The rest of
  the constraint
  `OneSetOfRegions` leaves out states where a failed save left regions attached
  that differ from those of an existing project file: two histories at once
  would square the state space without a step that mixes them.
- `Session`: `MaxQueue = 3` holds the two signals of one loader and one of the
  next; `MaxTimers = 2` a delayed load and the startup timer, or two loads;
  `MaxDepth = 3` the deepest chain that a menu entry starts (ask, close,
  openClosed).  With habits, a timer or a missing binary can start such a chain
  inside a dialog again, without end; those deeper than three are cut.
- `Editors`: a byte has two digits of two values, so that it is 0 to 3.  Three
  bytes make one instruction, or two, or three, or leave a rest that cannot be
  decoded, and edits turn these into each other; rows of two bytes (`RowSize`)
  are one full row and one that is short.  One space before the characters
  (`Gap`), so that a row may end in as many spaces as do no harm, or in more.
  Any digit may be deleted or typed over by the one of `Keys`.  `Samples` are the
  bytes at first: one instruction; an instruction with a rest, all of them spaces
  (the byte 2); a short instruction with a longer rest and a space at its end; and
  pairs of versions, in and out of range.  `MaxEdits = 2`: an edit and what a second one
  makes of it, in the same editor or another.  Versions are read modulo
  `MinorMod = 2`, so that one of them is read as another, and 0 is out of a field's
  range.  Editors are opened and closed without a bound; the proofs are about any
  number of edits of sections and rows of any size.
- `MainView`, `OmniSearch`: one instruction that fits its column and one that is
  wider (`Width = 2`), a string behind a leading zero, a symbol without a line,
  and, as in an object file, code at address 0 and a version at an offset that is
  also the address of an instruction.
  `MaxLine = 5` lets the wider instruction's line grow once.  `Threads` are one
  (the chunk is the text), six (three chunks) and two hundred (chunks without a
  size).  `Limit = 5` drops one of the at most six candidates.  `Visited` is the address
  where the cursor is put by hand, one that two lines share; the user may also go
  to the first instruction by a reload.  One pattern, that matches in two lines,
  and "no pattern".
- `AddrHexAsciiEncoder`: up to five chunks on two threads, so that chunks
  finish out of order around each other and the last one is short by any
  amount, including none.
- `MachO`: the reader keeps nothing from one command to the next but its
  position and the object, so every kind after every other shows whether each is
  left at the right place; the longer orders are those where symbols, stubs and
  strings, or two versions, depend on each other.  Cut-off files are those with
  one command and a fat one.  No command occurs twice, as linkers emit them.
- `LogHandler`: two messages per thread, so that a thread's order matters, and
  two entries in memory, so that entries give way, and rows of the dialog too.
- `Backups`: two binary digits stand for four decimal ones: the fourth copy
  does not fit the padding.  Six saves pass that point twice over.

## Fairness

- `BinaryEdit!FairSpec`: weak fairness of the steps of a save.  `Format::write`
  is one loop on the main thread with no wait in it.
- `Session!FairSpec`: weak fairness of the functions on the stack (the main
  thread runs until it waits), weak fairness of the loader's two steps (a thread
  the system schedules), and strong fairness of delivery: Qt's event loops,
  nested or not, send posted events and expired timers in every turn.  Strong,
  because a function on the stack disables delivery for a moment again and
  again.  Users are never forced: no answer, menu entry or edit is fair.
- `AddrHexAsciiEncoder`: weak fairness of the pool, its tasks and delivery, for
  the same reasons.  `Start` is not fair.
- `LogHandler`: weak fairness of each thread inside `addEntry`, strong fairness
  of the timer, which can fire only when the main thread is not itself logging.
  Neither logging, nor the end, nor a crash is fair.  `LogDialog` says the same of
  its steps, and weak fairness of the constructor's last one; opening the dialog,
  changing the level and delivery to the dialog need none.
- `Editors`, `ProjectTags`, `MainView`, `OmniSearch`, `Backups`, `ProjectRegions`
  and `MachO` claim safety only, and assume no fairness.

## What is proved

The theorems hold for every value of the constants that the named assumptions
of the modules allow, without the bounds of the runs: every layout of sections,
every set of users, binaries and threads, queues and lists of every length.

| Module | Inductive invariant | Theorems about the runs' properties |
|---|---|---|
| `BinaryEdit_proofs` | `Invariance`: `IInv` | `EditsAreCovered`, `RegionsDescribeData`, `NoRegionIsRedundant`, `SaveFlagIsSound`, `WritesAreEdits`, `ImplementsWriteBack` |
| `ProjectRegions_proofs` | `ProjectInvariant`: `PInv` | `AttachedSnapshot`, `OnlySavedRestored`, `RestoreFlagIsSound`, `InnerRegionsRestored` |
| `Session_proofs` | `AnyUserInvariant`: `AnyUserInv`; `CarefulInvariant`: `CarefulInv` | `TagsNoticed`, `QuitClean`, `TagsNotDropped`, `NeverFaults`, `SavesOwn` |
| `Editors_proofs` | `EditorsInvariant`: `EInv` | `ShowsData`, `DisassemblyFollows`, `MainViewFollows`, `OkWritesSpins` |
| `LogDialog_proofs` | `LogInvariant`: `LogInv`; `DialogInvariant`: `LogInv /\ DialogInv` | `NothingLost`, `WarningsOnDisk`, `HeardShown`, `OwnRowsOrdered` |
| `OmniSearch_proofs` | `ViewInvariant`: `ViewOK`; `TagsInvariant`: `Tidy`; `DialogInvariant`: `Base /\ DialogOK /\ CursorOK` | `ToggleRebuilds`, `TagsShown`, `TagsAreReadBack`, `EachMatchFoundOnce`, `ActivationLeads` |
| `Standalone_proofs` | `BackupsInvariant`: `BInv`; `EncoderInvariant`: `EncoderInv`; `PatchInvariant`: `PatchInv` | `AmountIsKept`, `NewestAreKept`; `DumpIsWhole`; `SectionsFound`, `StubsNamed`, `TargetsPatched`, `PatchEffect` |

Type correctness is part of each inductive invariant and a theorem of its own
(`ProjectTyped`, `SessionTyped`, `BackupsTyped`, `EncoderTypes`, `PatchTyped`) where the component's module has
a type invariant.  Each proof has one lemma per action that an invariant has to
survive, and lemmas for the parts of the invariant that an action leaves alone.

### Selections and regions

All in `Regions_proofs`.  `SelectedEnumerates` says what `Selected` returns: the chosen
elements, each once, in their order.  `Rank` and `Nth` (the k-th member of a set of positions)
make the enumeration explicit; `NthEnumerates` shows it to be an increasing
bijection.  `GreatestIndex`, that a non-empty set of positions has a greatest
member, is obtained from the finiteness of the set.  It stands in for induction
over positions: what holds up to some position fails at a least one, if at all.

About `setSubData`: `PruneKeepsCover` (pruning loses no
covered byte, and the newest region over a byte is the same one before and
after), `PruneLeavesNoNesting` (afterwards no region lies inside a newer one),
`SetSubDataEffect` (the combined effect of a call on bytes and regions).

### BinaryEdit

The only assumption is `LayoutAssumption`: sections lie inside the file and do
not overlap there, and a section of SDK versions has room for exactly two.
The safety properties are not inductive by themselves.  `UncoveredIsOnFile`
needs `NewestRegionWins` and `RegionsInSection`: a write step puts bytes of
*memory* into the file, and only a region inside its section writes to that
section's part of the file.  `FlagIsSound` needs three strengthenings:
`EditorInv` (an editor was opened with nothing unsaved: then every other section
is clean, and the regions copied at its opening describe the file, so that an
unchanged list means unchanged bytes), `SavingInv` (what the cursor has passed
is in the file, including positions that regions share), and `DeadInv`.  `IInv`
is their conjunction; `versions` checks it with TLC.  `SaveFlagIsSound` and
`ImplementsWriteBack` are about writes that do not fail, `WritesAreEdits` about
all.

### ProjectRegions

`AttachedIsSnapshot`, that what is attached to a project is of one moment, is not
only a result but what the rest is built on: regions overlap, and if two of
them held bytes of different moments, the loop of `applyModifiedRegions` could
take back with a later region what it had restored with an earlier one.  As they
agree where they overlap, a region that was put back stays in place (`LoopInv`).
`PInv` adds that outside of a load every byte that no region covers is the
file's (`SectionsInv`), which makes the flag sound.

### Session

`AnyUserInv` is about the C++ stack of the main thread.  `TagsAreNotDropped`
depends on who has asked: a function that called `checkSave` has one of the
dialogs of that function right above it (`WellStacked`), so that the result it
reads when it goes on is the answer to *its* question, and tags that changed in
between were noticed (`AskedInv`); and a project is on its way to be opened only
when the tags of the present one are settled (`OpeningInv`).  These hold for
users of all habits.

`CarefulInv` is about users without habits, for whom nothing may go wrong.  It
lists the stacks they can bring about (`CarefulStack`), and for each how far a
load may be (`LoaderInv`), which timers may be set (`TimersInv`), and what the
widget and the format are (`WindowInv`).  That the list is closed under steps is
the proof that no loader is destroyed while it runs, that no function goes on
with freed objects, and that a project is saved with the regions of its own
binary.

### Editors

`EInv` says under which stamps each editor is known to show the bytes of the
section: the hex editor and the disassembly editor if the section was never
changed, if the stamps are equal, or while they are open (`HexInv`, `CodeInv`); of the
disassembly, that it can be behind only while the two stamps of an open
editor differ (`DisasmInv`); and of the main view, that it shows what the
section held when the open editor was opened (`MainInv`).

What "shows" means for the hex editor is `Shows`: the digits of every row are those
of the first bytes of the row, and there are enough for all of them if it
was not edited since it was dumped.  A dump shows all (`DumpShows`): its digits,
read by twos, are the bytes again.  A row that is edited shows what was written
(`RowsWith`), as `HexToData` is given the digits that go into the row; no more bytes
are written than it has, so no other row is touched (`RowsApart`, as rows do not
overlap).

One fact about the data is needed, and is the longest part of the proof: an
edited instruction changes no other row.  It rests on `StartsApart`: between the beginning of an
instruction and its end there is none that the disassembler finds.  If there
were, take the first instruction with another inside: what is found, without
what lies inside that one, is already closed under going from an instruction to
its end, so nothing inside is found.

### Log

`LogInv` relates what is in the chunk and the file to the step of `addEntry`
that each thread is in: a message is in chunk or file exactly from `Queue` on, in
the order of its thread, and a warning is in the file from `Flush` on.  `DialogInv`
follows the last message that the dialog heard of each thread: it is a row, or
on its way to be one, or left out by the level, or pushed out by newer rows.
The entries have no mutex; what a thread in the middle of `append` saw of them is
part of `LogInv` (`EntriesOK`).  `DialogKeepsLog` says that with its dialog the
log handler starts and steps as by itself.

### Tags, main view and omni search

The assumptions are `TagsAssumption`, `ViewAssumption` (there is code, and addresses and
sizes are numbers) and `SearchAssumption` (a pattern has a text, which ends no
line).  The column of the machine code is of any width, `MaxLine` of any length,
and `Threads` and `Limit` of any size.  The argument has four layers.

1. *The document.*  `LayoutIs` compares the text that `setup` builds with and without
   machine code, part by part: they have as many lines, each with the same address,
   and differ in the lines of instructions only (`Twins`).  `ViewOK` is the inductive
   invariant of the lines: whatever was switched, line k is the one that `setup` puts
   there, and an instruction that fits into its column has the text `setup` gives it.
   `TurnedIs` is the step: what `onShowMachineCodeChanged` inserts it can take out
   again.  `ToggleIsRebuild` follows.
2. *The tags.*  `Tidy` says that a tag is in the table once.  That makes reading back
   exact: while the project file is read, no tag is refused as used
   (`AddedAllIs`), so `Reread` is the table without the addresses whose list is
   empty (`RereadIs`).  `TagsAreOnShow` is inductive by itself.
3. *The text.*  Its lines end one after another, and the last is empty
   (`ViewIsPage`).  Chunks that end with a line tile such a text (`ChunksTile`): each
   position lies in exactly one of them.  As no pattern holds a line end, a match
   lies in the chunk and in the line in which it begins (`MatchesFoundOnce`,
   `MatchInLine`).  `FindsEachMatchOnce` follows, for any number of threads.
4. *The dialog.*  `Right` is what a candidate promises: it points to what is still
   there, and its place has the text or the tag that was looked for.  `DialogOK` says
   that candidates found with the input on show are right, and that an activated one
   stays so while it waits for its timer, although the dialog is closed by then:
   nothing that frees list items or edits tags can run in between
   (`WindowIsFree`).  `CursorOK` says that TagsEdit shows the line of the cursor.
   `ActivationLeadsThere` follows with `MatchInLine`.

### Hex dump

Rows cut between two rows join again (`RowsJoin`), so the rows of chunks in the
order of their indices are those of the whole data (`DumpJoins`).  Sorting finds
that order whatever order they came in (`SortedIs`).  `EncoderInv` numbers the
tasks: those not yet taken wait in the order in which they were made, and of the
others each is in exactly one of threads, signals and results; so the last
result to come is the last that was missing.

### Backups

Sorting by name is a total order even where it is not that of the numbers
(`NamesOrdered`), so that every copy has a place of its own and removing the first
ones leaves as many as are wanted.  `BInv` says that narrow numbers tell the age
of copies, whatever becomes of the wide ones: a new number that is narrow is
greater than all narrow ones there are.

### Mach-O parser and SDK versions

The assumptions are `FilesAssumption` (a file is a sequence of words, cut off
somewhere) and `RequestAssumption`.  Nothing is assumed of the words, so the
argument has two invariants, one for all files and one for those the parser reads
in full.

1. *Any file.*  `ParserInv`: the reader is inside the file, the records have their
   types, and each section of versions has its two words before the reader
   (`Versions`).  That is what `handlePatchSdk` relies on when it takes a section
   of two words for versions.  The steps are compared with the words of the file
   one kind of load command at a time (`LoadSymtabIs` and the like).
2. *A file whose commands are read in full* (`UnderstoodFile`).  `Progress` says
   which objects are left, that the reader is at the command that `Starts` names, or
   at the end of a file that is cut off, and that the sections of the object at hand
   are those of the commands read so far (`Found`), but for symbol tables, which are
   sections only once they are read (`Later`).  `PassEnds` is why the reader
   arrives: what `Checked` and `Unchecked` add up to is the size that the
   format gives a command.  `Starts` is a recursive function; `StartsAre` shows
   that it solves its equation.  After the last command `AllFound` turns this into
   `FindsAllSections`.
3. *Names.*  `TablesTaken` follows the tables of symbols from the file into the
   object, and `NamesRight` says what `FinishObject` makes of them: the first
   section of strings is that of the one symbol table command (`StringSection`), so an
   index into it is an index into the words that the command names.
   `StubsAreNamed` is `NamesRight` for a thin file.
4. *Patching.*  By `TargetIs` the first section of the platform holds the target
   of the first command of that platform.  `PatchInv` adds what was modified
   (`PatchedAre`) and which objects have had their turn (`Handled`); they join
   in `Effect` when the file is written.  `DecodedVersion` and `EncodedVersion` are the
   arithmetic: with second numbers below 16 the decoder reads what the
   format says, and what the encoder writes is read back.

### Recursion

The recursive functions of the models are proved about where the recursion can be
replaced: a solution of its equation is exhibited, which the function then
satisfies, and what holds of its values follows by going up from 0 (`Climb`, and
`LeapClimb` where a value comes from any smaller one), for which
a least counterexample takes the place of induction.

### Only model-checked

- Everything under fairness: `SaveEnds`, `LoadsEnd`, `DumpEnds`,
  `MessagesReachTheFile`.  Liveness is out of the prover's reach.
- `MachO.SectionsApart`: that sections lie apart is a fact about files as linkers
  write them and not about the parser, which takes offsets and sizes as they
  are: two segments may name one place, and then it fails.  A theorem would have to
  assume of the file what it concludes; `patch_sdk` checks it for the files it builds.

## Where code and comments disagree

Each of these is a run that expects a violation; `PROJECT.json` quotes the
lines under `findings`.

- `no_longer_needed`: "The modified regions are no longer needed in the
  project": they are dropped although they were not all restored.  The regions of
  the objects of a fat binary that are not on show are dropped too, and a region
  that ends exactly where its section ends is skipped (`<` where `<=` is meant).
- `in_step`: "Parse load commands sequentially. Each consists of the type, size
  and data": `LC_BUILD_VERSION` and ten other kinds are skipped by reading the
  size of the whole command after its first two words, unknown kinds are not
  skipped, and a thread is taken to have flavor times count bytes.  The next
  command is then read from its middle, and sections are lost silently.

Seen while modelling, and kept in the models as the code has it, without a run:

- "Attach all modified regions before saving." (`widgets/MainWindow.cc:162`): of
  two regions with one address only the last is attached, though the first may be
  longer (`Collected`).
- `assert(project)` (`widgets/MainWindow.cc:148`) fails when `openProject` has
  asked twice, the second answer was Cancel, and the file cannot be read: the
  habit `waver`, which the careful user of `session` does not have.
- "If project is modified ask to save" (`widgets/MainWindow.h:79`): a project
  opened without its binary is never connected (`widgets/MainWindow.cc:126`), so
  its changes go unnoticed.  `hooked` in `Session` is why `TagsAreNoticed` and
  its companions speak of projects the window listens to.
- An address of 2^63 or more is written unsigned and read signed (`Project.cc:117`):
  the project cannot be opened again, even after its tag is gone, as an address
  keeps its empty list.  `Readable` in `ProjectTags`.
- `TagsEdit::removeTag` deletes a tag, which fills the list anew, and then takes
  the freed item from it (`widgets/TagsEdit.cc`): nothing happens, or another tag vanishes from
  the view until the cursor moves.  That is the second half of `TagsAreOnShow`.
- "Offset of string beginning in data block." (`CStringReader.h:21`): behind a
  leading zero or an empty string it is the offset of that zero, and the string's
  address in the view is too low.
- An instruction wider than 24 characters of machine code leaves a rest in its
  line each time "Show Machine Code" is switched off; `ToggleIsRebuild` is about
  the others.
- Addresses in memory and offsets in the file are keys of one map of lines; in an
  object file, whose sections begin at 0, they certainly collide, and an address
  leads to the wrong line (`BlockOf`).
- A row of the hex dump with a space in it is written back, and counts as a
  change, though nothing was typed: the dump shows a dot for a space, an edited
  row the space (`SameLine`).  And an edited row that ends in four or more spaces
  is read wrongly when it is edited again: its last bytes are left out of the
  edit and gone from the row, though not from the section (`Offered`).
- `OK` of a row's dialog does not ask for all its digits.  The row shows a gap where
  one is missing; the section gets the digits without the gap, so that every
  digit after a lone one moves by one, and keeps its old bytes at the end of the
  row (`EditRow`).  The bytes are those the digits are read as, but not those at whose
  addresses the row shows them; opening the editor again after an edit elsewhere,
  which makes a new dump, shows them in place.
- While the hex editor waits for a new dump its old text can be edited; the dump
  that then replaces it was begun before (`raced`).
- If nothing can be decoded, the disassembly stays as it was and the rows of its
  editor show bytes that are no longer there (`code.stale`).
- The editor of SDK versions cannot show a minor version of 0: OK writes 1
  (`InSpin`).  Values that were cancelled are on show the next time, and its
  patcher compares with what it read when it was made.
- Enter pressed in the search dialog before its timer fires takes the candidates
  of the previous input; if the timer fires within the millisecond in between, the
  item is freed before it is used; and the dialog opened again shows candidates
  whose list items may be gone.  `ActivationLeadsThere` is about items found with
  the input on show since the dialog was shown.
- A project's binary without code has no first line of code, which
  `BinaryWidget::setup` takes all the same; `ViewAssumption` excludes it.
- In a fat file the symbol tables are sought at their offset in the file, though
  it counts from the object (`formats/MachO.cc:809`, 855): symbols of another
  object, or none.  `StubsAreNamed` is about thin files.
- `decodeMacSdkVersion` looks at four bits of the second number (`Util.cc:418`),
  the encoder writes eight: a target of 10.16 is taken for 10.0.
  `PatchTakesEffect` leaves such files out.
- The magic numbers for big-endian files (`formats/MachO.cc:37`) are not those of
  such files (`0xCEFAEDFE`): they are refused, and a fat file with such an object
  is refused as a whole.
- `saveBinary` is declared to return whether it saved (`widgets/MainWindow.h:51`);
  it returns true after writes that fell short.  That is why `FlagIsSound` is
  claimed only for writes that succeed.
- "Whenever something is modified in the project this signal is emitted"
  (`Project.h:72`): not when its binary becomes another one (`setBinary`).
- With "(Unlimited)" backups and numbers past four digits, the next number is
  taken from the entry that is last by name; that copy exists already, so the
  copy is refused and the user is warned.  Until numbers get that wide
  `KeepsNewest` holds, which is why it asks for narrow ones.

## Abstractions, and what is left out

- `BinaryEdit` takes from the parser only that the sections lie in the file
  without overlap.  `patch_sdk` checks that for files whose commands are read in
  full; the parser itself does not check it, and a malformed file can violate it.
- `MachO`: sizes and offsets are whole words; the high word of a 64-bit value is
  zero; a name or string is one word.  CPU types and flags are not kept.  A file
  that cannot be opened fails like one of an unknown type.
- `PatchSdk`: a version that is not of the form X.Y is refused before anything
  happens, and is left out; a second number of 256 or more, which the encoder
  would let run into the first, is excluded by `RequestAssumption`.
- A load is atomic with respect to edits and saves; the loader thread reading
  while the main thread writes is not modelled.
- `Session`: while the binary widget disassembles (`processEvents`), events and
  timers are delivered, but clicks in menus are not; the message box of a failed
  load is left out, as are the other boxes that only inform (a backup that could
  not be made, a file that cannot be opened) and the event loop they run inside
  `saveBinary`; titles, recent files and progress dialogs as well.
  `QFile::remove` of a backup is taken to succeed.
- `Backups`: the file that is copied exists.
- `Editors`: the user does not close the hex editor while it waits for a dump;
  the window system sends a show event only when an editor is opened; the
  events handled in the middle of `HexEditor::setup` are the edits of a row.  A
  section is of one kind, and its bytes are those of its instructions: the first
  one tells the length.  Sections of other types have the hex editor only.  A digit
  has two values instead of sixteen, the two halves of a row are one field, and
  how many digits of a row that ends in spaces are cut off is left open.
- `LogDialog`: `verbose` is as it was at the start; the main thread reading the
  entries while another appends is a reading before or after; there is one dialog,
  as in the code, and it is never deleted.  Cutting a long log at the start is
  left out.
- `ProjectTags`, `MainView`, `OmniSearch`: one section of each kind that is laid
  out differently; tags are edited where the cursor is; a project that cannot be
  read is not opened, and that is the end of it.  A pattern is literal text within
  a line, and overlapping places of it all count (`MatchesIn`).  In the code it is
  a `QRegularExpression` without regard to case, of which `globalMatch` finds
  places that do not overlap, in each chunk by itself: with anchors (`^` matches
  at the start of each chunk), with expressions that match over the end of a
  line, and with matches that overlap, what is found depends on the chunks, and
  `FindsEachMatchOnce` says nothing of them.  How similar a candidate is, and
  so which ones are kept, is open.  Copying from the dialog is left out.

### Not modelled

Each part that is not modelled has its reason in `PROJECT.json` under
`components`.  In short:

- The vendored demangler (`lib/libiberty`, three fifths of the repository's
  lines of code, tests aside) and Capstone: third-party code, of which only "a name" and "what
  can be decoded" matter here.  What is modelled is a share of the program's own
  code under `src/src`; of all code in the repository, the vendored part included, it is a small
  one, and describing the demangler to make it larger would say nothing about
  dispar.
- `Debugger`: a system call to start it and a process that prints its version.
- The settings file and recent files: plain keys and values, written on the main
  thread, with nothing to interleave with.
- `ConversionHelper`, `DisassemblerDialog`, `OptionsDialog` (beyond the values it
  sets), the filter of lists, the about box: they show something and keep nothing.
- The loader thread reading a file while the main thread writes into it: what the
  parser then sees is any mixture of two contents, and of such a file the models
  claim nothing.

## Plan

The components above are modelled, and what the runs check of them is proved
but for the two points of [only model-checked](#only-model-checked).  What could
come next is a model of the filter of the lists in the main view, and of the events
that are handled in the middle of `BinaryWidget::setup`.
