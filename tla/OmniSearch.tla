----------------------------- MODULE OmniSearch -----------------------------
(***************************************************************************)
(* The Omni Search dialog (OmniSearchDialog.cc) over the main window: it   *)
(* finds tags, strings, sections and places in the text of the binary on   *)
(* show, and takes the user there.  Its candidates hold pointers into the  *)
(* lists of the window, which ProjectTags and MainView change.             *)
(*                                                                         *)
(* One thread runs it all but the search tasks, which the search waits     *)
(* for.  The user may do anything in the window while the dialog is        *)
(* hidden, but is slower than the millisecond that an activation takes.    *)
(***************************************************************************)
EXTENDS ProjectTags, MainView

CONSTANTS
  Pattern, \* what may be searched: the text, tags, rows and sections that it matches
  Threads, \* QThread::idealThreadCount, one of these
  Limit,   \* Context::omniSearchLimit
  Visited  \* BOUND: the addresses the user goes to in the main view

\* The addresses of the rows of symbolList_ and stringList_.
Rows == Symbols \union {StringAddress + s.offset : s \in Range(Strings)}

ASSUME SearchAssumption ==
  /\ \A p \in Pattern :
       /\ p.text \in Seq(STRING) /\ p.text # <<>> /\ LineEnd \notin Range(p.text)
       /\ p.tags \subseteq Tag /\ p.rows \subseteq Rows
       /\ p.sections \subseteq Sections
  /\ Threads \subseteq Nat \ {0} /\ Threads # {} /\ Limit \in Nat

VARIABLES
  visible,     \* the dialog is shown
  input,       \* its search pattern, or NoPattern
  timer,       \* searchTimer is active: the input has changed and was not searched yet
  searchText,  \* searchTextChk is checked
  candidates,  \* the items of candidatesWidget, with what each leads to
  searched,    \* the dialog is shown and they were found since it was
  activation   \* the item that activateCurrentItem has put off, or NoActivation

dialogVars == <<visible, input, timer, searchText, candidates, searched, activation>>
vars == <<tagVars, viewVars, dialogVars>>

\* Nothing, or no regular expression.
NoPattern == [text |-> <<>>]
NoActivation == [sure |-> FALSE]

-----------------------------------------------------------------------------
(***************************************************************************)
(* search                                                                  *)
(***************************************************************************)

\* QRegularExpression: where a text has the pattern, counted from 0.
MatchesIn(text, p) ==
  {q \in 0..Len(text) - Len(p.text) : SubSeq(text, q + 1, q + Len(p.text)) = p.text}

\* Mutant: a chunk ends wherever its size does.
ChunkEndCut(text, offset, n) ==
  Min({Len(text), offset + Max({1, Len(text) \div Max({n \div 2, 1})})})
\* A chunk goes on to the end of the line in which its size ends, the first one
\* if the text is so short that chunks have no size.
ChunkEnd(text, offset, n) ==
  LET end == offset + Len(text) \div Max({n \div 2, 1})
      newlines == {q \in end..Len(text) - 1 : text[q + 1] = LineEnd}
  IN IF newlines = {} THEN Min({end, Len(text)}) ELSE 1 + Min(newlines)

\* The chunks of a text, as pairs of the first position and the one after the last.
Chunks(text, n) ==
  LET From[o \in 0..Len(text)] ==
        IF o = Len(text) THEN {}
        ELSE LET end == ChunkEnd(text, o, n) IN {<<o, end>>} \union From[end]
  IN From[0]

\* flexMatchTextOffset, for each chunk.
TextMatches(text, p, n) ==
  UNION {{[chunk |-> c, key |-> c[1] + q] : q \in MatchesIn(SubSeq(text, c[1] + 1, c[2]), p)}
           : c \in Chunks(text, n)}

\* flexMatchListRows and flexMatchSections: an item is known by the address it has.
Item(type, keys) == {[type |-> type, key |-> k, live |-> TRUE] : k \in keys}
ListMatches(p) ==
  Item("tag", {item.address : item \in {i \in tagList : i.tag \in p.tags}}) \union
  Item("row", p.rows) \union
  Item("section", p.sections)

Found(p, n) ==
  ListMatches(p) \union
  (IF searchText' THEN Item("text", {m.key : m \in TextMatches(Text, p, n)}) ELSE {})

\* search keeps the most similar candidates: which they are is left open.  It
\* frees the ones there were, also the one about to be activated.
Search ==
  /\ \/ input = NoPattern /\ candidates' = {}
     \/ input # NoPattern /\ \E n \in Threads :
          LET found == Found(input, n) IN
          candidates' \in IF Cardinality(found) =< Limit THEN {found} ELSE kSubset(Limit, found)
  /\ searched' = visible
  /\ activation' = IF activation = NoActivation THEN NoActivation
                   ELSE [activation EXCEPT !.live = FALSE]

-----------------------------------------------------------------------------
(***************************************************************************)
(* The dialog                                                              *)
(***************************************************************************)

Init ==
  /\ ViewInit /\ TagsInit(FirstAddress)
  /\ visible = FALSE /\ input = NoPattern /\ timer = FALSE /\ searchText = FALSE
  /\ candidates = {} /\ searched = FALSE /\ activation = NoActivation

\* omniSearch: the dialog is the one of the last time.
OpenDialog ==
  /\ ~visible /\ activation = NoActivation
  /\ visible' = TRUE
  /\ UNCHANGED <<tagVars, viewVars, input, timer, searchText, candidates, searched, activation>>

\* inputEdited
EditInput ==
  /\ visible
  /\ input' \in (Pattern \union {NoPattern}) \ {input}
  /\ timer' = TRUE
  /\ UNCHANGED <<tagVars, viewVars, visible, searchText, candidates, searched, activation>>

\* The timer goes on when the dialog is closed.
TimerFires ==
  /\ timer /\ timer' = FALSE
  /\ UNCHANGED searchText
  /\ Search
  /\ UNCHANGED <<tagVars, viewVars, visible, input>>

ToggleSearchText ==
  /\ visible
  /\ searchText' = ~searchText
  /\ Search
  /\ UNCHANGED <<tagVars, viewVars, visible, input, timer>>

\* activateCurrentItem, for the item the user went to.  It is put off until the
\* dialog is closed.  It is sure to be what the user sees if it was found with
\* the input on show since the dialog was.
Activate ==
  /\ visible
  /\ \E c \in candidates :
       activation' = [item |-> c, live |-> TRUE, sure |-> searched /\ ~timer]
  /\ visible' = FALSE /\ searched' = FALSE
  /\ UNCHANGED <<tagVars, viewVars, input, timer, searchText, candidates>>

\* done
CloseDialog ==
  /\ visible /\ visible' = FALSE /\ searched' = FALSE
  /\ UNCHANGED <<tagVars, viewVars, input, timer, searchText, candidates, activation>>

\* Where the cursor may be put: the first line stands for all without an address.
Anywhere == {1} \union UNION {LinesAt(a) : a \in Visited}

\* onCursorPositionChanged: TagsEdit follows to a line with an address.  The
\* cursor may have moved within its line, or not at all.
TagsFollow ==
  LET a == lines[cursor'].address IN
  \/ a # NoAddress /\ SetAddress(a)
  \/ (a = NoAddress \/ cursor' = cursor) /\ UNCHANGED <<here, rows>>

\* activateItem.  What an item does that was freed, or that leads to a freed item
\* of a list, is undefined.
ActivateItem ==
  /\ activation # NoActivation
  /\ activation' = NoActivation
  /\ LET c == activation.item IN
     \/ ~(activation.live /\ c.live) /\ cursor' \in Anywhere
     \/ activation.live /\ c.live /\ c.type = "section" /\ SelectSection(c.key)
     \/ activation.live /\ c.live /\ c.type = "text" /\ SelectPosition(c.key)
     \/ activation.live /\ c.live /\ c.type \in {"tag", "row"} /\ SelectAddress(c.key)
  /\ TagsFollow
  /\ UNCHANGED <<tags, tagList, lines, showCode,
                 visible, input, timer, searchText, candidates, searched>>

-----------------------------------------------------------------------------
(***************************************************************************)
(* The window                                                              *)
(***************************************************************************)

\* Mutant: the dialog is not modal.
WindowIsFreeAlways == activation = NoActivation
\* The dialog is modal to the whole application.
WindowIsFree == ~visible /\ activation = NoActivation

\* clear, of lists of the window.
Freed(types) == candidates' = {[c EXCEPT !.live = @ /\ c.type \notin types] : c \in candidates}
DialogStays == UNCHANGED <<visible, input, timer, searchText, searched, activation>>

MoveCursor ==
  /\ WindowIsFree
  /\ cursor' \in Anywhere
  /\ TagsFollow
  /\ UNCHANGED <<tags, tagList, lines, showCode, dialogVars>>

EditTags ==
  /\ WindowIsFree
  /\ TagStep
  /\ Freed({"tag"}) /\ DialogStays
  /\ UNCHANGED viewVars

ShowMachineCode ==
  /\ WindowIsFree
  /\ ToggleMachineCode
  /\ UNCHANGED <<tagVars, dialogVars>>

\* reloadUi: setup also fills the lists, and the cursor goes to firstAddress.
ReloadUi ==
  /\ WindowIsFree
  /\ Setup
  /\ TagsBecome(tags) /\ SetAddress(FirstAddress)
  /\ Freed({"tag", "row"}) /\ DialogStays

\* The project is saved, closed and opened, with a new widget and dialog.
Reopen ==
  /\ WindowIsFree
  /\ Setup
  /\ TagsReopen(FirstAddress)
  /\ visible' = FALSE /\ input' = NoPattern /\ timer' = FALSE /\ searchText' = FALSE
  /\ candidates' = {} /\ searched' = FALSE /\ activation' = NoActivation

Next ==
  \/ OpenDialog \/ EditInput \/ TimerFires \/ ToggleSearchText
  \/ Activate \/ CloseDialog \/ ActivateItem
  \/ MoveCursor \/ EditTags \/ ShowMachineCode \/ ReloadUi \/ Reopen

Spec == Init /\ [][Next]_vars

-----------------------------------------------------------------------------
(***************************************************************************)
(* Properties                                                              *)
(***************************************************************************)

\* A search of the text finds each place that has the pattern, in one chunk only
\* and where it is in the whole text, on a machine with any number of threads.
FindsEachMatchOnce ==
  searched /\ searchText /\ input # NoPattern =>
    \A n \in Threads :
      LET text == Text
          found == TextMatches(text, input, n)
      IN /\ {m.key : m \in found} = MatchesIn(text, input)
         /\ Cardinality(found) = Cardinality(MatchesIn(text, input))

\* An item found with the input on show, since the dialog was shown, leads to what
\* was found: nothing it points to was freed meanwhile, the line of the cursor has
\* the text, the section begins there, or it has the address, and TagsEdit with it.
\* A tag is still a tag of that address.
ActivationLeadsThere ==
  [][ActivateItem /\ activation.sure =>
       LET c == activation.item
           line == lines[cursor']
       IN /\ activation.live /\ c.live
          /\ c.type = "section" => line.section = c.key
          /\ c.type = "text" =>
               /\ c.key \in MatchesIn(Text, input)
               /\ MatchesIn(line.text, input) # {}
          /\ c.type \in {"tag", "row"} /\ LinesAt(c.key) # {} =>
               line.address = c.key /\ here' = c.key
          /\ c.type = "tag" => \E t \in input.tags : Contains(TagsAt(tags, c.key), t)]_vars
=============================================================================
