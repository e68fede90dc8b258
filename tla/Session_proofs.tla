---------------------------- MODULE Session_proofs ----------------------------
(***************************************************************************)
(* Session for every set of binaries and users, queues, timers and stacks  *)
(* of every depth.  AnyUserInv is about the stack: a function that waits   *)
(* for checkSave has one of its dialogs right above it, and a project is   *)
(* on its way to be opened only after the tags of the present one were     *)
(* settled.  CarefulInv is about users with no habits: it lists the few    *)
(* stacks they can bring about and what the loader, the timers and the     *)
(* widgets are in each.                                                    *)
(***************************************************************************)
EXTENDS Session, SequenceTheorems, TLAPS

-----------------------------------------------------------------------------
(***************************************************************************)
(* Stacks                                                                  *)
(***************************************************************************)

\* Functions that called checkSave and wait for its answer, and its dialogs.
Guarded == {"new", "open", "openFile", "close", "reload", "quit"}
Asking == {"ask", "saveAs", "staleSaveAs"}
Frames == Waiting \union Continuing

\* Who may be right above whom.
WellStacked(s) ==
  /\ s \in Seq(Frames)
  /\ \A i \in 1..Len(s) - 1 :
       /\ s[i + 1] \in Guarded => s[i] \in Asking
       /\ s[i + 1] = "openClosed" => s[i] = "close"

\* A project is on its way to be opened.
Opening(s) == \E i \in 1..Len(s) : s[i] \in {"pickProject", "openClosed"}

\* A sequence with one more element in front.
LEMMA Push ==
  ASSUME NEW S, NEW s \in Seq(S), NEW f \in S
  PROVE  /\ <<f>> \o s \in Seq(S) /\ <<f>> \o s # <<>>
         /\ Len(<<f>> \o s) = Len(s) + 1
         /\ (<<f>> \o s)[1] = f /\ Head(<<f>> \o s) = f
         /\ \A i \in 1..Len(s) : (<<f>> \o s)[i + 1] = s[i]
<1>1. <<f>> \in Seq(S) /\ Len(<<f>>) = 1 /\ <<f>>[1] = f
  OBVIOUS
<1>2. /\ <<f>> \o s \in Seq(S)
      /\ Len(<<f>> \o s) = Len(<<f>>) + Len(s)
      /\ \A i \in 1 .. Len(<<f>>) + Len(s) : (<<f>> \o s)[i] =
                     IF i <= Len(<<f>>) THEN <<f>>[i] ELSE s[i - Len(<<f>>)]
  BY <1>1, ConcatProperties
<1>3. Len(s) \in Nat
  OBVIOUS
<1> QED BY <1>1, <1>2, <1>3

\* A call keeps a stack well-formed if it may be above the one that made it.
LEMMA PushOK ==
  ASSUME NEW s, WellStacked(s), NEW f \in Frames,
         s # <<>> /\ Head(s) \in Guarded => f \in Asking,
         s # <<>> /\ Head(s) = "openClosed" => f = "close"
  PROVE  /\ WellStacked(<<f>> \o s)
         /\ <<f>> \o s # <<>> /\ Head(<<f>> \o s) = f
         /\ Opening(<<f>> \o s) <=> f \in {"pickProject", "openClosed"} \/ Opening(s)
<1> DEFINE t == <<f>> \o s
<1>1. s \in Seq(Frames) /\ Len(s) \in Nat
  BY DEF WellStacked
<1>2. /\ t \in Seq(Frames) /\ t # <<>> /\ Len(t) = Len(s) + 1
      /\ t[1] = f /\ Head(t) = f /\ \A i \in 1..Len(s) : t[i + 1] = s[i]
  BY <1>1, Push
<1> HIDE DEF t
<1>3. s # <<>> => Head(s) = s[1] /\ Len(s) > 0
  BY <1>1
<1>4. ASSUME NEW i \in 1..Len(t) - 1
      PROVE /\ t[i + 1] \in Guarded => t[i] \in Asking
            /\ t[i + 1] = "openClosed" => t[i] = "close"
  <2>1. CASE i = 1
    BY <1>1, <1>2, <1>3, <2>1
  <2>2. CASE i # 1
    <3>1. i - 1 \in 1..Len(s) - 1 /\ i \in 1..Len(s) /\ i - 1 \in 1..Len(s)
      BY <1>1, <1>2, <2>2
    <3>2. t[i + 1] = s[i] /\ t[(i - 1) + 1] = s[i - 1] /\ (i - 1) + 1 = i
      BY <1>2, <3>1
    <3> QED BY <3>1, <3>2 DEF WellStacked
  <2> QED BY <2>1, <2>2
<1>5. Opening(t) <=> f \in {"pickProject", "openClosed"} \/ Opening(s)
  <2>1. \A i \in 1..Len(t) : i # 1 => (i - 1 \in 1..Len(s) /\ t[i] = s[i - 1])
    BY <1>1, <1>2
  <2>2. \A i \in 1..Len(s) : i + 1 \in 1..Len(t)
    BY <1>1, <1>2
  <2> QED BY <1>1, <1>2, <2>1, <2>2 DEF Opening
<1> QED BY <1>2, <1>4, <1>5 DEF WellStacked, t

\* Returning keeps it well-formed; what is uncovered may be a function that
\* waits for checkSave only if one of its dialogs closed.
LEMMA PopOK ==
  ASSUME NEW s, WellStacked(s), s # <<>>
  PROVE  /\ WellStacked(Tail(s))
         /\ Opening(Tail(s)) => Opening(s)
         /\ Head(s) \in {"pickProject", "openClosed"} => Opening(s)
         /\ Tail(s) # <<>> /\ Head(Tail(s)) \in Guarded => Head(s) \in Asking
         /\ Tail(s) # <<>> /\ Head(Tail(s)) = "openClosed" => Head(s) = "close"
         /\ Head(s) \in Frames
<1>1. s \in Seq(Frames) /\ Len(s) \in Nat /\ Len(s) > 0
  BY DEF WellStacked
<1>2. /\ Tail(s) \in Seq(Frames) /\ Len(Tail(s)) = Len(s) - 1
      /\ \A i \in 1..Len(Tail(s)) : Tail(s)[i] = s[i + 1]
      /\ Head(s) \in Frames /\ Head(s) = s[1]
      /\ Tail(s) # <<>> => Head(Tail(s)) = s[2] /\ Len(s) > 1
  BY <1>1
<1>3. WellStacked(Tail(s))
  BY <1>1, <1>2 DEF WellStacked
<1>4. Opening(Tail(s)) => Opening(s)
  BY <1>1, <1>2 DEF Opening
<1> QED BY <1>1, <1>2, <1>3, <1>4 DEF WellStacked, Opening

\* Dangling pointers change neither the order of the functions nor their kind.
LEMMA AgedOK ==
  ASSUME NEW s, WellStacked(s), NEW names \in {OfFormat, OfProject}
  PROVE  /\ WellStacked(Aged(s, names))
         /\ Aged(s, names) = <<>> <=> s = <<>>
         /\ s # <<>> => /\ Head(Aged(s, names)) \in Guarded <=> Head(s) \in Guarded
                        /\ Head(Aged(s, names)) = "openClosed" <=> Head(s) = "openClosed"
         /\ Opening(Aged(s, names)) <=> Opening(s)
<1> DEFINE t == Aged(s, names)
<1>1. s \in Seq(Frames) /\ Len(s) \in Nat /\ DOMAIN s = 1..Len(s)
  BY DEF WellStacked
<1>2. \A f \in Frames :
        LET g == IF f \in DOMAIN names THEN names[f] ELSE f IN
        /\ g \in Frames
        /\ g \in Guarded <=> f \in Guarded
        /\ g = f \/ (f \notin {"pickProject", "openClosed", "close"} /\ g \notin {"pickProject", "openClosed", "close"})
        /\ f \in Asking => g \in Asking
  BY DEF OfFormat, OfProject, Frames, Waiting, Continuing, Guarded, Asking
<1>3. t = [i \in 1..Len(s) |-> IF s[i] \in DOMAIN names THEN names[s[i]] ELSE s[i]]
  BY <1>1 DEF Aged
<1>4. t \in Seq(Frames) /\ Len(t) = Len(s)
  BY <1>1, <1>2, <1>3
<1>5. \A i \in 1..Len(s) : s[i] \in Frames /\ t[i] = IF s[i] \in DOMAIN names THEN names[s[i]] ELSE s[i]
  BY <1>1, <1>3
<1> HIDE DEF t
<1>6. WellStacked(t)
  BY <1>1, <1>2, <1>4, <1>5 DEF WellStacked
<1>7. Opening(t) <=> Opening(s)
  BY <1>1, <1>2, <1>4, <1>5 DEF Opening
<1>8. (t = <<>> <=> s = <<>>) /\ (s # <<>> => Head(t) = t[1] /\ Head(s) = s[1] /\ 1 \in 1..Len(s))
  BY <1>1, <1>4
<1> QED BY <1>2, <1>5, <1>6, <1>7, <1>8 DEF t

-----------------------------------------------------------------------------
-----------------------------------------------------------------------------
(***************************************************************************)
(* The order of calls, and the tags they may drop                          *)
(***************************************************************************)

\* The project has no tags that the window ought to ask about; the function on
\* top got a Yes, or a project is about to be opened, only then.
Tidy == tags = "changed" => ~project.hooked
AskedInv == stack # <<>> /\ Head(stack) \in Guarded /\ result => Tidy
OpeningInv == Opening(stack) => Tidy
StackInv == WellStacked(stack) /\ AskedInv /\ OpeningInv

-----------------------------------------------------------------------------
(***************************************************************************)
(* Types                                                                   *)
(***************************************************************************)

Projects == {NoProject} \union [binary : Binary, saved : Binary \union {NoBinary}, hooked : BOOLEAN]
Loaders == {NoLoader} \union [state : {"running", "reported", "ended"}, file : Binary]
Events == [event : {"success", "failed", "finished"}, file : Binary]
Queues == Seq(Events)
TimerLists == Seq({"current", "old", "startup"})

\* TypeOK but for the stack.
DataOK ==
  /\ user \in Users
  /\ project \in Projects
  /\ tags \in {"saved", "changed", "givenUp"}
  /\ modified \in BOOLEAN /\ binaryModified \in BOOLEAN /\ actions \in BOOLEAN /\ result \in BOOLEAN
  /\ widget \in {"none", "live", "stale"}
  /\ format \in Binary \union {NoBinary}
  /\ loader \in Loaders
  /\ queue \in Queues
  /\ timers \in TimerLists
  /\ over \in {"no", "quit", "loader destroyed", "no project", "freed object", "assert"}

\* Saving no project saves nothing.
LEMMA NoProjectStays ==
  /\ [NoProject EXCEPT !.saved = NoProject.binary] = NoProject
  /\ NoProject.hooked = FALSE /\ ~IsNamed(NoProject)
<1> DEFINE p == [NoProject EXCEPT !.saved = NoProject.binary]
<1>1. \A q, r \in [binary : {NoBinary}, saved : {NoBinary}, hooked : {FALSE}] : q = r
  <2> SUFFICES ASSUME NEW q \in [binary : {NoBinary}, saved : {NoBinary}, hooked : {FALSE}],
                      NEW r \in [binary : {NoBinary}, saved : {NoBinary}, hooked : {FALSE}]
               PROVE  q = r
    OBVIOUS
  <2>1. /\ q = [binary |-> q.binary, saved |-> q.saved, hooked |-> q.hooked]
        /\ r = [binary |-> r.binary, saved |-> r.saved, hooked |-> r.hooked]
    OBVIOUS
  <2>2. q.binary = r.binary /\ q.saved = r.saved /\ q.hooked = r.hooked
    OBVIOUS
  <2> QED BY <2>1, <2>2
<1>2. NoProject \in [binary : {NoBinary}, saved : {NoBinary}, hooked : {FALSE}]
  BY DEF NoProject
<1>3. p \in [binary : {NoBinary}, saved : {NoBinary}, hooked : {FALSE}]
  BY DEF NoProject
<1> HIDE DEF p
<1>4. p = NoProject
  BY <1>1, <1>2, <1>3
<1>5. NoProject.hooked = FALSE /\ NoProject.saved = NoBinary
  BY DEF NoProject
<1> QED BY <1>4, <1>5 DEF p, IsNamed

\* What the steps make of projects, loaders and files has the right type.
LEMMA DataFacts ==
  /\ NoProject \in Projects /\ NoLoader \in Loaders
  /\ \A p \in Projects :
       /\ [p EXCEPT !.saved = p.binary] \in Projects
       /\ [p EXCEPT !.saved = p.binary].hooked = p.hooked
       /\ \A b \in Binary : IsNamed(p) => /\ [p EXCEPT !.binary = b] \in Projects
                                        /\ [p EXCEPT !.binary = b].hooked = p.hooked
       /\ p # NoProject => p.binary \in Binary
       /\ p.hooked \in BOOLEAN
  /\ \A b \in Binary : \A h \in BOOLEAN :
       /\ [binary |-> b, saved |-> b, hooked |-> h] \in Projects
       /\ [binary |-> b, saved |-> NoBinary, hooked |-> h] \in Projects
       /\ [state |-> "running", file |-> b] \in Loaders
  /\ \A l \in Loaders : l.state \in {"running", "reported"} =>
       /\ [l EXCEPT !.state = "reported"] \in Loaders
       /\ [l EXCEPT !.state = "ended"] \in Loaders
       /\ \A e \in {"success", "failed", "finished"} : [event |-> e, file |-> l.file] \in Events
  /\ \A u \in Users : u.files \subseteq Binary
<1>1. NoProject \in Projects /\ NoLoader \in Loaders
  BY DEF Projects, Loaders
<1>2. ASSUME NEW p \in Projects
      PROVE  /\ [p EXCEPT !.saved = p.binary] \in Projects
             /\ [p EXCEPT !.saved = p.binary].hooked = p.hooked
             /\ \A b \in Binary : IsNamed(p) => /\ [p EXCEPT !.binary = b] \in Projects
                                              /\ [p EXCEPT !.binary = b].hooked = p.hooked
             /\ p # NoProject => p.binary \in Binary
             /\ p.hooked \in BOOLEAN
  <2>1. CASE p = NoProject
    <3>1. /\ [NoProject EXCEPT !.saved = NoProject.binary] = NoProject
          /\ NoProject.hooked = FALSE /\ ~IsNamed(NoProject)
      BY NoProjectStays
    <3> QED BY <1>1, <2>1, <3>1
  <2>2. CASE p \in [binary : Binary, saved : Binary \union {NoBinary}, hooked : BOOLEAN]
    BY <2>2 DEF Projects
  <2> QED BY <2>1, <2>2 DEF Projects
<1>3. \A b \in Binary : \A h \in BOOLEAN :
       /\ [binary |-> b, saved |-> b, hooked |-> h] \in Projects
       /\ [binary |-> b, saved |-> NoBinary, hooked |-> h] \in Projects
       /\ [state |-> "running", file |-> b] \in Loaders
  BY DEF Projects, Loaders
<1>4. ASSUME NEW l \in Loaders, l.state \in {"running", "reported"}
      PROVE  /\ [l EXCEPT !.state = "reported"] \in Loaders
             /\ [l EXCEPT !.state = "ended"] \in Loaders
             /\ \A e \in {"success", "failed", "finished"} : [event |-> e, file |-> l.file] \in Events
  BY <1>4 DEF Loaders, NoLoader, Events
<1>5. \A u \in Users : u.files \subseteq Binary
  BY SessionAssumption
<1> QED BY <1>1, <1>2, <1>3, <1>4, <1>5

\* So have the signals in the queue,
LEMMA QueueFacts ==
  /\ \A q \in Queues : q # <<>> => Head(q) \in Events /\ Tail(q) \in Queues
  /\ \A q \in Queues : \A e \in Events : Append(q, e) \in Queues
  /\ \A e \in Events : e.file \in Binary
<1>1. \A q \in Seq(Events) : q # <<>> => Head(q) \in Events /\ Tail(q) \in Seq(Events)
  OBVIOUS
<1>2. \A q \in Seq(Events) : \A e \in Events : Append(q, e) \in Seq(Events)
  OBVIOUS
<1>3. \A e \in Events : e.file \in Binary
  BY DEF Events
<1> QED BY <1>1, <1>2, <1>3 DEF Queues

\* and the timers, of a format that is there or gone.
LEMMA TimerFacts ==
  /\ \A t \in TimerLists : t # <<>> => Tail(t) \in TimerLists
  /\ \A t \in TimerLists : \A e \in {"current", "old", "startup"} : Append(t, e) \in TimerLists
  /\ \A t \in TimerLists : Aged(t, OfFormat) \in TimerLists
<1>1. \A t \in TimerLists : t # <<>> => Tail(t) \in TimerLists
  BY DEF TimerLists
<1>2. \A t \in TimerLists : \A e \in {"current", "old", "startup"} : Append(t, e) \in TimerLists
  BY DEF TimerLists
<1>3. ASSUME NEW t \in TimerLists
      PROVE  Aged(t, OfFormat) \in TimerLists
  <2>1. t \in Seq({"current", "old", "startup"}) /\ Len(t) \in Nat /\ DOMAIN t = 1..Len(t)
    BY DEF TimerLists
  <2>2. \A i \in 1..Len(t) : (IF t[i] \in DOMAIN OfFormat THEN OfFormat[t[i]] ELSE t[i]) \in {"current", "old", "startup"}
    <3>1. \A x \in {"current", "old", "startup"} : (IF x \in DOMAIN OfFormat THEN OfFormat[x] ELSE x) \in {"current", "old", "startup"}
      BY DEF OfFormat
    <3> QED BY <2>1, <3>1
  <2>3. Aged(t, OfFormat) = [i \in 1..Len(t) |-> IF t[i] \in DOMAIN OfFormat THEN OfFormat[t[i]] ELSE t[i]]
    BY <2>1 DEF Aged
  <2> QED BY <2>1, <2>2, <2>3, IsASeq DEF TimerLists
<1> QED BY <1>1, <1>2, <1>3

\* A function called by way of checkSave: asked, unless nothing is modified.
LEMMA CallOK ==
  ASSUME NEW caller \in Guarded, NEW rest, WellStacked(rest),
         rest # <<>> => Head(rest) \notin Guarded,
         rest # <<>> /\ Head(rest) = "openClosed" => caller = "close",
         CallCheckSave(caller, rest), TagsAreNoticed, modified \in BOOLEAN
  PROVE  /\ WellStacked(stack') /\ stack' # <<>> /\ result' = TRUE
         /\ Head(stack') \in Guarded => Tidy
         /\ Opening(stack') <=> Opening(rest)
<1>1. caller \in Frames /\ caller \notin {"pickProject", "openClosed"} /\ caller \notin Asking
  BY DEF Guarded, Frames, Waiting, Continuing, Asking
<1>2. /\ WellStacked(<<caller>> \o rest) /\ <<caller>> \o rest # <<>> /\ Head(<<caller>> \o rest) = caller
      /\ Opening(<<caller>> \o rest) <=> Opening(rest)
  BY <1>1, PushOK
<1>3. /\ WellStacked(<<"ask">> \o (<<caller>> \o rest)) /\ <<"ask">> \o (<<caller>> \o rest) # <<>>
      /\ Head(<<"ask">> \o (<<caller>> \o rest)) = "ask"
      /\ Opening(<<"ask">> \o (<<caller>> \o rest)) <=> Opening(rest)
  <2>1. "ask" \in Frames /\ "ask" \in Asking /\ caller # "openClosed"
    BY DEF Frames, Waiting, Asking, Guarded
  <2>2. PICK t : t = <<caller>> \o rest
    OBVIOUS
  <2>3. WellStacked(t) /\ t # <<>> /\ Head(t) = caller /\ (Opening(t) <=> Opening(rest)) /\ caller # "openClosed"
    BY ONLY <1>2, <2>1, <2>2
  <2>4. /\ WellStacked(<<"ask">> \o t) /\ <<"ask">> \o t # <<>> /\ Head(<<"ask">> \o t) = "ask"
        /\ Opening(<<"ask">> \o t) <=> "ask" \in {"pickProject", "openClosed"} \/ Opening(t)
    BY ONLY <2>1, <2>3, PushOK
  <2> QED BY ONLY <2>2, <2>3, <2>4
<1>4. <<"ask", caller>> \o rest = <<"ask">> \o (<<caller>> \o rest)
  <2>1. rest \in Seq(Frames) /\ <<"ask">> \in Seq(Frames) /\ <<caller>> \in Seq(Frames)
    BY <1>1 DEF WellStacked, Frames, Waiting
  <2>2. <<"ask", caller>> = <<"ask">> \o <<caller>>
    BY <1>1
  <2> QED BY <2>1, <2>2, ConcatAssociative
<1>5. CASE modified
  BY <1>3, <1>4, <1>5 DEF CallCheckSave, Guarded
<1>6. CASE ~modified
  BY <1>2, <1>6 DEF CallCheckSave, Tidy, TagsAreNoticed
<1> QED BY <1>5, <1>6

\* How the process may end.
Ways == {"no", "quit", "loader destroyed", "no project", "freed object", "assert"}

\* What loadBinary, saveProject and the end of a load leave has the types it had.
LEMMA LoaderStarts ==
  ASSUME DataOK, NEW b \in Binary, StartLoader(b)
  PROVE  loader' \in Loaders /\ over' \in Ways
<1>1. loader \in Loaders /\ over \in Ways
  BY DEF DataOK, Ways
<1>2. [state |-> "running", file |-> b] \in Loaders
  BY DataFacts
<1> QED BY <1>1, <1>2 DEF StartLoader, Ways

LEMMA SaveKeepsTypes ==
  ASSUME DataOK, NEW saveAs \in BOOLEAN, NEW rest, CallSaveProject(saveAs, rest)
  PROVE  /\ project' \in Projects /\ tags' \in {"saved", "changed", "givenUp"}
         /\ modified' \in BOOLEAN /\ result' \in BOOLEAN /\ over' \in Ways
<1>1. /\ project \in Projects /\ tags \in {"saved", "changed", "givenUp"}
      /\ modified \in BOOLEAN /\ result \in BOOLEAN /\ over \in Ways
  BY DEF DataOK, Ways
<1>2. [project EXCEPT !.saved = project.binary] \in Projects
  BY <1>1, DataFacts
<1>3. CASE project = NoProject
  BY <1>1, <1>3 DEF CallSaveProject, Ends, Ways
<1>4. CASE project # NoProject
  <2>1. over' = over /\ (Store \/ UNCHANGED <<project, tags, modified, result>>)
    BY <1>4 DEF CallSaveProject
  <2> QED BY <1>1, <1>2, <2>1 DEF Store
<1> QED BY <1>3, <1>4

LEMMA ShowKeepsTypes ==
  ASSUME DataOK, NEW age, NEW rest, Show(age, rest)
  PROVE  binaryModified' \in BOOLEAN /\ over' \in Ways
<1>1. binaryModified \in BOOLEAN /\ over \in Ways
  BY DEF DataOK, Ways
<1> QED BY <1>1 DEF Show, Ends, Ways

\* Every step keeps the types of all variables but the stack.
LEMMA DataStep ==
  ASSUME DataOK, Acts, UNCHANGED user
  PROVE  DataOK'
<1>1. CASE SaveProject
  <2>1. PICK saveAs \in BOOLEAN : CallSaveProject(saveAs, <<>>)
    BY <1>1 DEF SaveProject
  <2>2. UNCHANGED <<binaryModified, actions, widget, loader, format, queue, timers>>
    BY <1>1 DEF SaveProject, RestUnchanged
  <2> QED BY <2>1, <2>2, SaveKeepsTypes DEF DataOK, Ways
<1>2. CASE SaveBinary
  BY <1>2, DataFacts DEF DataOK, SaveBinary, CallSaveBinary, RestUnchanged
<1>3. CASE NewProject
  BY <1>3, DataFacts DEF DataOK, NewProject, CallCheckSave, RestUnchanged
<1>4. CASE OpenProject
  BY <1>4, DataFacts DEF DataOK, OpenProject, CallCheckSave, RestUnchanged
<1>5. CASE CloseProject
  BY <1>5, DataFacts DEF DataOK, CloseProject, CallCheckSave, RestUnchanged
<1>6. CASE OpenBinary
  BY <1>6, DataFacts DEF DataOK, OpenBinary, RestUnchanged
<1>7. CASE ReloadBinary
  BY <1>7, DataFacts DEF DataOK, ReloadBinary, CallCheckSave, RestUnchanged
<1>8. CASE Quit
  BY <1>8, DataFacts DEF DataOK, Quit, CallCheckSave, RestUnchanged
<1>9. CASE EditTags
  BY <1>9, DataFacts DEF DataOK, EditTags, RestUnchanged
<1>10. CASE OpenEditor
  BY <1>10, DataFacts DEF DataOK, OpenEditor, Ends, RestUnchanged
<1>11. CASE LoadsBinary
  <2>1. PICK b \in user.files : LoadBinary(b)
    BY <1>11 DEF LoadsBinary
  <2>2. b \in Binary
    BY DataFacts DEF DataOK
  <2>3. StartLoader(b) /\ UNCHANGED <<project, tags, modified, binaryModified, actions, widget, result, format, queue, timers>>
    BY <2>1 DEF LoadBinary, RestUnchanged
  <2> QED BY <2>2, <2>3, LoaderStarts DEF DataOK, Ways
<1>12. CASE AnswerYes
  <2>1. CallSaveProject(FALSE, Tail(stack)) /\ UNCHANGED <<binaryModified, actions, widget, loader, format, queue, timers>>
    BY <1>12 DEF AnswerYes, RestUnchanged
  <2> QED BY <2>1, SaveKeepsTypes DEF DataOK, Ways
<1>13. CASE AnswerNo
  BY <1>13, DataFacts DEF DataOK, AnswerNo, RestUnchanged
<1>14. CASE AnswerCancel
  BY <1>14, DataFacts DEF DataOK, AnswerCancel, RestUnchanged
<1>15. CASE BinaryAnswered
  <2>1. /\ UNCHANGED <<project, tags, modified, actions, widget, result, format, queue, timers>>
        /\ binaryModified' = FALSE \/ UNCHANGED binaryModified
    BY <1>15 DEF BinaryAnswered, RestUnchanged
  <2>2. CASE project = NoProject
    <3>1. loader' = loader /\ (over' = "no project" \/ over' = over)
      BY <1>15, <2>2 DEF BinaryAnswered, Reload
    <3>2. loader' \in Loaders /\ over' \in Ways
      BY <3>1 DEF DataOK, Ways
    <3> QED BY <2>1, <3>2 DEF DataOK, Ways
  <2>3. CASE project # NoProject
    <3>1. project.binary \in Binary
      BY <2>3, DataFacts DEF DataOK
    <3>2. StartLoader(project.binary) \/ UNCHANGED <<loader, over>>
      BY <1>15, <2>3 DEF BinaryAnswered, Reload
    <3>3. loader' \in Loaders /\ over' \in Ways
      BY <3>1, <3>2, LoaderStarts DEF DataOK, Ways
    <3> QED BY <2>1, <3>3 DEF DataOK, Ways
  <2> QED BY <2>2, <2>3
<1>16. CASE MissingAnswered
  BY <1>16, DataFacts DEF DataOK, MissingAnswered, CallCheckSave, RestUnchanged
<1>17. CASE SaveAsAnswered
  BY <1>17, DataFacts DEF DataOK, SaveAsAnswered, Store, RestUnchanged
<1>18. CASE StaleSaveAsAnswered
  BY <1>18, DataFacts DEF DataOK, StaleSaveAsAnswered, Ends, RestUnchanged
<1>19. CASE PickProject
  BY <1>19, DataFacts DEF DataOK, PickProject, CloseFirst, CallCheckSave, RestUnchanged
<1>20. CASE CancelDialog
  BY <1>20, DataFacts DEF DataOK, CancelDialog, RestUnchanged
<1>21. CASE Choose
  <2>1. /\ Show("current", Tail(stack)) \/ Show("old", Tail(stack))
        /\ UNCHANGED <<project, tags, modified, actions, widget, loader, result, format, queue, timers>>
    BY <1>21 DEF Choose, RestUnchanged
  <2> QED BY <2>1, ShowKeepsTypes DEF DataOK, Ways
<1>22. CASE EditorDone
  BY <1>22, DataFacts DEF DataOK, EditorDone, RestUnchanged
<1>23. CASE StaleEditorDone
  BY <1>23, DataFacts DEF DataOK, StaleEditorDone, Ends, RestUnchanged
<1>24. CASE ContinueNew
  BY <1>24, DataFacts DEF DataOK, ContinueNew, Close, RestUnchanged
<1>25. CASE ContinueOpen
  BY <1>25, DataFacts DEF DataOK, ContinueOpen, RestUnchanged
<1>26. CASE ContinueOpenFile
  BY <1>26, DataFacts DEF DataOK, ContinueOpenFile, CloseFirst, CallCheckSave, RestUnchanged
<1>27. CASE ContinueClose
  BY <1>27, DataFacts DEF DataOK, ContinueClose, Close, RestUnchanged
<1>28. CASE ContinueReload
  <2>1. UNCHANGED <<project, tags, modified, binaryModified, actions, widget, result, format, queue, timers>>
    BY <1>28 DEF ContinueReload, RestUnchanged
  <2>2. CASE project = NoProject
    <3>1. loader' = loader /\ (over' = "no project" \/ over' = over)
      BY <1>28, <2>2 DEF ContinueReload, Reload
    <3>2. loader' \in Loaders /\ over' \in Ways
      BY <3>1 DEF DataOK, Ways
    <3> QED BY <2>1, <3>2 DEF DataOK, Ways
  <2>3. CASE project # NoProject
    <3>1. project.binary \in Binary
      BY <2>3, DataFacts DEF DataOK
    <3>2. StartLoader(project.binary) \/ UNCHANGED <<loader, over>>
      BY <1>28, <2>3 DEF ContinueReload, Reload
    <3>3. loader' \in Loaders /\ over' \in Ways
      BY <3>1, <3>2, LoaderStarts DEF DataOK, Ways
    <3> QED BY <2>1, <3>3 DEF DataOK, Ways
  <2> QED BY <2>2, <2>3
<1>29. CASE ContinueQuit
  BY <1>29, DataFacts DEF DataOK, ContinueQuit, Ends, RestUnchanged
<1>30. CASE LoadsProject
  <2>1. CASE LoadProjectFails
    BY <2>1, DataFacts DEF DataOK, LoadProjectFails, RestUnchanged
  <2>2. ASSUME NEW b \in user.files, LoadProject(b)
        PROVE  DataOK'
    BY <2>2, DataFacts DEF DataOK, LoadProject, StartLoader, RestUnchanged
  <2>3. ASSUME NEW b \in user.files, LoadProjectWithoutBinary(b)
        PROVE  DataOK'
    BY <2>3, DataFacts DEF DataOK, LoadProjectWithoutBinary, RestUnchanged
  <2> QED BY <1>30, <2>1, <2>2, <2>3 DEF LoadsProject
<1>31. CASE Disassembled
  BY <1>31, DataFacts DEF DataOK, Disassembled, RestUnchanged
<1>32. CASE LoaderReports
  <2>1. UNCHANGED <<project, tags, modified, binaryModified, actions, widget, format, result, timers, over>>
    BY <1>32 DEF LoaderReports, UIUnchanged
  <2>2. loader \in Loaders /\ loader.state = "running" /\ queue \in Queues
    BY <1>32 DEF DataOK, LoaderReports
  <2>3. loader' \in Loaders
    BY <1>32, <2>2, DataFacts DEF LoaderReports
  <2>4. PICK e \in {"success", "failed", "finished"} : queue' = Append(queue, [event |-> e, file |-> loader.file])
    BY <1>32 DEF LoaderReports, Signal
  <2>5. [event |-> e, file |-> loader.file] \in Events
    BY <2>2, DataFacts
  <2>6. queue' \in Queues
    BY <2>2, <2>4, <2>5, QueueFacts
  <2> QED BY <2>1, <2>3, <2>6 DEF DataOK
<1>33. CASE LoaderEnds
  <2>1. UNCHANGED <<project, tags, modified, binaryModified, actions, widget, format, result, timers, over>>
    BY <1>33 DEF LoaderEnds, UIUnchanged
  <2>2. loader \in Loaders /\ loader.state = "reported" /\ queue \in Queues
    BY <1>33 DEF DataOK, LoaderEnds
  <2>3. loader' \in Loaders
    BY <1>33, <2>2, DataFacts DEF LoaderEnds
  <2>4. PICK e \in {"success", "failed", "finished"} : queue' = Append(queue, [event |-> e, file |-> loader.file])
    BY <1>33 DEF LoaderEnds, Signal
  <2>5. [event |-> e, file |-> loader.file] \in Events
    BY <2>2, DataFacts
  <2>6. queue' \in Queues
    BY <2>2, <2>4, <2>5, QueueFacts
  <2> QED BY <2>1, <2>3, <2>6 DEF DataOK
<1>34. CASE ShowEvent
  BY <1>34, DataFacts, TimerFacts DEF DataOK, ShowEvent, UIUnchanged
<1>35. CASE OnFailed
  BY <1>35, DataFacts, QueueFacts DEF DataOK, OnFailed, Delivers, UIUnchanged
<1>36. CASE OnFinished
  BY <1>36, DataFacts, QueueFacts DEF DataOK, OnFinished, Delivers, UIUnchanged
<1>37. CASE OnLoadSuccess
  <2> DEFINE file == Head(queue).file
  <2>1. file \in Binary /\ queue' \in Queues /\ timers' \in TimerLists
    BY <1>37, QueueFacts, TimerFacts DEF DataOK, OnLoadSuccess, Delivers
  <2>2. project' \in Projects /\ tags' \in {"saved", "changed", "givenUp"}
    BY <1>37, <2>1, DataFacts DEF DataOK, OnLoadSuccess
  <2>3. /\ format' = file /\ binaryModified' = FALSE /\ actions' = TRUE
        /\ widget' \in {"none", "stale"} /\ UNCHANGED <<modified, loader, result, over>>
    BY <1>37 DEF OnLoadSuccess
  <2> QED BY <2>1, <2>2, <2>3 DEF DataOK
<1>38. CASE ShowsLoaded
  <2>1. PICK age \in {"current", "old"} : ShowLoaded(age)
    BY <1>38 DEF ShowsLoaded
  <2>2. UNCHANGED <<project, tags, modified, actions, widget, format, loader, queue, result>>
    BY <2>1 DEF ShowLoaded
  <2>3. Show(age, stack) \/ UNCHANGED <<binaryModified, over>>
    BY <2>1 DEF ShowLoaded
  <2>4. binaryModified' \in BOOLEAN /\ over' \in Ways
    BY <2>3, ShowKeepsTypes DEF DataOK, Ways
  <2>5. timers' \in TimerLists
    BY <2>1, TimerFacts DEF DataOK, ShowLoaded, Fires
  <2> QED BY <2>2, <2>4, <2>5 DEF DataOK, Ways
<1>39. CASE LoadStartupFile
  <2>1. UNCHANGED <<project, tags, modified, binaryModified, actions, widget, format, queue>>
    BY <1>39 DEF LoadStartupFile
  <2>2. timers' \in TimerLists
    BY <1>39, TimerFacts DEF DataOK, LoadStartupFile, Fires
  <2>3. CASE CallCheckSave("openFile", stack) /\ UNCHANGED <<loader, over>>
    <3>1. result' = TRUE
      BY <2>3 DEF CallCheckSave
    <3> QED BY <2>1, <2>2, <2>3, <3>1 DEF DataOK
  <2>4. ASSUME NEW b \in user.files, StartLoader(b), UNCHANGED result
        PROVE  DataOK'
    <3>1. b \in Binary
      BY DataFacts DEF DataOK
    <3>2. loader' \in Loaders /\ over' \in Ways
      BY <2>4, <3>1, LoaderStarts
    <3> QED BY <2>1, <2>2, <2>4, <3>2 DEF DataOK, Ways
  <2> QED BY <1>39, <2>3, <2>4 DEF LoadStartupFile
<1>60. CASE Menu
  BY <1>60, <1>1, <1>2, <1>3, <1>4, <1>5, <1>6, <1>7, <1>8, <1>9, <1>10
     DEF Menu
<1>61. CASE Dialogs
  BY <1>61, <1>12, <1>13, <1>14, <1>15, <1>16, <1>17, <1>18, <1>19, <1>20, <1>21, <1>22, <1>23
     DEF Dialogs
<1>62. CASE Continue
  BY <1>62, <1>24, <1>25, <1>26, <1>27, <1>28, <1>29, <1>30, <1>31
     DEF Continue
<1>63. CASE Deliver
  BY <1>63, <1>35, <1>36, <1>37, <1>38, <1>39
     DEF Deliver
<1> QED
  BY <1>60, <1>61, <1>62, <1>63, <1>11, <1>32, <1>33, <1>34 DEF Acts

-----------------------------------------------------------------------------
\* What the steps do to the stack, one lemma for each way.

\* It is enough that the tags are settled when a function gets a Yes, and when a
\* project comes to be opened.
LEMMA Moved ==
  ASSUME StackInv, WellStacked(stack'), Tidy => Tidy',
         Opening(stack') => Opening(stack) \/ Tidy',
         stack' # <<>> /\ Head(stack') \in Guarded /\ result' => Tidy'
  PROVE  StackInv'
BY DEF StackInv, AskedInv, OpeningInv

\* The stack and the answer stay.
LEMMA Unmoved ==
  ASSUME StackInv, UNCHANGED <<stack, result>>, Tidy => Tidy'
  PROVE  StackInv'
BY DEF StackInv, AskedInv, OpeningInv

\* The topmost function or dialog returns.
LEMMA Returned ==
  ASSUME StackInv, stack # <<>>, Return, Tidy => Tidy',
         Head(stack) \in Asking /\ result' => Tidy'
  PROVE  StackInv'
<1>1. /\ WellStacked(Tail(stack)) /\ (Opening(Tail(stack)) => Opening(stack))
      /\ Tail(stack) # <<>> /\ Head(Tail(stack)) \in Guarded => Head(stack) \in Asking
  BY PopOK DEF StackInv
<1>2. stack' = Tail(stack)
  BY DEF Return
<1>3. WellStacked(stack') /\ (Opening(stack') => Opening(stack) \/ Tidy')
  BY <1>1, <1>2
<1>4. stack' # <<>> /\ Head(stack') \in Guarded /\ result' => Tidy'
  BY <1>1, <1>2
<1> QED BY <1>3, <1>4, Moved

\* It makes way for another.
LEMMA Replaced ==
  ASSUME StackInv, stack # <<>>, Head(stack) \notin Asking, Head(stack) # "close",
         NEW f \in Frames, Becomes(f), f \notin Guarded, Tidy => Tidy',
         f \in {"pickProject", "openClosed"} => Tidy'
  PROVE  StackInv'
<1>1. /\ WellStacked(Tail(stack)) /\ (Opening(Tail(stack)) => Opening(stack))
      /\ Tail(stack) # <<>> => Head(Tail(stack)) \notin Guarded /\ Head(Tail(stack)) # "openClosed"
  BY PopOK DEF StackInv
<1>2. stack' = <<f>> \o Tail(stack)
  BY DEF Becomes
<1>3. /\ WellStacked(stack') /\ stack' # <<>> /\ Head(stack') = f
      /\ Opening(stack') <=> f \in {"pickProject", "openClosed"} \/ Opening(Tail(stack))
  BY <1>1, <1>2, PushOK
<1>4. Opening(stack') => Opening(stack) \/ Tidy'
  BY <1>1, <1>3
<1> QED BY <1>3, <1>4, Moved

\* A dialog over a loop that waits.
LEMMA Pushed ==
  ASSUME StackInv, InLoop, NEW f \in Waiting \ {"pickProject"}, stack' = <<f>> \o stack, Tidy => Tidy'
  PROVE  StackInv'
<1>1. stack # <<>> => Head(stack) \notin Guarded /\ Head(stack) # "openClosed"
  BY DEF InLoop, Waiting, Guarded
<1>2. f \in Frames /\ f \notin Guarded /\ f \notin {"pickProject", "openClosed"}
  BY DEF Frames, Waiting, Guarded
<1>3. /\ WellStacked(stack') /\ stack' # <<>> /\ Head(stack') = f
      /\ Opening(stack') <=> Opening(stack)
  BY <1>1, <1>2, PushOK DEF StackInv
<1>4. Opening(stack') => Opening(stack) \/ Tidy'
  BY <1>3
<1> QED BY <1>2, <1>3, <1>4, Moved

\* A function is called by way of checkSave.
LEMMA Called ==
  ASSUME StackInv, TagsAreNoticed, modified \in BOOLEAN, UNCHANGED <<project, tags>>,
         NEW caller \in Guarded, NEW rest, WellStacked(rest), Opening(rest) => Opening(stack) \/ Tidy,
         rest # <<>> => Head(rest) \notin Guarded,
         rest # <<>> /\ Head(rest) = "openClosed" => caller = "close",
         CallCheckSave(caller, rest)
  PROVE  StackInv'
<1>1. Tidy' <=> Tidy
  BY DEF Tidy
<1>2. /\ WellStacked(stack')
      /\ Head(stack') \in Guarded => Tidy
      /\ Opening(stack') <=> Opening(rest)
  BY CallOK
<1>3. Opening(stack') => Opening(stack) \/ Tidy'
  BY <1>1, <1>2
<1> QED BY <1>1, <1>2, <1>3, Moved

\* The window alone is a well-formed stack.
LEMMA Empty == WellStacked(<<>>) /\ ~Opening(<<>>)
BY DEF WellStacked, Opening

\* A menu entry that calls checkSave first.
LEMMA CalledFromMenu ==
  ASSUME StackInv, TagsAreNoticed, modified \in BOOLEAN, UNCHANGED <<project, tags>>,
         NEW caller \in Guarded, CallCheckSave(caller, <<>>)
  PROVE  StackInv'
BY Called, Empty

\* The file of a project is known: it is closed first, with openProject below.
LEMMA ClosesFirst ==
  ASSUME StackInv, TagsAreNoticed, modified \in BOOLEAN, UNCHANGED <<project, tags>>, Tidy,
         stack # <<>>, Head(stack) \notin Asking, Head(stack) # "close", CloseFirst
  PROVE  StackInv'
<1> DEFINE rest == <<"openClosed">> \o Tail(stack)
<1>1. /\ WellStacked(Tail(stack))
      /\ Tail(stack) # <<>> => Head(Tail(stack)) \notin Guarded /\ Head(Tail(stack)) # "openClosed"
  BY PopOK DEF StackInv
<1>2. WellStacked(rest) /\ rest # <<>> /\ Head(rest) = "openClosed"
  BY <1>1, PushOK DEF Frames, Continuing
<1>3. "close" \in Guarded /\ "openClosed" \notin Guarded
  BY DEF Guarded
<1> QED BY <1>2, <1>3, Called DEF CloseFirst

\* The project is replaced: what is below keeps its pointer.
LEMMA Dropped ==
  ASSUME StackInv, stack # <<>>, stack' = Aged(Tail(stack), OfProject), Tidy'
  PROVE  StackInv'
<1>1. WellStacked(Tail(stack))
  BY PopOK DEF StackInv
<1>2. WellStacked(stack')
  BY <1>1, AgedOK
<1> QED BY <1>2, Moved

-----------------------------------------------------------------------------
\* Every step keeps the stack in order.
LEMMA StackStep ==
  ASSUME DataOK, StackInv, TagsAreNoticed, Acts
  PROVE  StackInv'
<1>0. DataOK /\ StackInv /\ TagsAreNoticed /\ modified \in BOOLEAN
  BY DEF DataOK
<1>1. CASE SaveProject
  <2> PICK saveAs \in BOOLEAN : CallSaveProject(saveAs, <<>>)
    BY <1>1 DEF SaveProject
  <2>1. stack = <<>> /\ InLoop
    BY <1>1 DEF SaveProject, Ready, InLoop
  <2>2. Tidy => Tidy'
    BY <1>0, DataFacts DEF DataOK, CallSaveProject, Store, Ends, Tidy
  <2>3. CASE UNCHANGED <<stack, result>>
    BY <2>2, <2>3, Unmoved
  <2>4. CASE stack' = <<>>
    BY <2>2, <2>4, Moved, Empty
  <2>5. CASE stack' = <<"saveAs">> \o stack
    BY <2>1, <2>2, <2>5, Pushed DEF Waiting
  <2> QED BY <2>1, <2>3, <2>4, <2>5 DEF CallSaveProject, Ends
<1>2. CASE SaveBinary
  <2>1. stack = <<>> /\ UNCHANGED <<stack, project, tags>>
    BY <1>2 DEF SaveBinary, Ready
  <2>2. Tidy' = Tidy
    BY <2>1 DEF Tidy
  <2>3. WellStacked(stack') /\ ~Opening(stack')
    BY <2>1, Empty
  <2> QED BY <2>1, <2>3 DEF StackInv, AskedInv, OpeningInv
<1>3. CASE NewProject
  BY <1>3, <1>0, CalledFromMenu DEF Guarded, NewProject
<1>4. CASE OpenProject
  BY <1>4, <1>0, CalledFromMenu DEF Guarded, OpenProject
<1>5. CASE CloseProject
  BY <1>5, <1>0, CalledFromMenu DEF Guarded, CloseProject
<1>6. CASE OpenBinary
  <2>1. InLoop /\ stack' = <<"pickBinary">> \o stack
    BY <1>6 DEF OpenBinary, Ready, InLoop
  <2> QED BY <1>6, <2>1, Pushed DEF OpenBinary, Waiting, Tidy
<1>7. CASE ReloadBinary
  BY <1>7, <1>0, CalledFromMenu DEF Guarded, ReloadBinary
<1>8. CASE Quit
  BY <1>8, <1>0, CalledFromMenu DEF Guarded, Quit
<1>9. CASE EditTags
  <2>1. stack' = <<>>
    BY <1>9 DEF EditTags, Ready
  <2>2. WellStacked(stack') /\ ~Opening(stack')
    BY <2>1, Empty
  <2> QED BY <2>1, <2>2 DEF StackInv, AskedInv, OpeningInv
<1>10. CASE OpenEditor
  <2>1. CASE widget = "stale"
    BY <1>10, <2>1, Unmoved DEF OpenEditor, Ends, Tidy
  <2>2. CASE widget # "stale"
    <3>1. InLoop /\ stack' = <<"editor">> \o stack
      BY <1>10, <2>2 DEF OpenEditor, Ready, InLoop
    <3> QED BY <1>10, <3>1, Pushed DEF OpenEditor, Waiting, Tidy
  <2> QED BY <2>1, <2>2
<1>11. CASE LoadsBinary
  <2>1. Tidy => Tidy'
    BY <1>11 DEF LoadsBinary, LoadBinary, Tidy
  <2>2. CASE On("pickBinary") /\ Return
    BY <2>1, <2>2, Returned DEF On, Asking
  <2>3. CASE UNCHANGED <<stack, result>>
    BY <2>1, <2>3, Unmoved
  <2> QED BY <1>11, <2>2, <2>3 DEF LoadsBinary, LoadBinary
<1>12. CASE AnswerYes
  <2>1. Tidy => Tidy'
    BY <1>12, <1>0, DataFacts DEF DataOK, AnswerYes, CallSaveProject, Store, Ends, Tidy
  <2>2. CASE UNCHANGED <<stack, result>>
    BY <2>1, <2>2, Unmoved
  <2>3. CASE stack' = Tail(stack) /\ Store
    <3>1. result' => Tidy'
      BY <2>3 DEF Store, Tidy
    <3> QED BY <1>12, <2>1, <2>3, <3>1, Returned DEF AnswerYes, On, Return
  <2>4. CASE stack' = <<"saveAs">> \o Tail(stack)
    <3>1. stack # <<>> /\ Head(stack) = "ask"
      BY <1>12 DEF AnswerYes, On
    <3>2. /\ WellStacked(Tail(stack)) /\ (Opening(Tail(stack)) => Opening(stack))
          /\ ~(Tail(stack) # <<>> /\ Head(Tail(stack)) = "openClosed")
      BY <1>0, <3>1, PopOK DEF StackInv
    <3>3. "saveAs" \in Frames /\ "saveAs" \in Asking /\ "saveAs" \notin Guarded
      BY DEF Frames, Waiting, Asking, Guarded
    <3>4. /\ WellStacked(<<"saveAs">> \o Tail(stack)) /\ Head(<<"saveAs">> \o Tail(stack)) = "saveAs"
          /\ Opening(<<"saveAs">> \o Tail(stack)) => Opening(Tail(stack))
      BY <3>2, <3>3, PushOK
    <3>5. Opening(stack') => Opening(stack) \/ Tidy'
      BY <2>4, <3>2, <3>4
    <3> QED BY <2>1, <2>4, <3>3, <3>4, <3>5, Moved
  <2> QED BY <1>12, <2>2, <2>3, <2>4 DEF AnswerYes, CallSaveProject, Ends
<1>13. CASE AnswerNo
  BY <1>13, <1>0, Returned DEF AnswerNo, On, Tidy, DataOK
<1>14. CASE AnswerCancel
  BY <1>14, <1>0, Returned DEF AnswerCancel, On, Tidy
<1>15. CASE BinaryAnswered
  BY <1>15, Returned DEF BinaryAnswered, On, Tidy, Asking
<1>16. CASE MissingAnswered
  <2>0. stack # <<>> /\ Head(stack) = "missing" /\ Head(stack) \notin Asking /\ UNCHANGED <<project, tags>>
    BY <1>16 DEF MissingAnswered, On, Asking
  <2>1. CASE CallCheckSave("open", Tail(stack))
    <3>1. /\ WellStacked(Tail(stack)) /\ (Opening(Tail(stack)) => Opening(stack))
          /\ Tail(stack) # <<>> => Head(Tail(stack)) \notin Guarded /\ Head(Tail(stack)) # "openClosed"
      BY <1>0, <2>0, PopOK DEF StackInv
    <3>2. "open" \in Guarded /\ (Opening(Tail(stack)) => Opening(stack) \/ Tidy)
      BY <3>1 DEF Guarded
    <3> QED BY <1>0, <2>0, <2>1, <3>1, <3>2, Called
  <2>2. CASE Becomes("pickBinary")
    <3>1. "pickBinary" \in Frames /\ "pickBinary" \notin Guarded
      BY DEF Frames, Waiting, Guarded
    <3> QED BY <1>0, <2>0, <2>2, <3>1, Replaced DEF Tidy
  <2>3. CASE Return
    BY <1>0, <2>0, <2>3, Returned DEF Tidy
  <2> QED BY <1>16, <2>1, <2>2, <2>3 DEF MissingAnswered
<1>17. CASE SaveAsAnswered
  <2>1. Tidy => Tidy'
    BY <1>17, <1>0, DataFacts DEF DataOK, SaveAsAnswered, Store, Tidy
  <2>2. result' => Tidy'
    BY <1>17 DEF SaveAsAnswered, Store, Tidy
  <2> QED BY <1>17, <2>1, <2>2, Returned DEF SaveAsAnswered, On
<1>18. CASE StaleSaveAsAnswered
  <2>1. CASE Return /\ result' = FALSE
    <3>1. stack # <<>> /\ Tidy' = Tidy
      BY <1>18 DEF StaleSaveAsAnswered, On, Tidy
    <3> QED BY <2>1, <3>1, Returned
  <2>2. CASE UNCHANGED <<stack, result>>
    BY <1>18, <2>2, Unmoved DEF StaleSaveAsAnswered, Tidy
  <2> QED BY <1>18, <2>1, <2>2 DEF StaleSaveAsAnswered, Ends
<1>19. CASE PickProject
  <2>1. stack # <<>> /\ Head(stack) = "pickProject" /\ Head(stack) \notin Asking
    BY <1>19 DEF PickProject, On, Asking
  <2>2. Tidy
    BY <1>0, <2>1, PopOK DEF StackInv, OpeningInv
  <2> QED BY <1>19, <1>0, <2>1, <2>2, ClosesFirst DEF PickProject
<1>20. CASE CancelDialog
  BY <1>20, Returned DEF CancelDialog, On, Tidy, Asking
<1>21. CASE Choose
  <2>1. stack # <<>> /\ Head(stack) \in {"choose", "chooseOld"} /\ Tidy' = Tidy
    BY <1>21 DEF Choose, On, Tidy
  <2>2. CASE UNCHANGED stack
    BY <1>21, <2>1, <2>2, Unmoved DEF Choose
  <2>3. CASE \E f \in {"disassemble", "disassembleOld"} : Becomes(f)
    BY <2>1, <2>3, Replaced DEF Asking, Frames, Waiting, Guarded
  <2> QED BY <1>21, <2>2, <2>3 DEF Choose, Show, Ends, Becomes
<1>22. CASE EditorDone
  BY <1>22, Returned DEF EditorDone, On, Tidy, Asking
<1>23. CASE StaleEditorDone
  BY <1>23, Unmoved DEF Tidy, StaleEditorDone, Ends, RestUnchanged
<1>24. CASE ContinueNew
  <2>1. stack # <<>> /\ Head(stack) = "new"
    BY <1>24 DEF ContinueNew, On
  <2>2. CASE result
    <3>1. Becomes("pickBinary") /\ Tidy'
      BY <1>24, <2>2 DEF ContinueNew, Close, Tidy
    <3> QED BY <2>1, <3>1, Replaced DEF Asking, Frames, Waiting, Guarded
  <2>3. CASE ~result
    BY <1>24, <2>1, <2>3, Returned DEF ContinueNew, Tidy, Asking
  <2> QED BY <1>0, <2>2, <2>3 DEF DataOK
<1>25. CASE ContinueOpen
  <2>1. stack # <<>> /\ Head(stack) = "open" /\ Tidy' = Tidy
    BY <1>25 DEF ContinueOpen, On, Tidy
  <2>2. CASE result
    <3>1. Becomes("pickProject") /\ Tidy
      BY <1>25, <2>1, <2>2 DEF ContinueOpen, StackInv, AskedInv, Guarded
    <3> QED BY <2>1, <3>1, Replaced DEF Asking, Frames, Waiting, Guarded
  <2>3. CASE ~result
    BY <1>25, <2>1, <2>3, Returned DEF ContinueOpen, Asking
  <2> QED BY <1>0, <2>2, <2>3 DEF DataOK
<1>26. CASE ContinueOpenFile
  <2>1. stack # <<>> /\ Head(stack) = "openFile" /\ Head(stack) \notin Asking /\ UNCHANGED <<project, tags>>
    BY <1>26 DEF ContinueOpenFile, On, Asking
  <2>2. CASE result
    <3>1. CloseFirst /\ Tidy
      BY <1>26, <2>1, <2>2 DEF ContinueOpenFile, StackInv, AskedInv, Guarded
    <3> QED BY <1>0, <2>1, <3>1, ClosesFirst
  <2>3. CASE ~result
    BY <1>26, <2>1, <2>3, Returned DEF ContinueOpenFile, Tidy
  <2> QED BY <1>0, <2>2, <2>3 DEF DataOK
<1>27. CASE ContinueClose
  <2>1. stack # <<>> /\ Head(stack) = "close"
    BY <1>27 DEF ContinueClose, On
  <2>2. CASE result
    BY <1>27, <2>1, <2>2, Dropped DEF ContinueClose, Close, Tidy
  <2>3. CASE ~result
    BY <1>27, <2>1, <2>3, Returned DEF ContinueClose, Tidy, Asking
  <2> QED BY <1>0, <2>2, <2>3 DEF DataOK
<1>28. CASE ContinueReload
  <2>1. stack # <<>> /\ Head(stack) = "reload" /\ Tidy' = Tidy /\ UNCHANGED result
    BY <1>28 DEF ContinueReload, On, Tidy
  <2>2. CASE Becomes("askBinary")
    BY <2>1, <2>2, Replaced DEF Asking, Frames, Waiting, Guarded
  <2>3. CASE Return
    BY <2>1, <2>3, Returned DEF Asking
  <2> QED BY <1>28, <2>2, <2>3 DEF ContinueReload
<1>29. CASE ContinueQuit
  <2>1. stack # <<>> /\ Head(stack) = "quit" /\ Tidy' = Tidy /\ UNCHANGED result
    BY <1>29 DEF ContinueQuit, On, Tidy
  <2>2. CASE UNCHANGED stack
    BY <2>1, <2>2, Unmoved
  <2>3. CASE Return
    BY <2>1, <2>3, Returned DEF Asking
  <2> QED BY <1>29, <2>2, <2>3 DEF ContinueQuit, Ends
<1>30. CASE LoadsProject
  <2>0. On("openClosed") /\ tags' = "saved"
    BY <1>30 DEF LoadsProject, LoadProjectFails, LoadProject, LoadProjectWithoutBinary
  <2>1. stack # <<>> /\ Head(stack) = "openClosed" /\ Tidy'
    BY <2>0 DEF On, Tidy
  <2>2. CASE stack' = Aged(Tail(stack), OfProject)
    BY <2>1, <2>2, Dropped
  <2>3. CASE stack' = <<"missing">> \o Aged(Tail(stack), OfProject)
    <3>1. /\ WellStacked(Tail(stack))
          /\ Tail(stack) # <<>> => Head(Tail(stack)) \notin Guarded /\ Head(Tail(stack)) # "openClosed"
      BY <1>0, <2>1, PopOK DEF StackInv, Asking
    <3>2. /\ WellStacked(Aged(Tail(stack), OfProject))
          /\ LET s == Aged(Tail(stack), OfProject) IN
             s # <<>> => Head(s) \notin Guarded /\ Head(s) # "openClosed"
      BY <3>1, AgedOK
    <3>3. WellStacked(stack')
      BY <2>3, <3>2, PushOK DEF Frames, Waiting
    <3> QED BY <2>1, <3>3, Moved
  <2> QED BY <1>30, <2>2, <2>3 DEF LoadsProject, LoadProjectFails, LoadProject, LoadProjectWithoutBinary
<1>31. CASE Disassembled
  BY <1>31, Returned DEF Disassembled, On, Tidy, Asking
<1>32. CASE LoaderReports
  BY <1>32, Unmoved DEF Tidy, LoaderReports, Signal, UIUnchanged
<1>33. CASE LoaderEnds
  BY <1>33, Unmoved DEF Tidy, LoaderEnds, Signal, UIUnchanged
<1>34. CASE ShowEvent
  BY <1>34, Unmoved DEF Tidy, ShowEvent, UIUnchanged
<1>35. CASE OnFailed
  BY <1>35, Unmoved DEF Tidy, OnFailed, Delivers, UIUnchanged
<1>36. CASE OnFinished
  BY <1>36, Unmoved DEF Tidy, OnFinished, Delivers, UIUnchanged
<1>37. CASE OnLoadSuccess
  <2> DEFINE s == IF IsNamed(project) THEN stack ELSE Aged(stack, OfProject)
  <2>1. /\ WellStacked(s) /\ (Opening(s) <=> Opening(stack))
        /\ s = <<>> <=> stack = <<>>
        /\ stack # <<>> => (Head(s) \in Guarded <=> Head(stack) \in Guarded)
    BY <1>0, AgedOK DEF StackInv
  <2>2. stack' = Aged(s, OfFormat)
    BY <1>37 DEF OnLoadSuccess
  <2> HIDE DEF s
  <2>3. /\ WellStacked(stack') /\ (Opening(stack') <=> Opening(s))
        /\ stack' = <<>> <=> s = <<>>
        /\ s # <<>> => (Head(stack') \in Guarded <=> Head(s) \in Guarded)
    BY <2>1, <2>2, AgedOK
  <2>4. stack # <<>> => Head(stack) \notin Guarded
    BY <1>37 DEF OnLoadSuccess, Delivers, InLoop, Waiting, Guarded
  <2>5. Tidy => Tidy'
    <3>1. project \in Projects /\ (queue # <<>> => Head(queue).file \in Binary)
      BY <1>0, QueueFacts DEF DataOK
    <3> QED BY <1>37, <3>1, DataFacts DEF OnLoadSuccess, Delivers, Tidy
  <2> QED BY <2>1, <2>3, <2>4, <2>5, Moved
<1>38. CASE ShowsLoaded
  <2>1. InLoop /\ Tidy' = Tidy
    BY <1>38 DEF ShowsLoaded, ShowLoaded, Fires, Tidy
  <2>2. CASE UNCHANGED stack
    BY <1>38, <2>1, <2>2, Unmoved DEF ShowsLoaded, ShowLoaded
  <2>3. CASE \E f \in {"disassemble", "disassembleOld", "choose", "chooseOld"} : stack' = <<f>> \o stack
    BY <2>1, <2>3, Pushed DEF Waiting
  <2> QED BY <1>38, <2>2, <2>3 DEF ShowsLoaded, ShowLoaded, Show, Ends
<1>39. CASE LoadStartupFile
  <2>1. InLoop /\ UNCHANGED <<project, tags>>
    BY <1>39 DEF LoadStartupFile, Fires
  <2>2. CASE UNCHANGED <<stack, result>>
    BY <2>1, <2>2, Unmoved DEF Tidy
  <2>3. CASE CallCheckSave("openFile", stack)
    <3>1. "openFile" \in Guarded /\ (stack # <<>> => Head(stack) \notin Guarded /\ Head(stack) # "openClosed")
      BY <2>1 DEF InLoop, Waiting, Guarded
    <3> QED BY <1>0, <2>1, <2>3, <3>1, Called DEF StackInv
  <2> QED BY <1>39, <2>2, <2>3 DEF LoadStartupFile
<1>60. CASE Menu
  BY <1>60, <1>1, <1>2, <1>3, <1>4, <1>5, <1>6, <1>7, <1>8, <1>9, <1>10
     DEF Menu
<1>61. CASE Dialogs
  BY <1>61, <1>12, <1>13, <1>14, <1>15, <1>16, <1>17, <1>18, <1>19, <1>20, <1>21, <1>22, <1>23
     DEF Dialogs
<1>62. CASE Continue
  BY <1>62, <1>24, <1>25, <1>26, <1>27, <1>28, <1>29, <1>30, <1>31
     DEF Continue
<1>63. CASE Deliver
  BY <1>63, <1>35, <1>36, <1>37, <1>38, <1>39
     DEF Deliver
<1> QED
  BY <1>60, <1>61, <1>62, <1>63, <1>11, <1>32, <1>33, <1>34 DEF Acts


\* The window's flag, and the way out.
LEMMA NoticedStep ==
  ASSUME DataOK, StackInv, TagsAreNoticed, QuitsClean, Acts
  PROVE  TagsAreNoticed' /\ QuitsClean'
<1>0. project \in Projects /\ (queue # <<>> => Head(queue).file \in Binary)
  BY QueueFacts DEF DataOK
<1>1. ASSUME over = "no", over' # "quit", UNCHANGED <<project, tags, modified>>
      PROVE  TagsAreNoticed' /\ QuitsClean'
  BY <1>1 DEF TagsAreNoticed, QuitsClean
<1>2. ASSUME over = "no", over' # "quit", tags' # "changed"
      PROVE  TagsAreNoticed' /\ QuitsClean'
  BY <1>2 DEF TagsAreNoticed, QuitsClean
<1>3. CASE SaveProject
  BY <1>3, <1>1, <1>2 DEF SaveProject, CallSaveProject, Store, Ends, RestUnchanged, On, Ready, InLoop
<1>4. CASE SaveBinary
  BY <1>4, <1>1, <1>2 DEF SaveBinary, CallSaveBinary, RestUnchanged, On, Ready, InLoop
<1>5. CASE NewProject
  BY <1>5, <1>1, <1>2 DEF NewProject, RestUnchanged, On, Ready, InLoop
<1>6. CASE OpenProject
  BY <1>6, <1>1, <1>2 DEF OpenProject, RestUnchanged, On, Ready, InLoop
<1>7. CASE CloseProject
  BY <1>7, <1>1, <1>2 DEF CloseProject, RestUnchanged, On, Ready, InLoop
<1>8. CASE OpenBinary
  BY <1>8, <1>1, <1>2 DEF OpenBinary, RestUnchanged, On, Ready, InLoop
<1>9. CASE ReloadBinary
  BY <1>9, <1>1, <1>2 DEF ReloadBinary, RestUnchanged, On, Ready, InLoop
<1>10. CASE Quit
  BY <1>10, <1>1, <1>2 DEF Quit, RestUnchanged, On, Ready, InLoop
<1>11. CASE EditTags
  BY <1>0, <1>11, DataFacts DEF TagsAreNoticed, QuitsClean, EditTags, RestUnchanged, On, Ready, InLoop
<1>12. CASE OpenEditor
  BY <1>12, <1>1, <1>2 DEF OpenEditor, Ends, RestUnchanged, On, Ready, InLoop
<1>13. CASE LoadsBinary
  BY <1>13, <1>1, <1>2 DEF LoadsBinary, LoadBinary, StartLoader, RestUnchanged, On, Ready, InLoop
<1>14. CASE AnswerYes
  BY <1>14, <1>1, <1>2 DEF AnswerYes, CallSaveProject, Store, Ends, RestUnchanged, On, Ready, InLoop
<1>15. CASE AnswerNo
  BY <1>15, <1>1, <1>2 DEF AnswerNo, RestUnchanged, On, Ready, InLoop
<1>16. CASE AnswerCancel
  BY <1>16, <1>1, <1>2 DEF AnswerCancel, RestUnchanged, On, Ready, InLoop
<1>17. CASE BinaryAnswered
  BY <1>17, <1>1, <1>2 DEF BinaryAnswered, Reload, StartLoader, RestUnchanged, On, Ready, InLoop
<1>18. CASE MissingAnswered
  BY <1>18, <1>1, <1>2 DEF MissingAnswered, RestUnchanged, On, Ready, InLoop
<1>19. CASE SaveAsAnswered
  BY <1>19, <1>1, <1>2 DEF SaveAsAnswered, Store, RestUnchanged, On, Ready, InLoop
<1>20. CASE StaleSaveAsAnswered
  BY <1>20, <1>1, <1>2 DEF StaleSaveAsAnswered, Ends, RestUnchanged, On, Ready, InLoop
<1>21. CASE PickProject
  BY <1>21, <1>1, <1>2 DEF PickProject, RestUnchanged, On, Ready, InLoop
<1>22. CASE CancelDialog
  BY <1>22, <1>1, <1>2 DEF CancelDialog, RestUnchanged, On, Ready, InLoop
<1>23. CASE Choose
  BY <1>23, <1>1, <1>2 DEF Choose, Show, Ends, RestUnchanged, On, Ready, InLoop
<1>24. CASE EditorDone
  BY <1>24, <1>1, <1>2 DEF EditorDone, RestUnchanged, On, Ready, InLoop
<1>25. CASE StaleEditorDone
  BY <1>25, <1>1, <1>2 DEF StaleEditorDone, Ends, RestUnchanged, On, Ready, InLoop
<1>26. CASE ContinueNew
  BY <1>26, <1>1, <1>2 DEF ContinueNew, Close, RestUnchanged, On, Ready, InLoop
<1>27. CASE ContinueOpen
  BY <1>27, <1>1, <1>2 DEF ContinueOpen, RestUnchanged, On, Ready, InLoop
<1>28. CASE ContinueOpenFile
  BY <1>28, <1>1, <1>2 DEF ContinueOpenFile, RestUnchanged, On, Ready, InLoop
<1>29. CASE ContinueClose
  BY <1>29, <1>1, <1>2 DEF ContinueClose, Close, RestUnchanged, On, Ready, InLoop
<1>30. CASE ContinueReload
  BY <1>30, <1>1, <1>2 DEF ContinueReload, Reload, StartLoader, RestUnchanged, On, Ready, InLoop
<1>31. CASE ContinueQuit
  <2>1. CASE result
    <3>1. Tidy /\ UNCHANGED <<project, tags>>
      BY <1>31, <2>1 DEF ContinueQuit, On, StackInv, AskedInv, Guarded
    <3> QED BY <3>1 DEF Tidy, TagsAreNoticed, QuitsClean
  <2>2. CASE ~result
    BY <1>31, <1>1, <2>2 DEF ContinueQuit, On
  <2> QED BY <2>1, <2>2 DEF DataOK
<1>32. CASE LoadsProject
  BY <1>32, <1>1, <1>2 DEF LoadsProject, LoadProjectFails, LoadProject, LoadProjectWithoutBinary, StartLoader, RestUnchanged, On, Ready, InLoop
<1>33. CASE Disassembled
  BY <1>33, <1>1, <1>2 DEF Disassembled, RestUnchanged, On, Ready, InLoop
<1>34. CASE LoaderReports
  BY <1>34, <1>1, <1>2 DEF LoaderReports, Signal, UIUnchanged, On, Ready, InLoop
<1>35. CASE LoaderEnds
  BY <1>35, <1>1, <1>2 DEF LoaderEnds, Signal, UIUnchanged, On, Ready, InLoop
<1>36. CASE ShowEvent
  BY <1>36, <1>1, <1>2 DEF ShowEvent, UIUnchanged, On, Ready, InLoop
<1>37. CASE OnFailed
  BY <1>37, <1>1, <1>2 DEF OnFailed, Delivers, UIUnchanged, On, Ready, InLoop
<1>38. CASE OnFinished
  BY <1>38, <1>1, <1>2 DEF OnFinished, Delivers, UIUnchanged, On, Ready, InLoop
<1>39. CASE OnLoadSuccess
  <2>1. IsNamed(project) => project'.hooked = project.hooked /\ tags' = tags
    BY <1>0, <1>39, DataFacts DEF OnLoadSuccess, Delivers
  <2>2. over = "no" /\ over' = over /\ modified' = modified /\ (~IsNamed(project) => tags' = "saved")
    BY <1>39 DEF OnLoadSuccess, Delivers, InLoop
  <2> QED BY <2>1, <2>2 DEF TagsAreNoticed, QuitsClean
<1>40. CASE ShowsLoaded
  BY <1>40, <1>1, <1>2 DEF ShowsLoaded, ShowLoaded, Fires, Show, Ends, On, Ready, InLoop
<1>41. CASE LoadStartupFile
  BY <1>41, <1>1, <1>2 DEF LoadStartupFile, Fires, StartLoader, On, Ready, InLoop
<1>60. CASE Menu
  BY <1>60, <1>3, <1>4, <1>5, <1>6, <1>7, <1>8, <1>9, <1>10, <1>11, <1>12
     DEF Menu
<1>61. CASE Dialogs
  BY <1>61, <1>14, <1>15, <1>16, <1>17, <1>18, <1>19, <1>20, <1>21, <1>22, <1>23, <1>24, <1>25
     DEF Dialogs
<1>62. CASE Continue
  BY <1>62, <1>26, <1>27, <1>28, <1>29, <1>30, <1>31, <1>32, <1>33
     DEF Continue
<1>63. CASE Deliver
  BY <1>63, <1>37, <1>38, <1>39, <1>40, <1>41
     DEF Deliver
<1> QED
  BY <1>60, <1>61, <1>62, <1>63, <1>13, <1>34, <1>35, <1>36 DEF Acts

\* The parts of TagsAreNotDropped.
Drops == tags = "changed" /\ project.hooked /\ tags' = "saved"
AfterSaving == SaveProject \/ SaveAsAnswered \/ AnswerYes \/ (OnLoadSuccess /\ ~IsNamed(project))

\* A step that drops unsaved tags the window heard of is a save, or a load that
\* replaces a project without a file.
LEMMA DropsStep ==
  ASSUME StackInv, Acts, Drops
  PROVE  AfterSaving
<1>0. ~Tidy /\ tags' # tags /\ tags' = "saved"
  BY DEF Drops, Tidy
<1>1. ASSUME tags' = tags \/ tags' \in {"changed", "givenUp"}
      PROVE  FALSE
  BY <1>0, <1>1
<1>2. CASE Menu
  <2>1. CASE SaveProject
    BY <2>1 DEF AfterSaving
  <2>2. CASE ~SaveProject
    BY <1>1, <1>2, <2>2 DEF Menu, SaveBinary, NewProject, OpenProject, CloseProject, OpenBinary, ReloadBinary, Quit, EditTags, OpenEditor
  <2> QED BY <2>1, <2>2
<1>3. CASE Dialogs
  <2>1. CASE SaveAsAnswered \/ AnswerYes
    BY <2>1 DEF AfterSaving
  <2>2. CASE AnswerNo
    BY <1>0, <2>2 DEF AnswerNo, Drops
  <2>3. CASE ~(SaveAsAnswered \/ AnswerYes \/ AnswerNo)
    BY <1>1, <1>3, <2>3 DEF Dialogs, AnswerCancel, BinaryAnswered, MissingAnswered, StaleSaveAsAnswered, PickProject, CancelDialog, Choose, EditorDone, StaleEditorDone
  <2> QED BY <2>1, <2>2, <2>3
<1>4. CASE ContinueNew \/ ContinueClose
  <2>1. CASE ~result
    BY <1>1, <1>4, <2>1 DEF ContinueNew, ContinueClose
  <2>2. CASE result
    BY <1>0, <1>4, <2>2 DEF ContinueNew, ContinueClose, On, Guarded, StackInv, AskedInv
  <2> QED BY <2>1, <2>2
<1>5. CASE LoadsProject
  <2>1. stack # <<>> /\ Head(stack) = "openClosed"
    BY <1>5 DEF LoadsProject, LoadProjectFails, LoadProject, LoadProjectWithoutBinary, On
  <2> QED BY <1>0, <2>1, PopOK DEF StackInv, OpeningInv
<1>6. CASE ContinueOpen \/ ContinueOpenFile \/ ContinueReload \/ ContinueQuit \/ Disassembled
  BY <1>1, <1>6 DEF ContinueOpen, ContinueOpenFile, ContinueReload, ContinueQuit, Disassembled
<1>7. CASE OnLoadSuccess
  BY <1>0, <1>7 DEF OnLoadSuccess, AfterSaving
<1>8. CASE OnFailed \/ OnFinished \/ ShowsLoaded \/ LoadStartupFile
  BY <1>1, <1>8 DEF OnFailed, OnFinished, ShowsLoaded, ShowLoaded, LoadStartupFile, UIUnchanged
<1>9. CASE LoadsBinary \/ LoaderReports \/ LoaderEnds \/ ShowEvent
  BY <1>1, <1>9 DEF LoadsBinary, LoadBinary, LoaderReports, LoaderEnds, ShowEvent, UIUnchanged
<1> QED BY <1>2, <1>3, <1>4, <1>5, <1>6, <1>7, <1>8, <1>9 DEF Acts, Continue, Deliver

\* The inductive invariant for every user.
AnyUserInv == DataOK /\ StackInv /\ TagsAreNoticed /\ QuitsClean

\* The invariant for all users holds at first,
LEMMA AnyUserInit == Init => AnyUserInv
<1> SUFFICES ASSUME Init PROVE AnyUserInv
  OBVIOUS
<1>1. <<>> \in Queues /\ <<>> \in TimerLists
  BY DEF Queues, TimerLists
<1>2. DataOK
  BY <1>1, DataFacts DEF Init, DataOK
<1>3. StackInv /\ TagsAreNoticed /\ QuitsClean
  BY Empty DEF Init, StackInv, AskedInv, OpeningInv, TagsAreNoticed, QuitsClean
<1> QED BY <1>2, <1>3 DEF AnyUserInv

\* and every step keeps it.
LEMMA AnyUserNext == AnyUserInv /\ [Next]_vars => AnyUserInv'
<1> SUFFICES ASSUME AnyUserInv, [Next]_vars PROVE AnyUserInv'
  OBVIOUS
<1>1. CASE Next
  BY <1>1, DataStep, StackStep, NoticedStep DEF Next, Same, AnyUserInv
<1>2. CASE UNCHANGED vars
  <2>1. DataOK'
    BY <1>2 DEF vars, AnyUserInv, DataOK
  <2>2. StackInv'
    BY <1>2 DEF vars, AnyUserInv, StackInv, AskedInv, OpeningInv, Tidy
  <2>3. TagsAreNoticed' /\ QuitsClean'
    BY <1>2 DEF vars, AnyUserInv, TagsAreNoticed, QuitsClean
  <2> QED BY <2>1, <2>2, <2>3 DEF AnyUserInv
<1> QED BY <1>1, <1>2

\* The inductive invariant for every user: types, stack, tags and flag.
THEOREM AnyUserInvariant == Spec => []AnyUserInv
<1> QED BY AnyUserInit, AnyUserNext, PTL DEF Spec

\* Type correctness of the main window's state.
THEOREM SessionTyped == Spec => []TypeOK
<1>1. AnyUserInv => TypeOK
  BY DEF AnyUserInv, DataOK, StackInv, WellStacked, Frames, TypeOK, Projects, Loaders, Queues, Events, TimerLists
<1> QED BY <1>1, AnyUserInvariant, PTL

\* Changed tags of a project that MainWindow listens to set its "modified",
\* whatever dialogs, loads and timers interleave.
THEOREM TagsNoticed == Spec => []TagsAreNoticed
<1>1. AnyUserInv => TagsAreNoticed
  BY DEF AnyUserInv
<1> QED BY <1>1, AnyUserInvariant, PTL

\* closeEvent never accepts while such tags are neither saved nor given up.
THEOREM QuitClean == Spec => []QuitsClean
<1>1. AnyUserInv => QuitsClean
  BY DEF AnyUserInv
<1> QED BY <1>1, AnyUserInvariant, PTL

\* They are dropped only by saving, by the No of checkSave, or by a load that
\* replaces a project without a file.
THEOREM TagsNotDropped == Spec => TagsAreNotDropped
<1>1. AnyUserInv /\ [Next]_vars => [Drops => AfterSaving]_vars
  BY DropsStep DEF AnyUserInv, Next, Same
<1>2. [Drops => AfterSaving]_vars =>
       [tags = "changed" /\ project.hooked /\ tags' = "saved" =>
          \/ SaveProject \/ SaveAsAnswered \/ AnswerYes
          \/ OnLoadSuccess /\ ~IsNamed(project)]_vars
  BY DEF Drops, AfterSaving
<1> QED BY <1>1, <1>2, AnyUserInvariant, PTL DEF Spec, TagsAreNotDropped

-----------------------------------------------------------------------------
(***************************************************************************)
(* Users without a habit                                                   *)
(***************************************************************************)

Alone == Guarded \union {"openClosed", "saveAs", "pickProject", "pickBinary", "missing", "editor", "choose", "disassemble", "askBinary"}

\* The stacks that users with no habits bring about.
CarefulStack ==
  \/ stack = <<>>
  \/ \E f \in Alone : stack = <<f>>
  \/ \E d \in {"ask", "saveAs"} : \E f \in Guarded : stack = <<d, f>>
  \/ stack = <<"close", "openClosed">> /\ result
  \/ stack = <<"ask", "close", "openClosed">>

Top == IF stack = <<>> THEN "window" ELSE Head(stack)
Quiet == timers = <<>> /\ stack = <<>>
Found(e) == e.event \in {"success", "failed"}

\* How far the load is, and what of it is still to be delivered.
LoaderInv ==
  \/ loader = NoLoader /\ queue = <<>>
  \/ loader.state = "running" /\ queue = <<>> /\ Quiet
  \/ loader.state = "reported" /\ queue = <<>>
  \/ loader.state = "reported" /\ Quiet /\ \E e \in Events : queue = <<e>> /\ Found(e)
  \/ loader.state = "ended" /\ \E f \in Events : queue = <<f>> /\ f.event = "finished"
  \/ loader.state = "ended" /\ Quiet
       /\ \E e, f \in Events : queue = <<e, f>> /\ Found(e) /\ f.event = "finished"

TimersInv ==
  /\ timers = <<>> \/ (timers = <<"current">> /\ stack = <<>>)
  /\ loader # NoLoader => Top \in {"window", "choose", "disassemble"}

Showing == timers # <<>> \/ Top \in {"choose", "disassemble"}

\* The flags and widgets, by what is on top of the stack.
WindowInv ==
  /\ actions \/ modified \/ binaryModified \/ widget # "none" \/ Showing => project # NoProject
  /\ actions \/ modified \/ widget # "none" \/ Showing => project.binary = format
  /\ widget = "stale" => Showing
  /\ Top \in {"new", "reload", "ask", "saveAs", "askBinary", "editor"} \/ stack = <<"close">> => project # NoProject
  /\ Top \in {"openClosed", "missing"} => ~actions /\ ~modified /\ ~binaryModified /\ widget = "none"

CarefulState == CarefulStack /\ LoaderInv /\ TimersInv /\ WindowInv
Idle == loader = NoLoader /\ queue = <<>> /\ timers = <<>>

\* The rest of a sequence, element by element.
LEMMA TailIs ==
  ASSUME NEW S, NEW s \in Seq(S), NEW t \in Seq(S), Len(s) = Len(t) + 1,
         \A i \in 1..Len(t) : s[i + 1] = t[i]
  PROVE  Tail(s) = t
<1>1. s # <<>>
  OBVIOUS
<1>2. Tail(s) \in Seq(S) /\ Len(Tail(s)) = Len(t)
  BY <1>1
<1>3. \A i \in 1..Len(t) : Tail(s)[i] = t[i]
  BY <1>1, <1>2
<1> QED BY <1>2, <1>3, SeqEqual

\* One more element at the end.
LEMMA ConcatIs ==
  ASSUME NEW S, NEW s \in Seq(S), NEW e \in S, NEW t \in Seq(S), Len(t) = Len(s) + 1,
         \A i \in 1..Len(s) : t[i] = s[i], t[Len(s) + 1] = e
  PROVE  s \o <<e>> = t /\ Append(s, e) = t
<1>1. Append(s, e) \in Seq(S) /\ Len(Append(s, e)) = Len(t)
  OBVIOUS
<1>2. \A i \in 1..Len(t) : Append(s, e)[i] = t[i]
  OBVIOUS
<1>3. Append(s, e) = t
  BY <1>1, <1>2, SeqEqual
<1> QED BY <1>3, AppendIsConcat

\* Stacks, queues and timers of one element,
LEMMA OneFrame ==
  ASSUME NEW a
  PROVE  /\ <<a>> # <<>> /\ Head(<<a>>) = a /\ Tail(<<a>>) = <<>>
         /\ <<a>> \o <<>> = <<a>> /\ Append(<<>>, a) = <<a>>
OBVIOUS

\* of two,
LEMMA TwoFrames ==
  ASSUME NEW a, NEW b
  PROVE  /\ <<a, b>> # <<>> /\ Head(<<a, b>>) = a /\ Tail(<<a, b>>) = <<b>>
         /\ <<a, b>> \o <<>> = <<a, b>> /\ <<a>> \o <<b>> = <<a, b>> /\ Append(<<a>>, b) = <<a, b>>
         /\ \A c : <<a, b>> # <<c>>
<1> DEFINE S == {a, b}
<1> DEFINE s == <<a, b>>
<1> DEFINE t == <<a>>
<1> DEFINE u == <<b>>
<1>1. s \in Seq(S) /\ t \in Seq(S) /\ u \in Seq(S) /\ b \in S /\ Len(s) = 2 /\ Len(t) = 1 /\ Len(u) = 1
  OBVIOUS
<1>2. s[1] = a /\ s[2] = b /\ t[1] = a /\ u[1] = b
  OBVIOUS
<1>3. s # <<>> /\ Head(s) = a /\ s \o <<>> = s /\ \A c : Len(<<c>>) = 1
  OBVIOUS
<1> HIDE DEF s, t, u, S
<1>4. \A i \in 1..Len(u) : s[i + 1] = u[i]
  <2> SUFFICES ASSUME NEW i \in 1..1 PROVE s[i + 1] = u[i]
    BY <1>1
  <2>1. i = 1 /\ i + 1 = 2
    OBVIOUS
  <2> QED BY <1>2, <2>1
<1>5. Tail(s) = u
  <2>1. Len(s) = Len(u) + 1
    BY <1>1
  <2> QED BY <1>1, <1>4, <2>1, TailIs
<1>6. \A i \in 1..Len(t) : s[i] = t[i]
  <2> SUFFICES ASSUME NEW i \in 1..1 PROVE s[i] = t[i]
    BY <1>1
  <2>1. i = 1
    OBVIOUS
  <2> QED BY <1>2, <2>1
<1>7. t \o <<b>> = s /\ Append(t, b) = s
  <2>1. Len(s) = Len(t) + 1 /\ s[Len(t) + 1] = b
    BY <1>1, <1>2
  <2> QED BY <1>1, <1>6, <2>1, ConcatIs
<1> QED BY <1>1, <1>3, <1>5, <1>7 DEF s, t, u

\* and of three.
LEMMA ThreeFrames ==
  ASSUME NEW a, NEW b, NEW c
  PROVE  /\ <<a, b, c>> # <<>> /\ Head(<<a, b, c>>) = a /\ Tail(<<a, b, c>>) = <<b, c>>
         /\ <<a, b>> \o <<c>> = <<a, b, c>>
<1> DEFINE S == {a, b, c}
<1> DEFINE s == <<a, b, c>>
<1> DEFINE t == <<a, b>>
<1> DEFINE u == <<b, c>>
<1>1. s \in Seq(S) /\ t \in Seq(S) /\ u \in Seq(S) /\ c \in S /\ Len(s) = 3 /\ Len(t) = 2 /\ Len(u) = 2
  OBVIOUS
<1>2. s[1] = a /\ s[2] = b /\ s[3] = c /\ t[1] = a /\ t[2] = b /\ u[1] = b /\ u[2] = c
  OBVIOUS
<1>3. s # <<>> /\ Head(s) = a
  OBVIOUS
<1> HIDE DEF s, t, u, S
<1>4. \A i \in 1..Len(u) : s[i + 1] = u[i]
  <2> SUFFICES ASSUME NEW i \in 1..2 PROVE s[i + 1] = u[i]
    BY <1>1
  <2>1. (i = 1 /\ i + 1 = 2) \/ (i = 2 /\ i + 1 = 3)
    OBVIOUS
  <2> QED BY <1>2, <2>1
<1>5. Tail(s) = u
  <2>1. Len(s) = Len(u) + 1
    BY <1>1
  <2> QED BY <1>1, <1>4, <2>1, TailIs
<1>6. \A i \in 1..Len(t) : s[i] = t[i]
  <2> SUFFICES ASSUME NEW i \in 1..2 PROVE s[i] = t[i]
    BY <1>1
  <2>1. i = 1 \/ i = 2
    OBVIOUS
  <2> QED BY <1>2, <2>1
<1>7. t \o <<c>> = s
  <2>1. Len(s) = Len(t) + 1 /\ s[Len(t) + 1] = c
    BY <1>1, <1>2
  <2> QED BY <1>1, <1>6, <2>1, ConcatIs
<1> QED BY <1>3, <1>5, <1>7 DEF s, t, u
\* What dangles in the stacks that a load or a close can meet.
LEMMA AgedTuples ==
  /\ Aged(<<>>, OfProject) = <<>> /\ Aged(<<>>, OfFormat) = <<>>
  /\ Aged(<<"openClosed">>, OfProject) = <<"openClosed">>
BY DEF Aged, OfProject, OfFormat

\* Everything but a load needs the window to be idle.
LEMMA IdleUnlessLoading ==
  ASSUME CarefulState, user.habits = {}, Ready \/ (stack # <<>> /\ Head(stack) \notin {"choose", "disassemble"})
  PROVE  Idle
<1>1. CASE Ready
  BY <1>1 DEF CarefulState, LoaderInv, Ready, NoLoader, Idle
<1>2. CASE stack # <<>> /\ Head(stack) \notin {"choose", "disassemble"}
  <2>1. Head(stack) # "window"
    BY <1>2, OneFrame, TwoFrames, ThreeFrames DEF CarefulState, CarefulStack, Alone, Guarded
  <2>2. loader = NoLoader /\ timers = <<>>
    BY <1>2, <2>1 DEF CarefulState, TimersInv, Top
  <2> QED BY <2>2 DEF CarefulState, LoaderInv, NoLoader, Idle
<1> QED BY <1>1, <1>2

\* An idle window without a loader stays one,
LEMMA StaysIdle ==
  ASSUME Idle, UNCHANGED <<loader, queue, timers>>
  PROVE  LoaderInv' /\ TimersInv'
BY DEF Idle, LoaderInv, TimersInv

\* or starts a loader, which finds none in its way.
LEMMA Starts ==
  ASSUME Idle, NEW b, StartLoader(b), stack' = <<>>, UNCHANGED <<queue, timers>>
  PROVE  LoaderInv' /\ TimersInv' /\ over' = over
<1>1. ~LoaderBusy
  BY DEF Idle, LoaderBusy, NoLoader
<1>2. CASE UNCHANGED loader
  BY <1>1, <1>2, StaysIdle DEF StartLoader
<1>3. CASE loader' = [state |-> "running", file |-> b]
  BY <1>1, <1>3 DEF StartLoader, Idle, LoaderInv, TimersInv, Quiet, Top
<1> QED BY <1>1, <1>2, <1>3 DEF StartLoader

\* The stack after a call by way of checkSave.
LEMMA CarefulCall ==
  ASSUME NEW f \in Guarded, modified \in BOOLEAN
  PROVE  /\ CallCheckSave(f, <<>>) =>
              /\ stack' = IF modified THEN <<"ask", f>> ELSE <<f>>
              /\ CarefulStack' /\ Top' = IF modified THEN "ask" ELSE f
              /\ result' = TRUE
         /\ CallCheckSave("close", <<"openClosed">>) =>
              /\ stack' = IF modified THEN <<"ask", "close", "openClosed">> ELSE <<"close", "openClosed">>
              /\ CarefulStack' /\ Top' = IF modified THEN "ask" ELSE "close"
              /\ result' = TRUE
<1>1. ASSUME CallCheckSave(f, <<>>)
      PROVE  /\ stack' = IF modified THEN <<"ask", f>> ELSE <<f>>
             /\ CarefulStack' /\ Top' = IF modified THEN "ask" ELSE f
             /\ result' = TRUE
  <2>1. /\ stack' = IF modified THEN <<"ask", f>> ELSE <<f>>
        /\ result' = TRUE
    BY <1>1, OneFrame, TwoFrames, ThreeFrames DEF CallCheckSave
  <2> QED BY <2>1, OneFrame, TwoFrames, ThreeFrames DEF CarefulStack, Alone, Top
<1>2. ASSUME CallCheckSave("close", <<"openClosed">>)
      PROVE  /\ stack' = IF modified THEN <<"ask", "close", "openClosed">> ELSE <<"close", "openClosed">>
             /\ CarefulStack' /\ Top' = IF modified THEN "ask" ELSE "close"
             /\ result' = TRUE
  <2>1. /\ stack' = IF modified THEN <<"ask", "close", "openClosed">> ELSE <<"close", "openClosed">>
        /\ result' = TRUE
    BY <1>2, OneFrame, TwoFrames, ThreeFrames DEF CallCheckSave
  <2> QED BY <2>1, OneFrame, TwoFrames, ThreeFrames DEF CarefulStack, Top
<1> QED BY <1>1, <1>2

\* What is below, for each function and dialog on top.
LEMMA Below ==
  ASSUME CarefulStack, stack # <<>>
  PROVE  /\ Head(stack) \in Alone \union {"ask"}
         /\ Head(stack) \in Alone \ {"saveAs", "close"} => stack = <<Head(stack)>> /\ Tail(stack) = <<>>
         /\ Head(stack) = "saveAs" => Tail(stack) = <<>> \/ \E f \in Guarded : Tail(stack) = <<f>>
         /\ Head(stack) = "close" =>
              \/ stack = <<"close">> /\ Tail(stack) = <<>>
              \/ stack = <<"close", "openClosed">> /\ Tail(stack) = <<"openClosed">> /\ result
         /\ Head(stack) = "ask" =>
              \/ \E f \in Guarded : Tail(stack) = <<f>>
              \/ Tail(stack) = <<"close", "openClosed">> /\ Contains(stack, "openClosed")
<1>1. CASE \E f \in Alone : stack = <<f>>
  <2> PICK f \in Alone : stack = <<f>>
    BY <1>1
  <2>1. Head(stack) = f /\ Tail(stack) = <<>>
    BY OneFrame
  <2>2. f # "ask"
    BY DEF Alone, Guarded
  <2> QED BY <2>1, <2>2
<1>2. CASE \E d \in {"ask", "saveAs"} : \E f \in Guarded : stack = <<d, f>>
  <2> PICK d \in {"ask", "saveAs"}, f \in Guarded : stack = <<d, f>>
    BY <1>2
  <2>1. Head(stack) = d /\ Tail(stack) = <<f>>
    BY TwoFrames
  <2>2. d \in Alone \union {"ask"} /\ d \notin Alone \ {"saveAs", "close"} /\ d # "close"
    BY DEF Alone, Guarded
  <2> QED BY <2>1, <2>2
<1>3. CASE stack = <<"close", "openClosed">> /\ result
  BY <1>3, TwoFrames DEF Alone, Guarded
<1>4. CASE stack = <<"ask", "close", "openClosed">>
  <2>1. Len(stack) = 3 /\ stack[3] = "openClosed"
    BY <1>4
  <2>2. Contains(stack, "openClosed")
    BY <2>1 DEF Contains
  <2>3. Head(stack) = "ask" /\ Tail(stack) = <<"close", "openClosed">>
    BY <1>4, ThreeFrames
  <2> QED BY <2>2, <2>3 DEF Alone, Guarded
<1> QED BY <1>1, <1>2, <1>3, <1>4 DEF CarefulStack

\* A stack of one function or dialog is one of the few,
LEMMA CarefulOne ==
  ASSUME NEW f \in Alone, stack' = <<f>>
  PROVE  CarefulStack' /\ Top' = f /\ stack' # <<>>
BY OneFrame, TwoFrames, ThreeFrames DEF CarefulStack, Top

\* and so is none at all.
LEMMA CarefulNone ==
  ASSUME stack' = <<>>
  PROVE  CarefulStack' /\ Top' = "window"
BY DEF CarefulStack, Top

\* How a step leaves the window of a user without a habit.
Fine == over \in {"no", "quit"} /\ (over = "no" => CarefulState)
Before == DataOK /\ user.habits = {} /\ over = "no" /\ CarefulState

\* A menu is chosen: nothing else is going on.
LEMMA BeforeMenu ==
  ASSUME Before, Ready
  PROVE  /\ Idle /\ stack = <<>> /\ Top = "window" /\ ~Showing /\ WindowInv
         /\ modified \in BOOLEAN
<1>1. Idle /\ stack = <<>>
  BY IdleUnlessLoading DEF Before, Ready
<1>2. Top = "window" /\ ~Showing
  BY <1>1 DEF Top, Showing, Idle
<1> QED BY <1>1, <1>2 DEF Before, CarefulState, DataOK

\* A function or dialog that is alone runs: nothing else is going on, unless it
\* is the choice or the disassembly of a load.
LEMMA BeforeOne ==
  ASSUME Before, NEW f \in Alone \ {"saveAs", "close"}, On(f)
  PROVE  /\ stack = <<f>> /\ Tail(stack) = <<>> /\ stack # <<>> /\ Head(stack) = f /\ Top = f /\ WindowInv
         /\ f \notin {"choose", "disassemble"} => Idle /\ ~Showing
         /\ modified \in BOOLEAN /\ result \in BOOLEAN
<1>1. stack = <<f>> /\ Tail(stack) = <<>> /\ Top = f
  BY Below DEF Before, CarefulState, On, Top
<1>2. f \notin {"choose", "disassemble"} => Idle
  BY IdleUnlessLoading DEF Before, On
<1>3. f \notin {"choose", "disassemble"} => ~Showing
  BY <1>1, <1>2 DEF Showing, Idle
<1> QED BY <1>1, <1>2, <1>3 DEF Before, CarefulState, DataOK, On

\* The window stays idle: it is fine if the stack and the flags are.
LEMMA IdleFine ==
  ASSUME Idle, UNCHANGED <<loader, queue, timers>>, over' = "no", CarefulStack', WindowInv'
  PROVE  Fine'
BY StaysIdle DEF Fine, CarefulState

\* The flags that a step which does not touch them leaves as they were.
LEMMA SameWindow ==
  ASSUME WindowInv, ~Showing, UNCHANGED <<project, modified, binaryModified, actions, widget, format>>,
         timers' = <<>>, Top' \notin {"choose", "disassemble", "openClosed", "missing"},
         Top' \in {"new", "reload", "ask", "saveAs", "askBinary", "editor"} \/ stack' = <<"close">>
           => project # NoProject
  PROVE  WindowInv'
BY DEF WindowInv, Showing

\* Saving keeps the project and its binary.
LEMMA StoreKeeps ==
  ASSUME project \in Projects, project # NoProject, Store \/ UNCHANGED project
  PROVE  project' # NoProject /\ project'.binary = project.binary
<1>1. project \in [binary : Binary, saved : Binary \union {NoBinary}, hooked : BOOLEAN]
  BY DEF Projects
<1>2. project'.binary = project.binary
  BY <1>1 DEF Store
<1> QED BY <1>1, <1>2, SessionAssumption DEF NoProject

\* A menu entry that calls checkSave,
LEMMA MenuCall ==
  ASSUME Before, Ready, NEW f \in Guarded, CallCheckSave(f, <<>>),
         f \in {"new", "close", "reload"} => actions,
         UNCHANGED <<project, tags, modified, binaryModified, actions, widget, loader, over>>, RestUnchanged
  PROVE  Fine'
<1>1. Idle /\ ~Showing /\ WindowInv /\ modified \in BOOLEAN
  BY BeforeMenu
<1>2. /\ stack' = IF modified THEN <<"ask", f>> ELSE <<f>>
      /\ CarefulStack' /\ Top' = IF modified THEN "ask" ELSE f
  BY <1>1, CarefulCall
<1>3. modified \/ actions => project # NoProject
  BY <1>1 DEF WindowInv
<1>4. stack' = <<"close">> => modified \/ f = "close"
  BY <1>2, OneFrame
<1>5. Top' \notin {"choose", "disassemble", "openClosed", "missing", "saveAs", "askBinary", "editor"}
  BY <1>2 DEF Guarded
<1>6. timers' = <<>> /\ UNCHANGED <<loader, queue, timers, format>> /\ over' = "no"
  BY <1>1 DEF RestUnchanged, Idle, Before
<1>7. Top' \in {"new", "reload", "ask", "saveAs", "askBinary", "editor"} \/ stack' = <<"close">> => project # NoProject
  <2>1. CASE modified
    BY <1>3, <2>1
  <2>2. CASE ~modified
    <3>1. Top' = f /\ (stack' = <<"close">> => f = "close")
      BY <1>2, <1>4, <2>2
    <3> QED BY <1>3, <1>5, <3>1 DEF Guarded
  <2> QED BY <2>1, <2>2
<1>8. WindowInv'
  BY <1>1, <1>5, <1>6, <1>7, SameWindow
<1> QED BY <1>1, <1>2, <1>6, <1>8, IdleFine

\* The project to open is known: the present one is closed first.
LEMMA OpensFine ==
  ASSUME Idle, ~Showing, WindowInv, modified \in BOOLEAN, over' = "no", CallCheckSave("close", <<"openClosed">>),
         UNCHANGED <<project, modified, binaryModified, actions, widget, loader, format, queue, timers>>
  PROVE  Fine'
<1>1. /\ stack' = IF modified THEN <<"ask", "close", "openClosed">> ELSE <<"close", "openClosed">>
      /\ CarefulStack' /\ Top' = IF modified THEN "ask" ELSE "close"
  BY CarefulCall DEF Guarded
<1>2. stack' # <<"close">>
  <2>1. CASE modified
    BY <1>1, <2>1, ThreeFrames, OneFrame
  <2>2. CASE ~modified
    BY <1>1, <2>2, TwoFrames
  <2> QED BY <2>1, <2>2
<1>3. modified => project # NoProject
  BY DEF WindowInv
<1>4. WindowInv'
  BY <1>1, <1>2, <1>3, SameWindow DEF Idle
<1> QED BY <1>1, <1>4, IdleFine

\* A function returns to the window, or a loader starts from it.
LEMMA BackFine ==
  ASSUME Idle, ~Showing, WindowInv, over' = "no", stack' = <<>>,
         UNCHANGED <<project, modified, binaryModified, actions, widget, loader, format, queue, timers>>
  PROVE  Fine'
<1>1. CarefulStack' /\ Top' = "window" /\ stack' # <<"close">>
  BY CarefulNone, OneFrame
<1>2. WindowInv'
  BY <1>1, SameWindow DEF Idle
<1> QED BY <1>1, <1>2, IdleFine

\* A function returns to the window and a loader may start.
LEMMA StartFine ==
  ASSUME Idle, ~Showing, WindowInv, over = "no", stack' = <<>>, NEW b, StartLoader(b),
         UNCHANGED <<project, modified, binaryModified, actions, widget, format, queue, timers>>
  PROVE  Fine'
<1>1. LoaderInv' /\ TimersInv' /\ over' = over
  BY Starts
<1>2. CarefulStack' /\ Top' = "window" /\ stack' # <<"close">>
  BY CarefulNone, OneFrame
<1>3. WindowInv'
  BY <1>2, SameWindow DEF Idle
<1> QED BY <1>1, <1>2, <1>3 DEF Fine, CarefulState

\* A project with a file takes the binary that was loaded.
LEMMA ProjectOfFile ==
  ASSUME NEW p \in Projects, IsNamed(p), NEW f
  PROVE  [p EXCEPT !.binary = f].binary = f
BY DEF Projects, IsNamed, NoProject

\* Menu entries,
LEMMA MenuFine ==
  ASSUME Before, Menu, UNCHANGED user
  PROVE  Fine'
<1>1. CASE NewProject
  BY <1>1, MenuCall DEF NewProject, Guarded
<1>2. CASE OpenProject
  BY <1>2, MenuCall DEF OpenProject, Guarded
<1>3. CASE CloseProject
  BY <1>3, MenuCall DEF CloseProject, Guarded
<1>4. CASE ReloadBinary
  BY <1>4, MenuCall DEF ReloadBinary, Guarded
<1>5. CASE Quit
  BY <1>5, MenuCall DEF Quit, Guarded
<1>6. CASE OpenBinary
  <2>1. stack' = <<"pickBinary">> /\ Ready /\ over' = "no"
    BY <1>6 DEF OpenBinary, Before
  <2>2. Idle /\ ~Showing /\ WindowInv
    BY <2>1, BeforeMenu
  <2>3. CarefulStack' /\ Top' = "pickBinary" /\ stack' # <<"close">>
    BY <2>1, CarefulOne, OneFrame DEF Alone
  <2>4. WindowInv'
    BY <1>6, <2>2, <2>3, SameWindow DEF OpenBinary, RestUnchanged, Idle
  <2> QED BY <1>6, <2>1, <2>2, <2>3, <2>4, IdleFine DEF OpenBinary, RestUnchanged
<1>7. CASE SaveProject
  <2>1. Ready /\ actions /\ UNCHANGED <<binaryModified, actions, widget, loader, format, queue, timers>>
    BY <1>7 DEF SaveProject, RestUnchanged
  <2>2. Idle /\ ~Showing /\ WindowInv /\ stack = <<>>
    BY <2>1, BeforeMenu
  <2>3. project # NoProject /\ project.binary = format /\ project \in Projects
    BY <2>1, <2>2 DEF WindowInv, Before, DataOK
  <2>4. /\ over' = "no"
        /\ \/ stack' = <<"saveAs">> /\ UNCHANGED <<project, modified>>
           \/ stack' = <<>> /\ Store
    BY <1>7, <2>3, OneFrame DEF SaveProject, CallSaveProject, Before
  <2>5. project' # NoProject /\ project'.binary = format
    BY <2>3, <2>4, StoreKeeps
  <2>6. CarefulStack' /\ Top' \in {"saveAs", "window"} /\ stack' # <<"close">>
    BY <2>4, CarefulOne, CarefulNone, OneFrame DEF Alone
  <2>7. WindowInv'
    BY <2>1, <2>2, <2>5, <2>6 DEF WindowInv, Showing
  <2> QED BY <2>1, <2>2, <2>4, <2>6, <2>7, IdleFine
<1>8. CASE SaveBinary
  <2>1. Ready /\ binaryModified /\ UNCHANGED <<project, modified, actions, widget, loader, stack, format, queue, timers>>
    BY <1>8 DEF SaveBinary, RestUnchanged
  <2>2. Idle /\ ~Showing /\ WindowInv /\ stack = <<>> /\ Top = "window"
    BY <2>1, BeforeMenu
  <2>3. project # NoProject
    BY <2>1, <2>2 DEF WindowInv
  <2>4. over' = "no" /\ binaryModified' \in {FALSE, binaryModified}
    BY <1>8, <2>3 DEF SaveBinary, CallSaveBinary, Before
  <2>5. CarefulStack' /\ Top' = "window" /\ stack' # <<"close">>
    BY <2>1, <2>2, CarefulNone, OneFrame
  <2>6. WindowInv'
    BY <2>1, <2>2, <2>3, <2>4, <2>5 DEF WindowInv, Showing
  <2> QED BY <2>1, <2>2, <2>4, <2>5, <2>6, IdleFine
<1>9. CASE EditTags
  <2>1. Ready /\ widget # "none" /\ UNCHANGED <<project, binaryModified, actions, widget, loader, stack, format, queue, timers>>
    BY <1>9 DEF EditTags, RestUnchanged
  <2>2. Idle /\ ~Showing /\ WindowInv /\ stack = <<>> /\ Top = "window"
    BY <2>1, BeforeMenu
  <2>3. project # NoProject /\ project.binary = format
    BY <2>1, <2>2 DEF WindowInv
  <2>4. over' = "no"
    BY <1>9, <2>3 DEF EditTags, Before
  <2>5. CarefulStack' /\ Top' = "window" /\ stack' # <<"close">>
    BY <2>1, <2>2, CarefulNone, OneFrame
  <2>6. WindowInv'
    BY <2>1, <2>2, <2>3, <2>5 DEF WindowInv, Showing
  <2> QED BY <2>1, <2>2, <2>4, <2>5, <2>6, IdleFine
<1>10. CASE OpenEditor
  <2>1. Ready /\ widget # "none" /\ UNCHANGED <<project, modified, binaryModified, actions, widget, loader, format, queue, timers>>
    BY <1>10 DEF OpenEditor, RestUnchanged
  <2>2. Idle /\ ~Showing /\ WindowInv
    BY <2>1, BeforeMenu
  <2>3. project # NoProject /\ widget # "stale"
    BY <2>1, <2>2 DEF WindowInv
  <2>4. stack' = <<"editor">> /\ over' = "no"
    BY <1>10, <2>3 DEF OpenEditor, Before
  <2>5. CarefulStack' /\ Top' = "editor"
    BY <2>4, CarefulOne DEF Alone
  <2>6. WindowInv'
    BY <2>1, <2>2, <2>3, <2>5, SameWindow DEF Idle
  <2> QED BY <2>1, <2>2, <2>4, <2>5, <2>6, IdleFine
<1> QED BY <1>1, <1>2, <1>3, <1>4, <1>5, <1>6, <1>7, <1>8, <1>9, <1>10 DEF Menu

\* the answers to dialogs,
LEMMA DialogsFine ==
  ASSUME Before, Dialogs, UNCHANGED user
  PROVE  Fine'
<1>1. CASE AnswerYes
  <2>1. stack # <<>> /\ Head(stack) = "ask" /\ ~Contains(stack, "openClosed") /\ Top = "ask"
    BY <1>1 DEF AnswerYes, On, Before, Top
  <2>2. PICK f \in Guarded : Tail(stack) = <<f>>
    BY <2>1, Below DEF Before, CarefulState
  <2>3. Idle /\ ~Showing /\ WindowInv
    BY <2>1, IdleUnlessLoading DEF Before, CarefulState, Showing, Idle
  <2>4. project # NoProject /\ project \in Projects
    BY <2>1, <2>3 DEF WindowInv, Before, DataOK
  <2>5. /\ over' = "no" /\ UNCHANGED <<binaryModified, actions, widget, loader, format, queue, timers>>
        /\ \/ stack' = <<"saveAs">> \o <<f>> /\ UNCHANGED <<project, modified>>
           \/ stack' = <<f>> /\ Store
    BY <1>1, <2>2, <2>4 DEF AnswerYes, CallSaveProject, RestUnchanged, Before
  <2>6. project' # NoProject /\ project'.binary = project.binary /\ (modified' => modified)
    <3>1. project' # NoProject /\ project'.binary = project.binary
      BY <2>4, <2>5, StoreKeeps
    <3>2. modified' => modified
      BY <2>5, Zenon DEF Store
    <3> QED BY <3>1, <3>2
  <2>7. CarefulStack' /\ Top' \in {"saveAs", f}
    BY <2>5, TwoFrames, OneFrame DEF CarefulStack, Alone, Top
  <2>8. WindowInv'
    <3>1. ~Showing' /\ Top' \notin {"openClosed", "missing"}
      BY <2>3, <2>5, <2>7 DEF Showing, Idle, Guarded
    <3> QED BY <2>3, <2>5, <2>6, <3>1 DEF WindowInv
  <2> QED BY <2>3, <2>5, <2>7, <2>8, IdleFine
<1>2. CASE AnswerNo \/ AnswerCancel
  <2>1. /\ stack # <<>> /\ Head(stack) = "ask" /\ Top = "ask" /\ stack' = Tail(stack) /\ over' = "no"
        /\ UNCHANGED <<project, modified, binaryModified, actions, widget, loader, format, queue, timers>>
        /\ result' = TRUE \/ ~Contains(stack, "openClosed")
    BY <1>2 DEF AnswerNo, AnswerCancel, On, Before, Top, RestUnchanged, Return
  <2>2. Idle /\ ~Showing /\ WindowInv
    BY <2>1, IdleUnlessLoading DEF Before, CarefulState, Showing, Idle
  <2>3. project # NoProject
    BY <2>1, <2>2 DEF WindowInv
  <2>4. CASE \E f \in Guarded : Tail(stack) = <<f>>
    <3>1. PICK f \in Guarded : stack' = <<f>>
      BY <2>1, <2>4
    <3>2. CarefulStack' /\ Top' = f
      BY <3>1, CarefulOne DEF Alone
    <3>3. WindowInv'
      BY <2>1, <2>2, <2>3, <3>2, SameWindow DEF Guarded, Idle
    <3> QED BY <2>1, <2>2, <3>2, <3>3, IdleFine
  <2>5. CASE Tail(stack) = <<"close", "openClosed">> /\ Contains(stack, "openClosed")
    <3>1. CarefulStack' /\ Top' = "close"
      BY <2>1, <2>5, TwoFrames DEF CarefulStack, Top
    <3>2. WindowInv'
      BY <2>1, <2>2, <2>3, <3>1, SameWindow DEF Idle
    <3> QED BY <2>1, <2>2, <3>1, <3>2, IdleFine
  <2> QED BY <2>1, <2>4, <2>5, Below DEF Before, CarefulState
<1>3. CASE BinaryAnswered
  <2>1. On("askBinary") /\ stack' = Tail(stack) /\ UNCHANGED <<project, modified, actions, widget, format, queue, timers>>
    BY <1>3 DEF BinaryAnswered, Return, RestUnchanged
  <2>2. stack' = <<>> /\ Top = "askBinary" /\ WindowInv /\ Idle /\ ~Showing
    BY <2>1, BeforeOne DEF Alone
  <2>3. project # NoProject
    BY <2>2 DEF WindowInv
  <2>4. /\ UNCHANGED <<loader, over>> \/ StartLoader(project.binary)
        /\ binaryModified' \in {FALSE, binaryModified}
    BY <1>3, <2>3 DEF BinaryAnswered, Reload
  <2>5. LoaderInv' /\ TimersInv' /\ over' = over
    BY <2>1, <2>2, <2>4, Starts, StaysIdle
  <2>6. CarefulStack' /\ Top' = "window" /\ stack' # <<"close">>
    BY <2>2, CarefulNone, OneFrame
  <2>7. WindowInv'
    BY <2>1, <2>2, <2>3, <2>4, <2>6 DEF WindowInv, Showing, Idle
  <2> QED BY <2>5, <2>6, <2>7 DEF Fine, CarefulState, Before
<1>4. CASE MissingAnswered
  <2>1. /\ On("missing") /\ over' = "no"
        /\ UNCHANGED <<project, modified, binaryModified, actions, widget, loader, format, queue, timers>>
    BY <1>4 DEF MissingAnswered, RestUnchanged, Before
  <2>2. Tail(stack) = <<>> /\ Top = "missing" /\ WindowInv /\ Idle /\ ~Showing /\ modified \in BOOLEAN
    BY <2>1, BeforeOne DEF Alone
  <2>3. ~modified
    BY <2>2 DEF WindowInv
  <2>4. CASE CallCheckSave("open", Tail(stack))
    <3>1. stack' = <<"open">>
      BY <2>2, <2>3, <2>4, CarefulCall DEF Guarded
    <3>2. CarefulStack' /\ Top' = "open" /\ stack' # <<"close">>
      BY <3>1, CarefulOne, OneFrame DEF Alone, Guarded
    <3>3. WindowInv'
      BY <2>1, <2>2, <3>2, SameWindow DEF Idle
    <3> QED BY <2>1, <2>2, <3>2, <3>3, IdleFine
  <2>5. CASE Becomes("pickBinary")
    <3>1. stack' = <<"pickBinary">>
      BY <2>2, <2>5, OneFrame DEF Becomes
    <3>2. CarefulStack' /\ Top' = "pickBinary" /\ stack' # <<"close">>
      BY <3>1, CarefulOne, OneFrame DEF Alone, Guarded
    <3>3. WindowInv'
      BY <2>1, <2>2, <3>2, SameWindow DEF Idle
    <3> QED BY <2>1, <2>2, <3>2, <3>3, IdleFine
  <2>6. CASE Return
    <3>1. stack' = <<>>
      BY <2>2, <2>6 DEF Return
    <3>2. CarefulStack' /\ Top' = "window" /\ stack' # <<"close">>
      BY <3>1, CarefulNone, OneFrame
    <3>3. WindowInv'
      BY <2>1, <2>2, <3>2, SameWindow DEF Idle
    <3> QED BY <2>1, <2>2, <3>2, <3>3, IdleFine
  <2> QED BY <1>4, <2>4, <2>5, <2>6 DEF MissingAnswered
<1>5. CASE SaveAsAnswered
  <2>1. /\ stack # <<>> /\ Head(stack) = "saveAs" /\ Top = "saveAs" /\ stack' = Tail(stack) /\ over' = "no"
        /\ UNCHANGED <<binaryModified, actions, widget, loader, format, queue, timers>>
        /\ Store \/ UNCHANGED <<project, modified>>
    BY <1>5 DEF SaveAsAnswered, On, Before, Top, RestUnchanged, Return
  <2>2. Idle /\ ~Showing /\ WindowInv
    BY <2>1, IdleUnlessLoading DEF Before, CarefulState, Showing, Idle
  <2>3. project # NoProject /\ project \in Projects
    BY <2>1, <2>2 DEF WindowInv, Before, DataOK
  <2>4. project' # NoProject /\ project'.binary = project.binary /\ (modified' => modified)
    <3>1. project' # NoProject /\ project'.binary = project.binary
      BY <2>1, <2>3, StoreKeeps
    <3>2. modified' => modified
      BY <2>1, Zenon DEF Store
    <3> QED BY <3>1, <3>2
  <2>5. CarefulStack' /\ Top' \in Guarded \union {"window"}
    <3>1. Tail(stack) = <<>> \/ \E f \in Guarded : Tail(stack) = <<f>>
      BY <2>1, Below DEF Before, CarefulState
    <3> QED BY <2>1, <3>1, CarefulNone, CarefulOne DEF Alone
  <2>6. WindowInv'
    <3>1. ~Showing' /\ Top' \notin {"openClosed", "missing"}
      BY <2>1, <2>2, <2>5 DEF Showing, Idle, Guarded
    <3> QED BY <2>1, <2>2, <2>4, <3>1 DEF WindowInv
  <2> QED BY <2>1, <2>2, <2>5, <2>6, IdleFine
<1>6. CASE PickProject
  <2>1. /\ On("pickProject") /\ over' = "no" /\ CallCheckSave("close", <<"openClosed">> \o Tail(stack))
        /\ UNCHANGED <<project, modified, binaryModified, actions, widget, loader, format, queue, timers>>
    BY <1>6 DEF PickProject, CloseFirst, RestUnchanged, Before
  <2>2. Tail(stack) = <<>> /\ WindowInv /\ Idle /\ ~Showing /\ modified \in BOOLEAN
    BY <2>1, BeforeOne DEF Alone
  <2> QED BY <2>1, <2>2, OneFrame, OpensFine
<1>7. CASE CancelDialog
  <2>1. \E f \in {"pickProject", "pickBinary", "editor"} : On(f)
    BY <1>7 DEF CancelDialog, Before
  <2>2. Tail(stack) = <<>> /\ WindowInv /\ Idle /\ ~Showing
    BY <2>1, BeforeOne DEF Alone
  <2>3. /\ stack' = <<>> /\ over' = "no"
        /\ UNCHANGED <<project, modified, binaryModified, actions, widget, loader, format, queue, timers>>
    BY <1>7, <2>2 DEF CancelDialog, Return, RestUnchanged, Before
  <2>4. CarefulStack' /\ Top' = "window" /\ stack' # <<"close">>
    BY <2>3, CarefulNone, OneFrame
  <2>5. WindowInv'
    BY <2>2, <2>3, <2>4, SameWindow DEF Idle
  <2> QED BY <2>2, <2>3, <2>4, <2>5, IdleFine
<1>8. CASE EditorDone
  <2>1. /\ On("editor") /\ stack' = Tail(stack)
        /\ UNCHANGED <<project, modified, actions, widget, loader, format, queue, timers>>
    BY <1>8 DEF EditorDone, Return, RestUnchanged
  <2>2. stack' = <<>> /\ Top = "editor" /\ WindowInv /\ Idle /\ ~Showing
    BY <2>1, BeforeOne DEF Alone
  <2>3. project # NoProject
    BY <2>2 DEF WindowInv
  <2>4. over' = "no"
    BY <1>8, <2>3 DEF EditorDone, Before
  <2>5. CarefulStack' /\ Top' = "window" /\ stack' # <<"close">>
    BY <2>2, CarefulNone, OneFrame
  <2>6. WindowInv'
    BY <2>1, <2>2, <2>3, <2>5 DEF WindowInv, Showing, Idle
  <2> QED BY <2>1, <2>2, <2>4, <2>5, <2>6, IdleFine
<1>9. CASE StaleSaveAsAnswered \/ StaleEditorDone
  <2>1. \E f \in {"staleSaveAs", "staleEditor"} : stack # <<>> /\ Head(stack) = f
    BY <1>9 DEF StaleSaveAsAnswered, StaleEditorDone, On
  <2> QED BY <2>1, Below DEF Before, CarefulState, Alone, Guarded
<1>10. CASE Choose
  <2>1. stack # <<>> /\ Head(stack) # "chooseOld"
    BY <1>10, Below DEF Choose, On, Before, CarefulState, Alone, Guarded
  <2>2. On("choose") /\ Show("current", Tail(stack)) /\ UNCHANGED <<project, modified, actions, widget, loader, format, queue, timers>>
    BY <1>10, <2>1 DEF Choose, On, RestUnchanged
  <2>3. Tail(stack) = <<>> /\ Top = "choose" /\ WindowInv /\ stack # <<>>
    BY <2>2, BeforeOne DEF Alone
  <2>4. project # NoProject /\ project.binary = format
    BY <2>3 DEF WindowInv, Showing
  <2>5. stack' = <<"disassemble">> /\ over' = "no"
    BY <2>2, <2>3, <2>4, OneFrame DEF Show, Before
  <2>6. CarefulStack' /\ Top' = "disassemble" /\ stack' # <<"close">>
    BY <2>5, CarefulOne, OneFrame DEF Alone
  <2>7. WindowInv'
    BY <2>2, <2>3, <2>4, <2>6 DEF WindowInv, Showing
  <2>8. LoaderInv' /\ TimersInv'
    BY <2>2, <2>3, <2>6 DEF Before, CarefulState, LoaderInv, TimersInv, Quiet
  <2> QED BY <2>5, <2>6, <2>7, <2>8 DEF Fine, CarefulState
<1> QED BY <1>1, <1>2, <1>3, <1>4, <1>5, <1>6, <1>7, <1>8, <1>9, <1>10 DEF Dialogs

\* functions that go on,
LEMMA ContinueFine ==
  ASSUME Before, Continue, UNCHANGED user
  PROVE  Fine'
<1>1. CASE ContinueNew
  <2>1. On("new") /\ over' = "no" /\ UNCHANGED <<loader, format, queue, timers>>
    BY <1>1 DEF ContinueNew, RestUnchanged, Before
  <2>2. Tail(stack) = <<>> /\ Top = "new" /\ WindowInv /\ Idle /\ ~Showing /\ result \in BOOLEAN
    BY <2>1, BeforeOne DEF Alone, Guarded
  <2>3. CASE result
    <3>1. stack' = <<"pickBinary">> /\ Close
      BY <1>1, <2>2, <2>3, OneFrame DEF ContinueNew, Becomes
    <3>2. CarefulStack' /\ Top' = "pickBinary" /\ stack' # <<"close">>
      BY <3>1, CarefulOne, OneFrame DEF Alone
    <3>3. WindowInv'
      BY <2>1, <2>2, <3>1, <3>2 DEF Close, WindowInv, Showing, Idle
    <3> QED BY <2>1, <2>2, <3>2, <3>3, IdleFine
  <2>4. CASE ~result
    <3>1. stack' = <<>> /\ UNCHANGED <<project, modified, binaryModified, actions, widget>>
      BY <1>1, <2>2, <2>4 DEF ContinueNew, Return
    <3> QED BY <2>1, <2>2, <3>1, BackFine
  <2> QED BY <2>2, <2>3, <2>4
<1>2. CASE ContinueOpen
  <2>1. /\ On("open") /\ over' = "no"
        /\ UNCHANGED <<project, modified, binaryModified, actions, widget, loader, format, queue, timers>>
    BY <1>2 DEF ContinueOpen, RestUnchanged, Before
  <2>2. Tail(stack) = <<>> /\ Top = "open" /\ WindowInv /\ Idle /\ ~Showing /\ result \in BOOLEAN
    BY <2>1, BeforeOne DEF Alone, Guarded
  <2>3. CASE result
    <3>1. stack' = <<"pickProject">>
      BY <1>2, <2>2, <2>3, OneFrame DEF ContinueOpen, Becomes
    <3>2. CarefulStack' /\ Top' = "pickProject" /\ stack' # <<"close">>
      BY <3>1, CarefulOne, OneFrame DEF Alone
    <3>3. WindowInv'
      BY <2>1, <2>2, <3>2, SameWindow DEF Idle
    <3> QED BY <2>1, <2>2, <3>2, <3>3, IdleFine
  <2>4. CASE ~result
    <3>1. stack' = <<>>
      BY <1>2, <2>2, <2>4 DEF ContinueOpen, Return
    <3> QED BY <2>1, <2>2, <3>1, BackFine
  <2> QED BY <2>2, <2>3, <2>4
<1>3. CASE ContinueOpenFile
  <2>1. /\ On("openFile") /\ over' = "no"
        /\ UNCHANGED <<project, modified, binaryModified, actions, widget, loader, format, queue, timers>>
    BY <1>3 DEF ContinueOpenFile, RestUnchanged, Before
  <2>2. Tail(stack) = <<>> /\ WindowInv /\ Idle /\ ~Showing /\ result \in BOOLEAN /\ modified \in BOOLEAN
    BY <2>1, BeforeOne DEF Alone, Guarded
  <2>3. CASE result
    <3>1. CallCheckSave("close", <<"openClosed">>)
      BY <1>3, <2>2, <2>3, OneFrame DEF ContinueOpenFile, CloseFirst
    <3> QED BY <2>1, <2>2, <3>1, OpensFine
  <2>4. CASE ~result
    <3>1. stack' = <<>>
      BY <1>3, <2>2, <2>4 DEF ContinueOpenFile, Return
    <3> QED BY <2>1, <2>2, <3>1, BackFine
  <2> QED BY <2>2, <2>3, <2>4
<1>4. CASE ContinueClose
  <2>1. stack # <<>> /\ Head(stack) = "close" /\ over' = "no" /\ UNCHANGED <<loader, format, queue, timers>> /\ Top = "close"
    BY <1>4 DEF ContinueClose, On, RestUnchanged, Before, Top
  <2>2. WindowInv /\ Idle /\ ~Showing
    BY <2>1, IdleUnlessLoading DEF Before, CarefulState, Showing, Idle
  <2>3. CASE result
    <3>1. Close /\ stack' = Aged(Tail(stack), OfProject)
      BY <1>4, <2>3 DEF ContinueClose
    <3>2. stack' = <<>> \/ stack' = <<"openClosed">>
      BY <2>1, <3>1, Below, AgedTuples DEF Before, CarefulState
    <3>3. CarefulStack' /\ Top' \in {"window", "openClosed"} /\ stack' # <<"close">>
      BY <3>2, CarefulOne, CarefulNone, OneFrame DEF Alone
    <3>4. WindowInv'
      BY <2>1, <2>2, <3>1, <3>3 DEF Close, WindowInv, Showing, Idle
    <3> QED BY <2>1, <2>2, <3>3, <3>4, IdleFine
  <2>4. CASE ~result
    <3>1. stack' = <<>> /\ UNCHANGED <<project, modified, binaryModified, actions, widget>>
      BY <1>4, <2>1, <2>4, Below DEF ContinueClose, Return, Before, CarefulState
    <3> QED BY <2>1, <2>2, <3>1, BackFine
  <2> QED BY <2>3, <2>4 DEF Before, DataOK
<1>5. CASE ContinueReload
  <2>1. /\ On("reload")
        /\ UNCHANGED <<project, modified, binaryModified, actions, widget, format, queue, timers>>
    BY <1>5 DEF ContinueReload, RestUnchanged
  <2>2. Tail(stack) = <<>> /\ Top = "reload" /\ WindowInv /\ Idle /\ ~Showing
    BY <2>1, BeforeOne DEF Alone, Guarded
  <2>3. project # NoProject
    BY <2>2 DEF WindowInv
  <2>4. CASE stack' = <<>> /\ UNCHANGED <<loader, over>>
    BY <2>1, <2>2, <2>4, BackFine DEF Before
  <2>5. CASE stack' = <<"askBinary">> /\ UNCHANGED <<loader, over>>
    <3>1. CarefulStack' /\ Top' = "askBinary" /\ stack' # <<"close">>
      BY <2>5, CarefulOne, OneFrame DEF Alone
    <3>2. WindowInv'
      BY <2>1, <2>2, <2>3, <3>1, SameWindow DEF Idle
    <3> QED BY <2>1, <2>2, <2>5, <3>1, <3>2, IdleFine DEF Before
  <2>6. CASE stack' = <<>> /\ StartLoader(project.binary)
    BY <2>1, <2>2, <2>6, StartFine DEF Before
  <2> QED BY <1>5, <2>2, <2>3, <2>4, <2>5, <2>6, OneFrame DEF ContinueReload, Return, Becomes, Reload
<1>6. CASE ContinueQuit
  <2>1. /\ On("quit")
        /\ UNCHANGED <<project, binaryModified, actions, widget, loader, format, queue, timers>>
    BY <1>6 DEF ContinueQuit, RestUnchanged
  <2>2. Tail(stack) = <<>> /\ WindowInv /\ Idle /\ ~Showing
    BY <2>1, BeforeOne DEF Alone, Guarded
  <2>3. ~LoaderBusy
    BY <2>2 DEF Idle, LoaderBusy, NoLoader
  <2>4. over' = "quit" \/ (stack' = <<>> /\ UNCHANGED <<modified, over>>)
    BY <1>6, <2>2, <2>3 DEF ContinueQuit, Ends, Return
  <2>5. CASE stack' = <<>> /\ UNCHANGED <<modified, over>>
    BY <2>1, <2>2, <2>5, BackFine DEF Before
  <2> QED BY <2>4, <2>5 DEF Fine
<1>7. CASE LoadsProject
  <2>1. On("openClosed") /\ UNCHANGED <<binaryModified, actions, widget, format, queue, timers>>
    BY <1>7 DEF LoadsProject, LoadProjectFails, LoadProject, LoadProjectWithoutBinary, RestUnchanged
  <2>2. Tail(stack) = <<>> /\ Top = "openClosed" /\ WindowInv /\ Idle /\ ~Showing
    BY <2>1, BeforeOne DEF Alone
  <2>3. ~actions /\ ~modified /\ ~binaryModified /\ widget = "none" /\ modified \in BOOLEAN
    BY <2>2 DEF WindowInv, Before, DataOK
  <2>4. CASE LoadProjectFails
    <3>1. stack' = <<>> /\ modified' = FALSE /\ UNCHANGED <<loader, over>>
      BY <2>2, <2>4, AgedTuples DEF LoadProjectFails
    <3>2. CarefulStack' /\ Top' = "window" /\ stack' # <<"close">>
      BY <3>1, CarefulNone, OneFrame
    <3>3. WindowInv'
      BY <2>1, <2>2, <2>3, <3>1, <3>2 DEF WindowInv, Showing, Idle
    <3> QED BY <2>1, <2>2, <3>1, <3>2, <3>3, IdleFine DEF Before
  <2>5. ASSUME NEW b \in user.files, LoadProject(b)
        PROVE  Fine'
    <3>1. stack' = <<>> /\ StartLoader(b) /\ UNCHANGED modified
      BY <2>2, <2>5, AgedTuples DEF LoadProject
    <3>2. LoaderInv' /\ TimersInv' /\ over' = over
      BY <2>1, <2>2, <3>1, Starts
    <3>3. CarefulStack' /\ Top' = "window" /\ stack' # <<"close">>
      BY <3>1, CarefulNone, OneFrame
    <3>4. WindowInv'
      BY <2>1, <2>2, <2>3, <3>1, <3>3 DEF WindowInv, Showing, Idle
    <3> QED BY <3>2, <3>3, <3>4 DEF Fine, CarefulState, Before
  <2>6. ASSUME NEW b \in user.files, LoadProjectWithoutBinary(b)
        PROVE  Fine'
    <3>1. stack' = <<"missing">> /\ UNCHANGED <<modified, loader, over>>
      BY <2>2, <2>6, AgedTuples, OneFrame DEF LoadProjectWithoutBinary
    <3>2. CarefulStack' /\ Top' = "missing" /\ stack' # <<"close">>
      BY <3>1, CarefulOne, OneFrame DEF Alone
    <3>3. WindowInv'
      BY <2>1, <2>2, <2>3, <3>1, <3>2 DEF WindowInv, Showing, Idle
    <3> QED BY <2>1, <2>2, <3>1, <3>2, <3>3, IdleFine DEF Before
  <2> QED BY <1>7, <2>4, <2>5, <2>6 DEF LoadsProject
<1>8. CASE Disassembled
  <2>1. stack # <<>> /\ Head(stack) # "disassembleOld"
    BY <1>8, Below DEF Disassembled, On, Before, CarefulState, Alone, Guarded
  <2>2. /\ On("disassemble") /\ stack' = Tail(stack) /\ widget' = "live" /\ over' = "no"
        /\ UNCHANGED <<project, modified, binaryModified, actions, loader, format, queue, timers>>
    BY <1>8, <2>1 DEF Disassembled, On, Return, RestUnchanged, Before
  <2>3. stack' = <<>> /\ Top = "disassemble" /\ WindowInv /\ stack # <<>>
    BY <2>2, BeforeOne DEF Alone
  <2>4. project # NoProject /\ project.binary = format
    BY <2>3 DEF WindowInv, Showing
  <2>5. CarefulStack' /\ Top' = "window" /\ stack' # <<"close">>
    BY <2>3, CarefulNone, OneFrame
  <2>6. WindowInv'
    BY <2>2, <2>4, <2>5 DEF WindowInv, Showing
  <2>7. LoaderInv' /\ TimersInv'
    BY <2>2, <2>3, <2>5 DEF Before, CarefulState, LoaderInv, TimersInv, Quiet
  <2> QED BY <2>2, <2>5, <2>6, <2>7 DEF Fine, CarefulState
<1> QED BY <1>1, <1>2, <1>3, <1>4, <1>5, <1>6, <1>7, <1>8 DEF Continue

\* and loads leave the window fine.
LEMMA LoaderFine ==
  ASSUME Before, LoadsBinary \/ LoaderReports \/ LoaderEnds \/ ShowEvent \/ Deliver, UNCHANGED user
  PROVE  Fine'
<1>0. CarefulStack /\ LoaderInv /\ TimersInv /\ WindowInv /\ over = "no"
  BY DEF Before, CarefulState
<1>1. CASE LoadsBinary
  <2> PICK b \in user.files : LoadBinary(b)
    BY <1>1 DEF LoadsBinary
  <2>1. /\ StartLoader(b) /\ stack' = <<>> /\ Idle /\ ~Showing /\ WindowInv
        /\ UNCHANGED <<project, modified, binaryModified, actions, widget, format, queue, timers>>
    <3>1. CASE On("pickBinary") /\ Return
      BY <3>1, BeforeOne DEF LoadBinary, RestUnchanged, Alone, Return
    <3>2. CASE Ready /\ UNCHANGED stack
      BY <3>2, BeforeMenu DEF LoadBinary, RestUnchanged
    <3> QED BY <3>1, <3>2 DEF LoadBinary
  <2> QED BY <1>0, <2>1, StartFine
<1>2. ASSUME UNCHANGED <<project, modified, binaryModified, actions, widget, format, timers, stack, result, over>>,
             LoaderInv', TimersInv'
      PROVE  Fine'
  <2>1. CarefulStack' /\ WindowInv'
    BY <1>0, <1>2 DEF CarefulStack, WindowInv, Showing, Top
  <2> QED BY <1>0, <1>2, <2>1 DEF Fine, CarefulState
<1>3. CASE LoaderReports
  <2>1. /\ loader.state = "running" /\ UNCHANGED <<timers, stack, over>> /\ UIUnchanged
        /\ loader' = [loader EXCEPT !.state = "reported"]
        /\ \E e \in {"success", "failed"} : queue' = Append(queue, [event |-> e, file |-> loader.file])
    BY <1>3 DEF LoaderReports, Signal
  <2>2. queue = <<>> /\ Quiet /\ loader # NoLoader /\ loader \in Loaders
    BY <1>0, <2>1 DEF LoaderInv, NoLoader, Before, DataOK
  <2>3. \E e \in Events : queue' = <<e>> /\ Found(e)
    <3>1. PICK e \in {"success", "failed"} : queue' = Append(queue, [event |-> e, file |-> loader.file])
      BY <2>1
    <3>2. [event |-> e, file |-> loader.file] \in Events
      BY <2>1, <2>2, DataFacts
    <3> QED BY <2>2, <3>1, <3>2, OneFrame DEF Found
  <2>4. loader'.state = "reported"
    BY <2>1, <2>2 DEF Loaders, NoLoader
  <2>5. LoaderInv' /\ TimersInv'
    BY <2>1, <2>2, <2>3, <2>4 DEF LoaderInv, TimersInv, Quiet, Top
  <2> QED BY <1>2, <2>1, <2>5 DEF UIUnchanged
<1>4. CASE LoaderEnds
  <2>1. /\ loader.state = "reported" /\ UNCHANGED <<timers, stack, over>> /\ UIUnchanged
        /\ loader' = [loader EXCEPT !.state = "ended"]
        /\ queue' = Append(queue, [event |-> "finished", file |-> loader.file])
    BY <1>4 DEF LoaderEnds, Signal
  <2>2. loader # NoLoader /\ loader \in Loaders
    BY <2>1 DEF NoLoader, Before, DataOK
  <2>3. [event |-> "finished", file |-> loader.file] \in Events
    BY <2>1, <2>2, DataFacts
  <2>4. loader'.state = "ended"
    BY <2>1, <2>2 DEF Loaders, NoLoader
  <2>0. TimersInv'
    BY <1>0, <2>1, <2>2 DEF TimersInv, Top
  <2>5. ASSUME queue = <<>>
        PROVE  LoaderInv' /\ TimersInv'
    <3>1. queue' = <<[event |-> "finished", file |-> loader.file]>>
      BY <2>1, <2>5, OneFrame
    <3> QED BY <2>0, <2>3, <2>4, <3>1 DEF LoaderInv
  <2>6. ASSUME Quiet, \E e \in Events : queue = <<e>> /\ Found(e)
        PROVE  LoaderInv' /\ TimersInv'
    <3>1. PICK e \in Events : queue = <<e>> /\ Found(e)
      BY <2>6
    <3>2. queue' = <<e, [event |-> "finished", file |-> loader.file]>>
      BY <2>1, <3>1, TwoFrames
    <3>3. LoaderInv' /\ TimersInv'
      BY <2>1, <2>3, <2>4, <2>6, <3>1, <3>2 DEF LoaderInv, TimersInv, Quiet, Top
    <3> QED BY <3>3
  <2>7. LoaderInv' /\ TimersInv'
    BY <1>0, <2>1, <2>2, <2>5, <2>6 DEF LoaderInv
  <2> QED BY <1>2, <2>1, <2>7 DEF UIUnchanged
<1>5. CASE ShowEvent
  BY <1>5 DEF ShowEvent, Before
<1>6. CASE OnFailed \/ OnFinished \/ OnLoadSuccess
  <2>1. queue # <<>> /\ queue' = Tail(queue)
    BY <1>6 DEF OnFailed, OnFinished, OnLoadSuccess, Delivers
  <2>2. CASE OnFinished
    <3>1. CASE \E e \in Events : queue = <<e>>
      <4>1. queue' = <<>> /\ Head(queue).event = "finished" /\ ~Found(Head(queue))
        BY <2>1, <2>2, <3>1, OneFrame DEF OnFinished, Delivers, Found
      <4>2. loader.state = "ended"
        BY <1>0, <3>1, <4>1, OneFrame, TwoFrames DEF LoaderInv
      <4>3. loader' = NoLoader /\ UNCHANGED <<timers, stack, over>> /\ UIUnchanged
        BY <2>2, <4>2 DEF OnFinished, LoaderBusy
      <4>4. LoaderInv' /\ TimersInv'
        BY <1>0, <4>1, <4>3 DEF LoaderInv, TimersInv
      <4> QED BY <1>2, <4>3, <4>4 DEF UIUnchanged
    <3>2. CASE \E e, f \in Events : queue = <<e, f>> /\ Found(e)
      BY <2>2, <3>2, TwoFrames DEF OnFinished, Delivers, Found
    <3> QED BY <1>0, <2>1, <3>1, <3>2 DEF LoaderInv
  <2>3. CASE OnFailed \/ OnLoadSuccess
    <3>1. Found(Head(queue))
      BY <2>3 DEF OnFailed, OnLoadSuccess, Delivers, Found
    <3>2. /\ Quiet /\ loader # NoLoader
          /\ \/ loader.state = "reported" /\ queue' = <<>>
             \/ loader.state = "ended" /\ \E f \in Events : queue' = <<f>> /\ f.event = "finished"
      <4>1. CASE loader.state = "reported" /\ Quiet /\ \E e \in Events : queue = <<e>> /\ Found(e)
        BY <2>1, <4>1, OneFrame DEF NoLoader
      <4>2. CASE loader.state = "ended" /\ \E f \in Events : queue = <<f>> /\ f.event = "finished"
        BY <3>1, <4>2, OneFrame DEF Found
      <4>3. CASE /\ loader.state = "ended" /\ Quiet
                 /\ \E e, f \in Events : queue = <<e, f>> /\ Found(e) /\ f.event = "finished"
        BY <2>1, <4>3, TwoFrames DEF NoLoader
      <4> QED BY <1>0, <2>1, <4>1, <4>2, <4>3 DEF LoaderInv
    <3>3. CASE OnFailed
      <4>1. UNCHANGED <<loader, timers, stack, over>> /\ UIUnchanged
        BY <3>3 DEF OnFailed
      <4>2. LoaderInv' /\ TimersInv'
        BY <1>0, <3>2, <4>1 DEF LoaderInv, TimersInv, Top
      <4> QED BY <1>2, <4>1, <4>2 DEF UIUnchanged
    <3>4. CASE OnLoadSuccess
      <4>1. /\ stack' = <<>> /\ timers' = <<"current">> /\ UNCHANGED <<loader, over>>
            /\ widget' \in {"none", "stale"}
        BY <3>2, <3>4, AgedTuples, OneFrame DEF OnLoadSuccess, Quiet
      <4>2. project' # NoProject /\ project'.binary = format'
        <5>1. Head(queue) \in Events /\ Head(queue).file \in Binary
          BY <2>1, QueueFacts DEF Before, DataOK
        <5>2. project \in Projects
          BY DEF Before, DataOK
        <5> DEFINE file == Head(queue).file
        <5>3. /\ format' = file
              /\ \/ IsNamed(project) /\ project' = [project EXCEPT !.binary = file]
                 \/ project' = [binary |-> file, saved |-> NoBinary, hooked |-> TRUE]
          BY <3>4 DEF OnLoadSuccess
        <5> HIDE DEF file
        <5>4. project'.binary = file
          <6>1. CASE IsNamed(project) /\ project' = [project EXCEPT !.binary = file]
            BY <5>2, <6>1, ProjectOfFile
          <6>2. CASE project' = [binary |-> file, saved |-> NoBinary, hooked |-> TRUE]
            BY <6>2
          <6> QED BY <5>3, <6>1, <6>2
        <5>5. file \in Binary
          BY <5>1 DEF file
        <5> QED BY <5>3, <5>4, <5>5, SessionAssumption DEF NoProject
      <4>3. CarefulStack' /\ Top' = "window" /\ stack' # <<"close">>
        BY <4>1, CarefulNone, OneFrame
      <4>4. Showing' /\ WindowInv'
        BY <4>1, <4>2, <4>3, OneFrame DEF Showing, WindowInv
      <4>5. LoaderInv' /\ TimersInv'
        BY <3>2, <4>1, <4>3 DEF LoaderInv, TimersInv
      <4> QED BY <1>0, <4>1, <4>3, <4>4, <4>5 DEF Fine, CarefulState
    <3> QED BY <2>3, <3>3, <3>4
  <2> QED BY <1>6, <2>2, <2>3
<1>7. CASE ShowsLoaded \/ LoadStartupFile
  <2>1. timers = <<"current">> /\ stack = <<>>
    BY <1>0, <1>7 DEF TimersInv, ShowsLoaded, ShowLoaded, LoadStartupFile, Fires
  <2>2. Head(timers) = "current" /\ Tail(timers) = <<>> /\ timers # <<>> /\ Showing
    BY <2>1, OneFrame DEF Showing
  <2>3. ShowLoaded("current") /\ Head(timers) = "current"
    BY <1>7, <2>2 DEF ShowsLoaded, ShowLoaded, LoadStartupFile, Fires
  <2>4. project # NoProject /\ project.binary = format
    BY <1>0, <2>2 DEF WindowInv
  <2>5. /\ \E f \in {"choose", "disassemble"} : stack' = <<f>>
        /\ timers' = <<>> /\ over' = "no"
        /\ UNCHANGED <<project, modified, actions, widget, format, loader, queue>>
    BY <1>0, <2>1, <2>2, <2>3, <2>4, OneFrame DEF ShowLoaded, Fires, Show
  <2>6. CarefulStack' /\ Top' \in {"choose", "disassemble"} /\ stack' # <<"close">>
    BY <2>5, CarefulOne, OneFrame DEF Alone
  <2>7. WindowInv'
    BY <2>4, <2>5, <2>6 DEF WindowInv, Showing
  <2>8. LoaderInv' /\ TimersInv'
    <3>1. ~(loader.state = "running") /\ (Quiet => timers = <<>>)
      BY <1>0, <2>2 DEF LoaderInv, Quiet, NoLoader
    <3>2. LoaderInv'
      BY <1>0, <2>2, <2>5, <3>1 DEF LoaderInv, Quiet
    <3> QED BY <2>5, <2>6, <3>2 DEF TimersInv
  <2> QED BY <2>5, <2>6, <2>7, <2>8 DEF Fine, CarefulState
<1> QED BY <1>1, <1>3, <1>4, <1>5, <1>6, <1>7 DEF Deliver

\* No step is taken once the process ended.
LEMMA OnlyWhileItRuns ==
  ASSUME Acts
  PROVE  over = "no"
<1>1. CASE Menu \/ LoadsBinary
  BY <1>1 DEF Menu, LoadsBinary, LoadBinary, SaveProject, SaveBinary, NewProject, OpenProject, CloseProject, OpenBinary, ReloadBinary, Quit, EditTags, OpenEditor, Ready, On
<1>2. CASE Dialogs
  BY <1>2 DEF Dialogs, AnswerYes, AnswerNo, AnswerCancel, BinaryAnswered, MissingAnswered, SaveAsAnswered, StaleSaveAsAnswered, PickProject, CancelDialog, Choose, EditorDone, StaleEditorDone, On
<1>3. CASE Continue
  BY <1>3 DEF Continue, ContinueNew, ContinueOpen, ContinueOpenFile, ContinueClose, ContinueReload, ContinueQuit, LoadsProject, LoadProjectFails, LoadProject, LoadProjectWithoutBinary, Disassembled, On
<1>4. CASE Deliver
  BY <1>4 DEF Deliver, OnFailed, OnFinished, OnLoadSuccess, ShowsLoaded, ShowLoaded, LoadStartupFile, Delivers, Fires, InLoop
<1>5. CASE LoaderReports \/ LoaderEnds \/ ShowEvent
  BY <1>5 DEF LoaderReports, LoaderEnds, ShowEvent
<1> QED BY <1>1, <1>2, <1>3, <1>4, <1>5 DEF Acts

\* The inductive invariant for users with no habits.
CarefulInv == user.habits = {} => Fine

\* The invariant for users with no habits holds at first,
LEMMA CarefulInit == Init => CarefulInv
<1> SUFFICES ASSUME Init PROVE Fine
  BY DEF CarefulInv
<1>1. stack = <<>> /\ timers = <<>> /\ queue = <<>> /\ loader = NoLoader /\ over = "no"
      /\ ~actions /\ ~modified /\ ~binaryModified /\ widget = "none"
  BY DEF Init
<1>2. Top = "window" /\ stack # <<"close">>
  BY <1>1, OneFrame DEF Top
<1> QED BY <1>1, <1>2 DEF Fine, CarefulState, CarefulStack, LoaderInv, TimersInv, WindowInv, Showing

\* and every step keeps it.
LEMMA CarefulNext == AnyUserInv /\ CarefulInv /\ [Next]_vars => CarefulInv'
<1> SUFFICES ASSUME AnyUserInv, CarefulInv, [Next]_vars, user'.habits = {} PROVE Fine'
  BY DEF CarefulInv
<1>1. CASE Next
  <2>1. Acts /\ UNCHANGED user
    BY <1>1 DEF Next, Same
  <2>2. Before
    BY <2>1, OnlyWhileItRuns DEF CarefulInv, Fine, Before, AnyUserInv
  <2> QED BY <2>1, <2>2, MenuFine, DialogsFine, ContinueFine, LoaderFine DEF Acts
<1>2. CASE UNCHANGED vars
  BY <1>2 DEF vars, CarefulInv, Fine, CarefulState, CarefulStack, LoaderInv, TimersInv, WindowInv, Showing, Top, Quiet
<1> QED BY <1>1, <1>2

\* The inductive invariant for users with no habits.
THEOREM CarefulInvariant == Spec => []CarefulInv
<1> QED BY CarefulInit, CarefulNext, AnyUserInvariant, PTL DEF Spec

\* For users with no habits the process ends only by being quit: no loader is
\* destroyed under its thread, and no function finds its project or objects gone.
THEOREM NeverFaults == Spec => []NoFault
<1>1. CarefulInv => NoFault
  BY DEF CarefulInv, Fine, NoFault
<1> QED BY <1>1, CarefulInvariant, PTL

\* saveProject attaches the regions of the binary that is loaded, and that is
\* the project's own, for users with no habits.
THEOREM SavesOwn == Spec => []SavesOwnRegions
<1>1. CarefulInv => SavesOwnRegions
  BY DEF CarefulInv, Fine, CarefulState, WindowInv, SavesOwnRegions
<1> QED BY <1>1, CarefulInvariant, PTL

===============================================================================
