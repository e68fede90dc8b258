----------------------------- MODULE ProjectTags -----------------------------
(***************************************************************************)
(* The tags of a project (Project.cc) with the two views of them that      *)
(* belong to the binary on show: the list of all tags (BinaryWidget.cc)    *)
(* and the tags of the address under the cursor (TagsEdit.cc).             *)
(***************************************************************************)
EXTENDS Integers, SequencesExt, Selection

CONSTANTS
  Tag,    \* what the user may call an address
  Signed  \* the addresses below this are read back, in the code 2^63

ASSUME TagsAssumption == Signed \in Nat

VARIABLES
  tags,    \* Project::addressTags_: a list for some addresses, possibly an empty one
  tagList, \* BinaryWidget::tagList_: tags with their addresses
  here,    \* TagsEdit::address_, set as soon as the binary is on show
  rows     \* the tags that TagsEdit shows, in their order

tagVars == <<tags, tagList, here, rows>>

NoTags == [a \in {} |-> <<>>]
IsUsed(ts, tag) == \E a \in DOMAIN ts : Contains(ts[a], tag)

\* Project::addressTags
TagsAt(ts, a) == IF a \in DOMAIN ts THEN ts[a] ELSE <<>>

\* Mutant: only the address itself is asked whether it has the tag.
AddedIfNewHere(ts, tag, a) ==
  IF Contains(TagsAt(ts, a), tag) THEN ts
  ELSE [x \in DOMAIN ts \union {a} |-> IF x = a THEN Append(TagsAt(ts, a), tag) ELSE ts[x]]
\* addAddressTag: a tag is used once in the whole project.
Added(ts, tag, a) ==
  IF IsUsed(ts, tag) THEN ts
  ELSE [x \in DOMAIN ts \union {a} |-> IF x = a THEN Append(TagsAt(ts, a), tag) ELSE ts[x]]

\* removeAddressTags, where no tag is used twice: an address keeps its list when
\* its last tag goes.
Without(ts, gone) ==
  [a \in DOMAIN ts |-> Selected(ts[a], {i \in DOMAIN ts[a] : ts[a][i] \notin gone})]

\* save writes every address as an unsigned number, load reads a signed one and
\* gives up at the first that is none; it adds the tags one by one.
Readable(ts) == \A a \in DOMAIN ts : a < Signed
AddedAll(ts, list, a) ==
  LET First[k \in 0..Len(list)] == IF k = 0 THEN ts ELSE Added(First[k - 1], list[k], a)
  IN  First[Len(list)]
Reread(ts) ==
  LET keys == SetToSeq(DOMAIN ts)
      First[k \in 0..Len(keys)] ==
        IF k = 0 THEN NoTags ELSE AddedAll(First[k - 1], ts[keys[k]], keys[k])
  IN  First[Len(keys)]

\* updateTagList
Listed(ts) == UNION {{[tag |-> ts[a][i], address |-> a] : i \in DOMAIN ts[a]} : a \in DOMAIN ts}

TagsInit(a) == tags = NoTags /\ tagList = {} /\ here = a /\ rows = <<>>

-----------------------------------------------------------------------------

\* Mutant: tagsChanged is emitted before the tags change.
TagsBecomeEarly(ts) == tags' = ts /\ tagList' = Listed(tags)
\* tagsChanged, to the list of the widget.
TagsBecome(ts) == tags' = ts /\ tagList' = Listed(ts)

\* onReturnPressed: a tag that is used already is refused.
AddTag ==
  /\ \E tag \in Tag :
       /\ Added(tags, tag, here) # tags
       /\ TagsBecome(Added(tags, tag, here))
  /\ rows' = TagsAt(tags', here)
  /\ UNCHANGED here

\* removeTag deletes the tag from the project, which fills the view anew and
\* frees the item it then takes from the view: that takes nothing, or whatever
\* tag now lives in its memory.
RemoveTag ==
  /\ \E i \in DOMAIN rows :
       /\ TagsBecome(Without(tags, {rows[i]}))
       /\ LET left == TagsAt(tags', here) IN
          rows' = left \/ \E k \in DOMAIN left : rows' = RemoveAt(left, k)
  /\ UNCHANGED here

\* removeSelectedTags, in the list of all tags.
RemoveSelectedTags ==
  /\ \E gone \in SUBSET tagList :
       gone # {} /\ TagsBecome(Without(tags, {item.tag : item \in gone}))
  /\ rows' = TagsAt(tags', here)
  /\ UNCHANGED here

\* setAddress, when the cursor comes to a line with an address.  It connects to
\* the project once more; to hear of a change twice is as good as once.
SetAddress(a) ==
  /\ here' = a
  /\ rows' = TagsAt(tags, a)

TagStep == AddTag \/ RemoveTag \/ RemoveSelectedTags

\* The project is saved, closed and opened: a new widget shows what was read,
\* from address a on.  One that cannot be read is not opened.
TagsReopen(a) ==
  /\ Readable(tags)
  /\ TagsBecome(Reread(tags))
  /\ here' = a /\ rows' = TagsAt(tags', a)

-----------------------------------------------------------------------------
(***************************************************************************)
(* Properties                                                              *)
(***************************************************************************)

\* A tag is used once, whatever was edited, saved and opened: removeAddressTags
\* counts on it, for it looks no further than the first address that has the tag.
\* And a project that can be read back has the same tags at every address.  It
\* cannot once an address of 2^63 or more was tagged, even if the tag is gone.
TagsReadBack ==
  /\ \A a, b \in DOMAIN tags : a # b => Range(tags[a]) \intersect Range(tags[b]) = {}
  /\ Readable(tags) =>
       \A a \in DOMAIN tags \union DOMAIN Reread(tags) : TagsAt(Reread(tags), a) = TagsAt(tags, a)

\* Both views show the tags of the project: the list has all of them, and the
\* tags of the address are there but for one that removeTag may have taken along.
TagsAreOnShow ==
  /\ tagList = Listed(tags)
  /\ \/ rows = TagsAt(tags, here)
     \/ \E k \in DOMAIN TagsAt(tags, here) : rows = RemoveAt(TagsAt(tags, here), k)
=============================================================================
