----------------------------- MODULE WriteBack -----------------------------
(***************************************************************************)
(* What editing a binary promises, without sections, regions, editors or a *)
(* write cursor: a document, a disk, and the claim shown to the user that  *)
(* nothing is unsaved.  The claim may only be made when document and disk  *)
(* are the same, and the disk only ever takes bytes of the document.       *)
(***************************************************************************)
EXTENDS Naturals

CONSTANTS
  Cell,  \* the addresses of the bytes
  Value  \* the values of a byte

VARIABLES
  doc,   \* the edited contents
  disk,  \* the stored contents
  saved  \* the claim "nothing is unsaved"

vars == <<doc, disk, saved>>

Init ==
  /\ disk \in [Cell -> Value]
  /\ doc = disk
  /\ saved = TRUE

\* The user changes the document; the claim is withdrawn.
Change ==
  /\ doc' \in [Cell -> Value]
  /\ saved' = FALSE
  /\ UNCHANGED disk

\* Some bytes of the document reach the disk.
Flush ==
  /\ disk' \in [Cell -> Value]
  /\ \A c \in Cell : disk'[c] \in {disk[c], doc[c]}
  /\ ~saved
  /\ UNCHANGED <<doc, saved>>

\* The claim is made.
Commit ==
  /\ doc = disk
  /\ saved' = TRUE
  /\ UNCHANGED <<doc, disk>>

\* The document is read from the disk again, or is lost with the process.
Reopen ==
  /\ doc' = disk
  /\ saved' \in BOOLEAN
  /\ UNCHANGED disk

Next == Change \/ Flush \/ Commit \/ Reopen

Spec == Init /\ [][Next]_vars
=============================================================================
