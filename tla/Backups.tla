------------------------------ MODULE Backups ------------------------------
(***************************************************************************)
(* The copies of a binary that MainWindow::saveBackup makes before each    *)
(* save: numbered, in the binary's directory, sorted by name, the first    *)
(* ones removed when there are too many.  Names are numbers padded with    *)
(* zeros: past the last number of that width, sorting by name is no longer *)
(* sorting by number.                                                      *)
(***************************************************************************)
EXTENDS Integers, FiniteSets

CONSTANTS
  Base,        \* the digits of a number
  Width,       \* how many digits numbers are padded to: 4
  Amounts,     \* the settings of the options dialog, 0 for unlimited
  CopyMayFail, \* whether a copy may fail for want of space or permission
  MaxSaves     \* BOUND: saves of the binary

ASSUME BackupsAssumption ==
  /\ Base \in Nat \ {0} /\ Width \in Nat
  /\ Amounts \subseteq Nat
  /\ CopyMayFail \in BOOLEAN
  /\ MaxSaves \in Nat

VARIABLES
  version, \* the content of the binary: how often it was saved
  backups, \* the copies: their numbers and contents
  amount,  \* Context::backupAmount
  enabled  \* Context::backupEnabled

vars == <<version, backups, amount, enabled>>

TypeOK ==
  /\ version \in 0..MaxSaves
  /\ \A b \in backups : b.number \in 1..MaxSaves /\ b.version < version
  /\ amount \in Amounts
  /\ enabled \in BOOLEAN

Init ==
  /\ version = 0
  /\ backups = {}
  /\ amount \in Amounts
  /\ enabled = TRUE

-----------------------------------------------------------------------------

\* The first number that is wider than the padding.
Wide == Base^Width

\* The name with number m sorts before the one with number n; a wide number
\* sorts by the digits it has in common with a padded one.
NamedBefore(m, n) ==
  \/ (m < Wide) = (n < Wide) /\ m < n
  \/ m < Wide /\ Wide =< n /\ m =< n \div Base
  \/ n < Wide /\ Wide =< m /\ m \div Base < n

\* QDir::entryInfoList, sorted by name: the place of an entry, counted from 1, and
\* the one behind all others.
Place(bs, b) == Cardinality({c \in bs : c = b \/ NamedBefore(c.number, b.number)})
LastEntry(bs) == CHOOSE b \in bs : \A c \in bs : c = b \/ NamedBefore(c.number, b.number)

\* The number after that of the last entry.
NextNumber(bs) == IF bs = {} THEN 1 ELSE LastEntry(bs).number + 1

\* Mutants: one copy more is kept, the last copies go.
RemainingAndOne(bs) == LET excess == Cardinality(bs) - amount IN
  IF amount > 0 THEN {b \in bs : Place(bs, b) > excess} ELSE bs
RemainingFirst(bs) == LET excess == Cardinality(bs) - (amount - 1) IN
  IF amount > 0 THEN {b \in bs : Place(bs, b) =< Cardinality(bs) - excess} ELSE bs

\* Room is made for the copy that follows: the first entries go.
Remaining(bs) == LET excess == Cardinality(bs) - (amount - 1) IN
  IF amount > 0 THEN {b \in bs : Place(bs, b) > excess} ELSE bs

\* QFile::copy does not overwrite.
Copied(bs, number) ==
  IF \E b \in bs : b.number = number THEN bs ELSE bs \union {[number |-> number, version |-> version]}

\* saveBinary: a backup if enabled, with a warning if the copy fails, and the
\* new content either way.  The number is found before any copy is removed.
Save ==
  /\ version < MaxSaves
  /\ version' = version + 1
  /\ IF enabled
     THEN \/ backups' = Copied(Remaining(backups), NextNumber(backups))
          \/ CopyMayFail /\ backups' = Remaining(backups)
     ELSE UNCHANGED backups
  /\ UNCHANGED <<amount, enabled>>

\* The options dialog.
SetAmount(n) == amount' = n /\ UNCHANGED <<version, backups, enabled>>
SetEnabled(on) == enabled' = on /\ UNCHANGED <<version, backups, amount>>

\* Somebody tidies up.
Delete(b) == b \in backups /\ backups' = backups \ {b} /\ UNCHANGED <<version, amount, enabled>>

Next ==
  \/ Save
  \/ \E n \in Amounts : SetAmount(n)
  \/ \E on \in BOOLEAN : SetEnabled(on)
  \/ \E b \in backups : Delete(b)

Spec == Init /\ [][Next]_vars

-----------------------------------------------------------------------------
(***************************************************************************)
(* Properties                                                              *)
(***************************************************************************)

\* A save with backups leaves at most the amount to keep, whatever the amount
\* was before.
KeepsAmount == [][Save /\ enabled /\ amount > 0 => Cardinality(backups') =< amount]_vars

\* Until numbers get too wide, what a save removes is older than all it keeps.
Narrow(bs) == \A b \in bs : b.number < Wide - 1
KeepsNewest ==
  [][Save /\ enabled /\ Narrow(backups) =>
       \A gone \in backups \ backups' : \A b \in backups' : gone.version < b.version]_vars
=============================================================================
