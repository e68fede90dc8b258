----------------------------- MODULE MCBackups -----------------------------
(* Instances of Backups for TLC: binary digits, so that three copies fit *)
(* into names of two digits and the fourth does not. *)
EXTENDS Backups
=============================================================================
