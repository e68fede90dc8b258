----------------------------- MODULE MCLogDialog -----------------------------
(* An instance of LogDialog for TLC: the main thread and a loader. *)
EXTENDS LogDialog
=============================================================================
