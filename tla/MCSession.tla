----------------------------- MODULE MCSession -----------------------------
(* An instance of Session for TLC: a careful user, and one with every habit. *)
EXTENDS Session
CONSTANTS b1, b2
MCUsers == {[files |-> {b1, b2}, habits |-> {}], [files |-> {b1}, habits |-> AllHabits]}
=============================================================================
