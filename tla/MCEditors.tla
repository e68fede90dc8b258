----------------------------- MODULE MCEditors -----------------------------
(* An instance of Editors for TLC. *)
EXTENDS Editors

\* Code in a row of two bytes and one of one, with instructions of one, two and
\* three bytes, with spaces at the end of a row and alone; and pairs of versions.
MCSamples == {<<3, 1, 1>>, <<2, 2, 2>>, <<1, 3, 2>>} \union {<<1, 2>>, <<2, 2>>, <<3, 1>>}
=============================================================================
