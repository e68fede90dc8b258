---------------------------- MODULE MCBinaryEdit ----------------------------
(***************************************************************************)
(* One section of three bytes, the smallest where regions overlap without  *)
(* one containing the other; and two sections, of which one holds two      *)
(* versions, with bytes of the file that belong to no section around them. *)
(***************************************************************************)
EXTENDS BinaryEdit, TLC

\* The values of a byte are alike.
Bytes == Permutations(Byte)

MCOffset == <<0>>
MCSize == <<3>>

MCVersionOffset == <<1, 3>>
MCVersionSize == <<2, 1>>
=============================================================================
