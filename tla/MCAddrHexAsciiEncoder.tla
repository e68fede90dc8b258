----------------------- MODULE MCAddrHexAsciiEncoder -----------------------
(* An instance of AddrHexAsciiEncoder for TLC. *)
EXTENDS AddrHexAsciiEncoder

\* None, a part of a row, up to five chunks of two rows, whole or with a rest.
SomeSizes == 0..19
=============================================================================
