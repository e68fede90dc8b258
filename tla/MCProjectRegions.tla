-------------------------- MODULE MCProjectRegions --------------------------
(***************************************************************************)
(* A fat binary of two objects: one with a section of three bytes, where   *)
(* two regions can begin at one address, overlap, or end with the section, *)
(* and one with a section of a single byte next to it.                     *)
(***************************************************************************)
EXTENDS ProjectRegions

MCObject == <<1, 2>>
MCOffset == <<0, 3>>
MCSize == <<3, 1>>

\* BOUND: regions of all sections together.
FewRegions == Len(regions[1]) + Len(regions[2]) =< 2

\* BOUND: a save that fails leaves regions attached that differ from those in
\* the project file only while there is no project file.
OneSetOfRegions == FewRegions /\ (stored = None \/ attached \in {None, stored})
=============================================================================
