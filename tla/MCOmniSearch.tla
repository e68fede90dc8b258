---------------------------- MODULE MCOmniSearch ----------------------------
(* An instance of OmniSearch for TLC, of an object file: two instructions,  *)
(* the first at address 0 and the other one wider than its column, with a   *)
(* procedure; a string behind a leading zero; a symbol that is not on show; *)
(* and a version at an offset that is also the address of an instruction.   *)
EXTENDS OmniSearch

MCCode == <<1, 3>>
MCSymbols == {1, 99}
MCStringData == <<0, 1>>
MCPattern ==
  {[text |-> <<"@", "v">>, tags |-> {"t1", "t2"}, rows |-> {99}, sections |-> {3}]}
=============================================================================
