------------------------------ MODULE MCChat --------------------------------
(* Lists of up to three targets, one of them spelt in two ways, and of up  *)
(* to three codes, one of them unknown.  Texts are an e with an accent, one*)
(* that ends within that character and one with an octet that is illegal.  *)
EXTENDS Chat

MCKeys == {"alice", "bob"}
MCFold == [n \in Names |-> IF n = "ALICE" THEN "alice" ELSE n]

MCTargetLists == {<<"bob">>, <<"ALICE", "alice">>, <<"bob", "alice", "ALICE">>}
MCSpoken == {<<195, 169>>, <<108, 195>>, <<255>>}
MCCodeLists == {<<"xx">>, <<"xx", "de", "none">>, <<"none", "de">>, <<"de", "xx", "none", "en">>}

ConnSymmetry == Permutations(Conns)
=============================================================================
