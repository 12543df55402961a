---------------------------- MODULE MCLanguages -----------------------------
(* Tags are interchangeable: they are compared with each other only.       *)
EXTENDS Texts, TLC

TagSymmetry == Permutations(Tags)

(* "%p0", a bare "%" and "a"; a sequence cut off; a new section            *)
MCLines == {<<37, 112, 48>>, <<37>>, <<97>>, <<97, 195>>, <<92, 110>>}
MCEmpty == <<>>
MCTexts == {<<0, 112, 48>>, <<0>>, <<97>>, <<>>}

MCFacts == [c \in {97, 65, 100, 76, 110, 78} |-> IF c = 78 THEN <<>> ELSE <<c, c>>]

MCParameterLists == {<<>>, <<<<37, 112, 49>>>>, [i \in 1..11 |-> <<64 + i>>]}

Item(written, means) == [kind |-> "text", written |-> written, means |-> means]

MCItems == {
  Item(<<120, 32, 121>>, <<120, 32, 121>>), Item(<<49>>, <<49>>),
  Item(<<37, 37>>, <<37>>), Item(<<92, 92>>, <<92>>),
  Item(<<92, 115>>, <<32>>), Item(<<92, 98>>, <<2>>), Item(<<112>>, <<112>>),
  Item(<<92, 48, 52, 53>>, <<37>>), Item(<<92, 48, 49, 50>>, <<9226>>),
  Item(<<92, 49, 55, 55>>, <<9249>>), Item(<<195, 169>>, <<233>>),
  Item(<<92, 51, 48, 51, 92, 50, 53, 49>>, <<233>>),
  Item(<<240, 159, 152, 128>>, <<128512>>), Item(<<239, 191, 189>>, <<65533>>), Item(<<37, 122>>, <<65533>>),
  [kind |-> "fact", written |-> <<37, 110>>, means |-> 110],
  [kind |-> "fact", written |-> <<37, 78>>, means |-> 78],
  [kind |-> "parameter", written |-> <<37, 112, 48>>, means |-> 1],
  [kind |-> "parameter", written |-> <<37, 80, 48>>, means |-> 11],
  [kind |-> "section", written |-> <<92, 110>>, means |-> <<133>>]}

ASSUME MCNoLineIsTheSign == NoLineIsTheSign

ASSUME MCItemsStandAlone == ItemsStandAlone
=============================================================================
