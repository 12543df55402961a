----------------------------- MODULE MCMessages -----------------------------
(* Raw streams of two letters, so that lines that change places or run into*)
(* each other can be told apart, and up to three messages of the shapes the*)
(* output has: with and without an origin, with no parameter, with one that*)
(* is the last, and with a last one that is empty, has a blank, or begins  *)
(* with a colon.                                                           *)
EXTENDS Messages, TLC

CONSTANTS X, o

MCUpper == [c \in Text |-> IF c = o THEN X ELSE c]
Message(by, origin, p) ==
  [by |-> by, origin |-> origin, command |-> <<X>>, parameters |-> p]

Bare == Message("sendMessage", <<>>, <<>>)
MCMessages ==
  {Bare,
   Message("sendMessage", <<>>, <<<<o, SP, COLON>>>>),
   Message("sendMessageFrom", <<o>>, <<<<X>>, <<COLON>>>>),
   Message("sendNumeric", <<o>>, <<<<X>>>>),
   Message("sendNumeric", <<o>>, <<<<X>>, <<>>>>)}
MCScripts == {<<>>} \cup {<<m>> : m \in MCMessages} \cup {<<m, n>> : m, n \in MCMessages}
             \cup {<<Bare, n, Bare>> : n \in MCMessages}

MCSymmetry == Permutations(RawText)
=============================================================================
