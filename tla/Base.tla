-------------------------------- MODULE Base --------------------------------
(***************************************************************************)
(* What the modules of KineIRCd's core share: the connections a daemon     *)
(* accepts, and the nicknames their clients choose.                        *)
(*                                                                         *)
(* A connection is identified by its Connection object, which is never     *)
(* reused.  The user object of a connection is a member of the protocol    *)
(* object the connection owns (mod_irc2user::Protocol::user), so the same  *)
(* identity names the connection and its user.                             *)
(***************************************************************************)
EXTENDS Integers, FiniteSets

CONSTANTS
  Conns,        \* the connections accepted during a run
  NoConn,       \* a null pointer where a connection or a user is expected
  Names,        \* the nicknames clients ask for, as spelt
  NoName,       \* the empty string
  ValidNames,   \* the names Client::Name::checkValidity() accepts
  Keys,         \* the folded names, which the registry's lists are keyed by
  IRCtoLower    \* the folding: two spellings of a nickname share a key

ASSUME BaseAssumption ==
  /\ IsFiniteSet(Conns)
  /\ NoConn \notin Conns
  /\ NoName \notin Names
  /\ ValidNames \subseteq Names
  /\ IRCtoLower \in [Names -> Keys]
=============================================================================
