----------------------------- MODULE Registrar ------------------------------
(***************************************************************************)
(* The registrar protocol (src/mod_irc2registrar/protocol.cpp), which every*)
(* connection speaks until it is known what the peer is.  This module      *)
(* holds what one line of input does to one registrar: a handler maps the  *)
(* registrar's state to the set of states its line can leave, one for each *)
(* way its parameters may turn out.  Sessions runs the handlers.           *)
(*                                                                         *)
(* Of the collected text only what is compared later is kept: the name,    *)
(* and which of the other fields are not empty.  A field is given by       *)
(* localiseStr(), which returns nothing for text it cannot convert, so a   *)
(* line may leave a field empty that it means to set.                      *)
(***************************************************************************)
EXTENDS Base

Kinds == {"IIRCN", "SERVER", "SERVICE", "USER"}

Fields == {"password", "username", "hostname", "protocol", "distribution"}

RegistrarState == [
  listener         : SUBSET Kinds,        \* the flags of the listener it came by
  registrationType : Kinds \cup {"NONE"},
  name             : Names \cup {NoName},
  given            : SUBSET Fields,       \* the fields that are not empty
  linkStamp        : {-1, 0, 1},          \* its sign
  pongsLeft        : {0, 1},
  pinged           : BOOLEAN,             \* pongMatch is not empty
  connected        : BOOLEAN,             \* of the Connection
  errorSent        : BOOLEAN ]            \* history: sendError() was called

(* A registrar as its constructor leaves it                                *)
NewRegistrar(flags) == [
  listener |-> flags,
  registrationType |-> "NONE", name |-> NoName, given |-> {},
  linkStamp |-> -1, pongsLeft |-> 1, pinged |-> FALSE,
  connected |-> TRUE, errorSent |-> FALSE ]
-----------------------------------------------------------------------------
(* Connection::goodbye()                                                   *)
goodbye(r) == [r EXCEPT !.connected = FALSE]

(* LibIRC2::Output::sendError(), which says goodbye itself                 *)
sendError(r) == [r EXCEPT !.connected = FALSE, !.errorSent = TRUE]

(* The checks that open the commands naming a kind of peer                 *)
Admit(r, kind, outcomes) ==
  CASE kind \notin r.listener -> {sendError(r)}
    [] kind \in r.listener /\ r.registrationType # "NONE" -> {goodbye(r)}
    [] OTHER -> outcomes

(* The fields "set" are assigned; those in "text" turn out not empty.      *)
Assigned(r, set, text) == (r.given \ set) \cup text

parseCAPAB(r) == {r}

(* The name, host, protocol and stamp are stored before the stamp is       *)
(* checked.                                                                *)
parseIIRCN(r) == Admit(r, "IIRCN",
  LET stored(n, text, stamp) ==
        [r EXCEPT !.name = n, !.linkStamp = stamp,
                  !.given = Assigned(r, {"hostname", "protocol"}, text)]
      texts == {{"protocol"}, {"hostname", "protocol"}}
  IN {r, sendError(r)}
       \cup {sendError(stored(n, text, 0)) : n \in Names \cup {NoName}, text \in texts}
       \cup {[stored(n, text, 1) EXCEPT !.registrationType = "IIRCN"] :
               n \in Names \cup {NoName}, text \in texts})

(* Mutant: the nickname is not checked for its validity.                   *)
parseNICKAnyName(r, used) ==
  {r} \cup {[r EXCEPT !.name = n, !.pinged = @ \/ r.pongsLeft > 0] :
              n \in {m \in Names : IRCtoLower[m] \notin used}}

(* "used" are the keys somebody is registered under.  An empty name passes *)
(* every check.                                                            *)
parseNICK(r, used) ==
  {r} \cup {[r EXCEPT !.name = n, !.pinged = @ \/ r.pongsLeft > 0] :
              n \in {NoName} \cup {m \in ValidNames : IRCtoLower[m] \notin used}}

parsePASS(r) ==
  IF "password" \in r.given
  THEN {sendError(r)}
  ELSE {r, [r EXCEPT !.given = @ \cup {"password"}]}

(* Mutant: it is not checked that a pong is expected.                      *)
parsePONGUnexpected(r) == {sendError(r), [r EXCEPT !.pongsLeft = @ - 1]}

(* A pong that matches can always be sent: before the ping, the string to  *)
(* match is empty, and so is the parameter of "PONG :".                    *)
parsePONG(r) ==
  IF r.pongsLeft = 0
  THEN {sendError(r)}
  ELSE {sendError(r), [r EXCEPT !.pongsLeft = @ - 1]}

parseQUIT(r) == {goodbye(r)}

(* Mutant: a wrong hop count is ignored, not refused.                      *)
parseSERVERIgnoresHops(r) == Admit(r, "SERVER",
  {r, [r EXCEPT !.given = @ \cup {"hostname"}]})

(* The server's name is stored before the hop count is checked.            *)
parseSERVER(r) == Admit(r, "SERVER",
  LET named(text) == [r EXCEPT !.given = Assigned(r, {"hostname"}, text)]
      texts == {{}, {"hostname"}}
  IN {r} \cup {sendError(named(text)) : text \in texts}
       \cup {[named(text) EXCEPT !.registrationType = "SERVER"] : text \in texts}
       \cup {[named(text) EXCEPT !.registrationType = "SERVER",
                !.linkStamp = stamp, !.given = @ \cup {"protocol"}] :
               text \in texts, stamp \in {-1, 0, 1}})

parseSERVICE(r) == Admit(r, "SERVICE",
  {r} \cup {[r EXCEPT !.registrationType = "SERVICE",
               !.given = Assigned(r, {"username", "distribution"}, text)] :
              text \in SUBSET {"username", "distribution"}})

parseUSER(r) == Admit(r, "USER",
  {r} \cup {[r EXCEPT !.registrationType = "USER",
               !.given = Assigned(r, {"username", "hostname"}, text)] :
              text \in SUBSET {"username", "hostname"}})
-----------------------------------------------------------------------------
(* The end of parseMessage(): what is looked at after every command, known *)
(* or not, to see whether it completed the registration                    *)
Complete(r) ==
  \/ /\ r.registrationType = "USER"
     /\ r.name # NoName /\ r.pongsLeft = 0
     /\ {"username", "hostname"} \subseteq r.given
  \/ /\ r.registrationType = "IIRCN"
     /\ r.name # NoName /\ r.linkStamp > 0
     /\ {"password", "hostname", "protocol"} \subseteq r.given
  \/ /\ r.registrationType = "SERVER"
     /\ {"password", "hostname"} \subseteq r.given
  \/ /\ r.registrationType = "SERVICE"
     /\ r.name # NoName
     /\ {"password", "distribution"} \subseteq r.given

(* Services are not supported, and a server must have named its protocol.  *)
MayHandOver(r) ==
  /\ Complete(r)
  /\ r.registrationType # "SERVICE"
  /\ r.registrationType = "SERVER" => "protocol" \in r.given
=============================================================================
