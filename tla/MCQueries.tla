----------------------------- MODULE MCQueries ------------------------------
(* Three users, two spellings of one nickname (RFC 1459 has a bracket and a*)
(* brace for one letter in two cases), another nickname and one that is not*)
(* valid.  Every command comes with none and with a parameter, and with the*)
(* last that names a server.  One server has a list of languages that just *)
(* fits a message, the other one that fits none, and a name that is not    *)
(* valid; their zones are on both sides of Greenwich.                      *)
EXTENDS Queries, TLC

MCNames == {"al[", "AL{", "bob", "-bad"}
MCSpelling == [n \in MCNames |->
  CASE n = "al[" -> <<97, 108, 91>>
    [] n = "AL{" -> <<65, 76, 123>>
    [] n = "bob" -> <<98, 111, 98>>
    [] n = "-bad" -> <<45, 98, 97, 100>>]
MCFold == [n \in MCNames |-> folded(MCSpelling[n])]
MCKeys == {MCFold[n] : n \in MCNames}
MCValidNames == {n \in MCNames : nicknameError(MCSpelling[n], 3) = "NO_ERROR"}

Line(c, p) == [command |-> c, parameters |-> p]
Server == <<"irc">>
Whom == <<"bob">>
Placed == {"INFO", "LUSERS", "MOTD", "NETWORKS", "NICK", "PART", "PING", "TIME",
           "USERS", "VERSION", "WHOWAS"}
Dull == {"DIE", "JOIN", "NAMES", "OPER", "WALLOPS", "NONE"}
Named == {<<<<"al[">>>>, <<<<"bob", "AL{", "x", "al[">>>>,
          <<Whom, <<"x">>, <<"AL{">>, <<"x">>, <<"-bad">>, <<"al[">>>>}
Requests == {"m", "la", "list", "o", "res", "u", ""}

MCLines ==
  {Line(c, p) : c \in Placed, p \in {<<>>, <<Server>>}}
  \cup {Line(c, <<Server, Server>>) : c \in Dull}
  \cup {Line(c, p) : c \in {"ISON", "USERHOST", "WHOIS", "ADMIN"}, p \in Named}
  \cup {Line("STATS", <<<<r>>>>) : r \in Requests}
  \cup {Line(c, <<Whom, Server>>) : c \in {"STATS", "SUMMON", "WHOIS", "WHOWAS"}}
  \cup {Line("WHOWAS", <<Whom, Whom, Server>>)}
  \cup {Line("HELP", p) : p \in {<<>>, <<<<"KILL">>>>, <<<<"WALLOPS">>>>, <<<<"WHOIS">>>>}}

Codes(number, length) == [i \in 1..number |-> length]
Fits ==
  [serverName |-> <<105, 114, 99, 46, 120>>, networkName |-> <<75, 105, 110, 101>>,
   maxNickNameLength |-> 3, maxChannelNameLength |-> 50, maxChannels |-> 10,
   maxLanguages |-> 8, languages |-> Codes(7, 55) \o <<50>>,
   usersCommand |-> TRUE, loggedIn |-> 0, calls |-> {"uname", "sysinfo", "getrusage"},
   timezone |-> -12600, uptime |-> 93784]
TooLong ==
  [Fits EXCEPT !.serverName = <<105, 114, 99>>, !.networkName = <<>>,
               !.languages = Codes(8, 70), !.loggedIn = 2, !.calls = {"uname"},
               !.timezone = 34200, !.uptime = 59]
MCServers == {Fits, TooLong}

ConnSymmetry == Permutations(Conns)
=============================================================================
