------------------------------ MODULE Queries -------------------------------
(***************************************************************************)
(* What users are answered: the dispatcher of their lines and the handlers *)
(* that only tell (src/mod_irc2user/protocol.cpp and handlers.cpp, and the *)
(* replies of src/lib_irc2/common.cpp).  Extends Registry, which holds what*)
(* they tell about; the commands by which users talk and choose languages  *)
(* are in Chat.                                                            *)
(*                                                                         *)
(* A parameter is the list of what commas separate in it.  An answer is a  *)
(* sequence of messages; rows that come from a table of texts (INFO, MOTD, *)
(* the counters of commands) are represented by one.  No user is an        *)
(* operator (isOperator() of this version), nothing hides a host, and there*)
(* are no services and no channels.  Where a handler uses an entry whose   *)
(* user is gone, the model stops (undefined).                              *)
(***************************************************************************)
EXTENDS Registry, Names, SequencesExt

CONSTANTS
  ServerName,       \* what clients call this server by its name
  Spelling,         \* the characters of each nickname
  Lines,            \* the lines clients send: [command, parameters]
  Servers,          \* the servers: their configurations and machines
  SuffixLength,     \* the octets of the text at the end of RPL_ISUPPORT
  MaxUnsigned       \* the largest number of an unsigned int

(* What stands for the command of who has just connected: a command that is*)
(* read has no spaces.                                                     *)
Connecting == "just connected"

(* What stands for every word that has commas in it                        *)
WithCommas == "a,b"

(* Commands that change what is told are actions here, and talking is left *)
(* to Chat: their lines are not among Lines.                               *)
NotAsked == {"AWAY", "LANGUAGE", "NOTICE", "PRIVMSG", "QUIT", "SQUERY"}

(* The limits of a configuration that are told have at most nine digits.   *)
Limits(s) == {s.maxLanguages, s.maxNickNameLength, s.maxChannelNameLength, s.maxChannels}

ASSUME QueriesAssumption ==
  /\ ServerName \notin Names /\ WithCommas \notin Names \cup {ServerName}
  /\ Spelling \in [Names -> Seq(Nat)]
  /\ \A line \in Lines :
       /\ line.command \notin NotAsked \cup {Connecting}
       /\ line.parameters \in Seq(Seq(STRING))
       /\ \A i \in DOMAIN line.parameters : line.parameters[i] # <<>>
  /\ \A s \in Servers :
       /\ s.serverName \in Seq(Nat) /\ s.networkName \in Seq(Nat)
       /\ networkNameAccepted(s.networkName)
       /\ ValidNames = {n \in Names :
            nicknameError(Spelling[n], s.maxNickNameLength) = "NO_ERROR"}
       /\ \A n \in Limits(s) : n \in Nat /\ n < 10 ^ 9
       /\ s.languages \in Seq(Nat) /\ s.loggedIn \in Nat
       /\ s.timezone \in Int /\ s.uptime \in Nat
  /\ SuffixLength \in Nat
  /\ MaxUnsigned \in Nat \ {0}

VARIABLES
  phase,        \* whether a connection has a user protocol
  away,         \* User::isAway()
  speaks,       \* whether the user's list of languages holds any
  server,       \* which of the servers this is
  asked,        \* the last line that was answered, and whose it was
  reply,        \* the messages that answered it
  undefined     \* whether the daemon's behaviour is defined no more

askVars == <<asked, reply>>
vars == <<registryVars, phase, away, speaks, server, askVars, undefined>>

Nothing == [of |-> NoConn, command |-> "", parameters |-> <<>>]

Init ==
  /\ RegistryInit
  /\ phase = [u \in Conns |-> "closed"]
  /\ away = [u \in Conns |-> FALSE]
  /\ speaks = [u \in Conns |-> FALSE]
  /\ server \in Servers
  /\ asked = Nothing /\ reply = <<>>
  /\ undefined = FALSE
-----------------------------------------------------------------------------
(* The table of commands, in the order of the list it is copied to         *)
Privileged == {"DIE", "KILL", "REHASH", "RESTART", "WALLOPS"}
Disabled == {"DIE", "RESTART", "WALLOPS"}

commandList ==
  <<"ADMIN", "AWAY", "DIE", "HELP", "INFO", "ISON", "JOIN", "KILL", "LANGUAGE", "LUSERS",
    "MOTD", "NAMES", "NETWORKS", "NICK", "NOTICE", "OPER", "PART", "PING", "PRIVMSG",
    "QUIT", "REHASH", "RESTART", "SQUERY", "STATS", "SUMMON", "TIME", "USERHOST",
    "USERS", "VERSION", "WALLOPS", "WHOIS", "WHOWAS">>
Commands == ToSet(commandList)

minimumParams(command) ==
  CASE command \in {"KILL", "OPER"} -> 2
    [] command \in {"DIE", "ISON", "JOIN", "PART", "RESTART", "STATS", "SUMMON",
                    "USERHOST", "WALLOPS", "WHOIS", "WHOWAS"} -> 1
    [] OTHER -> 0

(* Mutant: only what every operator may do is kept from others.            *)
hasAccessUnlessGlobal(command) == command \notin Privileged \ {"WALLOPS"}

(* CommandInfo::hasAccess(), of a user that is no operator                 *)
hasAccess(command) == command \notin Privileged

Told(numeric) == [numeric |-> numeric]
ToldOf(numeric, x) == [numeric |-> numeric, of |-> x]

(* A server is named where only this one answers.                          *)
Elsewhere(p, place, answer) ==
  IF Len(p) >= place THEN <<Told("NOSUCHSERVER")>> ELSE answer

(* A message, or another element, that is there only under a condition     *)
When(condition, x) == IF condition THEN <<x>> ELSE <<>>

(* Whom the registry has under a name, or under a word that is none        *)
holder(n) == IF n \in Names THEN findUser(n) ELSE NoConn

(* The users that are found under names, in their order                    *)
Found(names) ==
  FlattenSeq([i \in DOMAIN names |-> When(holder(names[i]) # NoConn, holder(names[i]))])

(* A parameter as one word, which is how all but WHOIS take it: a word with*)
(* a comma in it names nobody and nothing.                                 *)
Whole(x) == IF Len(x) = 1 THEN x[1] ELSE WithCommas
Words(p) == [i \in DOMAIN p |-> Whole(p[i])]
-----------------------------------------------------------------------------
(* MyServer::MyServer(): a server whose name is not valid is not in the    *)
(* registry, and nobody is told so unless asserts are compiled in.         *)
registeredServers ==
  IF serverNameError(server.serverName) = "NO_ERROR" THEN {ServerName} ELSE {}

(* The counters of MyNetwork.  Its constructor counts this server and this *)
(* network, without asking whether they could be registered; services are  *)
(* never counted, and channels are not counted yet.                        *)
network(count) ==
  [users |-> count, services |-> 0, clients |-> count, servers |-> 1, networks |-> 1,
   channels |-> 0]

findServerTarget(n) == n \in registeredServers \/ holder(n) # NoConn

(* No server answers for its administrator: this one does not support it.  *)
requestAdminInfo == "UNSUPPORTED_BY_ENTITY"

handleADMIN(p) ==
  IF p = <<>> \/ findServerTarget(Whole(p[1]))
  THEN (IF requestAdminInfo = "NO_ERROR" THEN <<>> ELSE <<Told("UNKNOWNERROR")>>)
  ELSE <<Told("NOSUCHSERVER")>>

(* HELP on the commands that match a mask and that the user may use        *)
handleHELP(p) ==
  LET matches(c) == p = <<>> \/ c = Whole(p[1])
      row(c) == When(matches(c) /\ hasAccess(c), ToldOf("HELP", c))
  IN FlattenSeq([i \in DOMAIN commandList |-> row(commandList[i])]) \o <<Told("HELP_END")>>

doINFO == <<Told("INFO"), Told("ENDOFINFO")>>
handleINFO(p) == Elsewhere(p, 1, doINFO)

(* One reply names all that are here, as they spell themselves.            *)
handleISON(p) ==
  LET here == Found(Words(p))
  IN <<ToldOf("ISON", [i \in DOMAIN here |-> nickname[here[i]]])>>

handleJOIN == <<Told("NOSUCHCHANNEL")>>

doLUSERS(count) ==
  LET n == network(count)
  IN <<ToldOf("LUSERCLIENT", [users |-> n.users, services |-> n.services, servers |-> n.servers]),
       Told("LUSEROP"), Told("LUSERSTAFF"), Told("LUSERUNKNOWN"),
       ToldOf("LUSERCHANNELS", n.channels), ToldOf("LUSERME", count),
       ToldOf("LOCALUSERS", count), ToldOf("GLOBALUSERS", n.users)>>
handleLUSERS(p) == Elsewhere(p, 1, doLUSERS(userCount))

doMOTD == <<Told("MOTDSTART"), Told("MOTD"), Told("ENDOFMOTD")>>
handleMOTD(p) == Elsewhere(p, 1, doMOTD)

handleNAMES == <<Told("ENDOFNAMES")>>

(* Who names a network is not answered.                                    *)
handleNETWORKS(p) == IF p = <<>> THEN <<Told("ENDOF_GENERIC")>> ELSE <<>>

(* User::changeNickname() returns an error before it does anything.        *)
changeNickname == "UNKNOWN_ERROR"

handleNICK(p) ==
  IF p = <<>> THEN <<Told("NONICKNAMEGIVEN")>>
  ELSE IF changeNickname = "NO_ERROR" THEN <<>> ELSE <<Told("ERRONEUSNICKNAME")>>

handleOPER == <<Told("NOOPERHOST")>>
handlePART == <<Told("NOTONCHANNEL")>>
handlePING(p) == IF p = <<>> THEN <<Told("NOORIGIN")>> ELSE <<Told("PONG")>>
-----------------------------------------------------------------------------
(* strncmp(request, name, n) = 0                                           *)
Shortened(name, n) == SubSeq(name, 1, Min({n, Len(name)}))
Abbreviates(request, name, minChars) ==
  request = Shortened(name, Max({Len(request), minChars}))

statsCommands == <<[request |-> "languages", minChars |-> 2],
                   [request |-> "listconnections", minChars |-> 1],
                   [request |-> "operators", minChars |-> 1],
                   [request |-> "resources", minChars |-> 1],
                   [request |-> "uptime", minChars |-> 1]>>

(* A row for each language, with how much of it there is                   *)
handleLanguages == [i \in DOMAIN server.languages |-> Told("NONE")]

(* A row for each connection, whoever it is: one stands for them           *)
Open == {u \in Conns : phase[u] = "user"}
handleListConnections == <<ToldOf("STATSLINKINFO", Open)>>

(* There are no operators: the row is an example of one.                   *)
handleOperators == <<Told("STATSOLINE")>>

(* A row for each thing that a call of the system tells, as far as the     *)
(* build has the call and it succeeds                                      *)
resourceTable ==
  <<[row |-> "UNAME", call |-> "uname"], [row |-> "MEMORY", call |-> "sysinfo"],
    [row |-> "PROCESSES", call |-> "sysinfo"], [row |-> "UPTIME", call |-> "sysinfo"],
    [row |-> "FAULTS_SWAP", call |-> "getrusage"], [row |-> "CONTEXT", call |-> "getrusage"]>>

handleResources ==
  FlattenSeq([i \in DOMAIN resourceTable |->
    When(resourceTable[i].call \in server.calls, ToldOf("NONE", resourceTable[i].row))])

handleUptime ==
  LET t == server.uptime
  IN <<ToldOf("STATSUPTIME",
         [days |-> t \div 86400, hours |-> (t % 86400) \div 3600,
          minutes |-> (t % 3600) \div 60, seconds |-> t % 60])>>

(* The first of the library's requests that is abbreviated, if any         *)
doSTATS(request) ==
  LET meant == {i \in DOMAIN statsCommands :
                  Abbreviates(request, statsCommands[i].request, statsCommands[i].minChars)}
      first == IF meant = {} THEN "none" ELSE statsCommands[Min(meant)].request
  IN (CASE first = "languages" -> handleLanguages
        [] first = "listconnections" -> handleListConnections
        [] first = "operators" -> handleOperators
        [] first = "resources" -> handleResources
        [] first = "uptime" -> handleUptime
        [] first = "none" -> <<>>)
     \o <<Told("ENDOFSTATS")>>

(* The counters of the commands are the protocol's own request.            *)
handleSTATS(p) ==
  Elsewhere(p, 2,
    IF Abbreviates(Whole(p[1]), "messages", 1)
    THEN <<ToldOf("STATS", "messages"), Told("ENDOFSTATS")>>
    ELSE doSTATS(Whole(p[1])))

handleSUMMON(p) == Elsewhere(p, 2, <<Told("SUMMONDISABLED")>>)

(* Seconds west of Greenwich as a sign, hours and minutes.  A division in  *)
(* C++ rounds towards zero, and west of Greenwich both numbers, too, have  *)
(* the sign that is already there.                                         *)
offset(zone) ==
  LET toZero(n, m) == IF n >= 0 THEN n \div m ELSE -((-n) \div m)
      hours == toZero(-zone, 3600)
  IN [sign |-> IF zone > 0 THEN "-" ELSE "+",
      hours |-> hours, minutes |-> toZero(-zone - 3600 * hours, 60)]

sendTimeOnServer == <<ToldOf("TIMEONSERVERIS", offset(server.timezone))>>

doTIME == sendTimeOnServer \o <<ToldOf("TIME", offset(server.timezone))>>
handleTIME(p) == Elsewhere(p, 1, doTIME)

(* The users that are logged in to the machine                             *)
doUSERS ==
  IF ~server.usersCommand THEN <<Told("USERSDISABLED")>>
  ELSE <<Told("USERSSTART")>>
       \o (IF server.loggedIn = 0 THEN <<Told("NOUSERS")>>
           ELSE [i \in 1..server.loggedIn |-> Told("USERS")])
       \o <<Told("ENDOFUSERS")>>
handleUSERS(p) == Elsewhere(p, 1, doUSERS)

(* The first five names only                                               *)
FirstFive(p) == SubSeq(Words(p), 1, Min({5, Len(p)}))
handleUSERHOST(p) ==
  LET found == Found(FirstFive(p))
  IN <<ToldOf("USERHOST",
         [i \in DOMAIN found |-> [user |-> found[i], away |-> away[found[i]]]])>>
-----------------------------------------------------------------------------
maxParams == 15
maxMessageSize == 512

(* ISupport: what is known of a token is how many octets it has.  These are*)
(* told of every server; STATUSMSG is not among them, since the macro that *)
(* asks for it is spelt wrong.                                             *)
preInitInfo == <<7, 3, 5, 7, 7, 7, 4, 13, 19, 19>>

(* String::convert() of a number, in octets                                *)
Width(n) == Min({k \in 1..9 : n < 10 ^ k})

(* The octets of what is there and of tokens behind it, each behind one    *)
(* that separates it                                                       *)
Joined(there, tokens) ==
  LET octets[i \in 0..Len(tokens)] ==
        IF i = 0 THEN there ELSE octets[i - 1] + 1 + tokens[i]
  IN octets[Len(tokens)]

(* LANGUAGE= the limit, and each code behind a comma, the default's marked *)
languageInfo(s) == Joined(9 + Width(s.maxLanguages) + 1, s.languages)

(* ISupport::initInfo(), as far as the commands it asks for are compiled in*)
initInfo(s) ==
  preInitInfo
  \o <<8 + Width(s.maxNickNameLength), 11 + Width(s.maxChannelNameLength),
       12 + Width(s.maxChannels)>>
  \o (IF s.networkName = <<>> THEN <<>> ELSE <<8 + Len(s.networkName)>>)
  \o <<languageInfo(s)>>

info == initInfo(server)

(* What sendISUPPORT() allows itself in a message to a user named n, as an *)
(* unsigned number: where nothing is left, no message is too long.         *)
maxOutputLength(n) ==
  (maxMessageSize - SuffixLength - Len(Spelling[n]) - Len(server.serverName) - 10)
    % (MaxUnsigned + 1)

(* The octets of tokens with a space between them                          *)
Octets(tokens) == IF tokens = <<>> THEN 0 ELSE Joined(-1, tokens)

(* Mutant: only the number of tokens ends a message.                       *)
chunkByNumber(s, token, limit) ==
  LET purge == s.params + 1 > maxParams - 2
  IN [sent |-> IF purge THEN Append(s.sent, s.output) ELSE s.sent,
      output |-> IF purge THEN <<token>> ELSE Append(s.output, token),
      params |-> IF purge THEN 0 ELSE s.params + 1]

(* One round of the loop of sendISUPPORT(): the buffer is sent before a    *)
(* token that would be too many or too much for it.  The count starts at 0 *)
(* again with that token already in the buffer, so that a message could    *)
(* have one more than it should; the tokens there are do not come to that. *)
chunk(s, token, limit) ==
  LET purge == s.params + 1 > maxParams - 2 \/ Octets(s.output) + token > limit
  IN [sent |-> IF purge THEN Append(s.sent, s.output) ELSE s.sent,
      output |-> IF purge THEN <<token>> ELSE Append(s.output, token),
      params |-> IF purge THEN 0 ELSE s.params + 1]

(* The rows that are sent to a user named n: those of the loop, and what it*)
(* has left in the buffer                                                  *)
supportRows(n) ==
  LET after[i \in 0..Len(info)] ==
        IF i = 0 THEN [sent |-> <<>>, output |-> <<>>, params |-> 0]
        ELSE chunk(after[i - 1], info[i], maxOutputLength(n))
      end == after[Len(info)]
  IN end.sent \o When(end.output # <<>>, end.output)

sendISUPPORT(n) == [i \in DOMAIN supportRows(n) |-> ToldOf("ISUPPORT", supportRows(n)[i])]

doVERSION == <<Told("VERSION")>>
handleVERSION(p, n) == Elsewhere(p, 1, doVERSION \o sendISUPPORT(n))

(* What doWHOIS() tells of a user who is there                             *)
whoisUser(v) ==
  <<ToldOf("WHOISUSER", v), ToldOf("WHOIS_HIDDEN", v), ToldOf("WHOISSERVER", v)>>
  \o When(speaks[v], ToldOf("WHOISLANGUAGE", v)) \o When(away[v], ToldOf("AWAY", v))
  \o <<ToldOf("WHOISIDLE", v)>>

(* Mutant: who has been found is not found as well.                        *)
whoisOneFallsThrough(n) ==
  (IF holder(n) = NoConn THEN <<>> ELSE whoisUser(holder(n))) \o <<ToldOf("NOSUCHNICK", n)>>

(* What it tells of one target                                             *)
whoisOne(n) ==
  IF holder(n) = NoConn THEN <<ToldOf("NOSUCHNICK", n)>> ELSE whoisUser(holder(n))

(* Mutant: the list ends with each target.                                 *)
doWHOISEndsEach(targets) ==
  FlattenSeq([i \in DOMAIN targets |-> whoisOne(targets[i]) \o <<Told("ENDOFWHOIS")>>])

doWHOIS(targets) ==
  FlattenSeq([i \in DOMAIN targets |-> whoisOne(targets[i])]) \o <<Told("ENDOFWHOIS")>>
handleWHOIS(p) == Elsewhere(p, 2, doWHOIS(p[1]))

(* What is told of the past is the same of everyone.                       *)
doWHOWAS == <<Told("WHOWASUSER"), Told("WHOISSERVER"), Told("WHOWASDETAILS"),
              Told("WASNOSUCHNICK"), Told("ENDOFWHOWAS")>>
handleWHOWAS(p) == Elsewhere(p, 3, doWHOWAS)
-----------------------------------------------------------------------------
(* What operators ask of this server, or of a client, is yet to be written:*)
(* MyServer::rehash(), restart(), shutdown() and sendWallops(), and        *)
(* Client::kill(), return an error and do nothing.                         *)
rehash == "UNKNOWN_ERROR"
restart == "UNKNOWN_ERROR"
shutdown == "UNKNOWN_ERROR"
sendWallops == "UNKNOWN_ERROR"
kill == "UNKNOWN_ERROR"

(* What an operator is told of the error                                   *)
Outcome(error, success) ==
  CASE error = "NO_ERROR" -> success
    [] error = "PERMISSION_DENIED" -> <<Told("NOPRIVILEGES")>>
    [] error = "TEXT_TOO_SHORT" -> <<Told("TEXTTOOSHORT")>>
    [] OTHER -> <<Told("UNKNOWNERROR")>>

handleDIE == Outcome(shutdown, <<>>)
handleRESTART == Outcome(restart, <<>>)
handleWALLOPS == Outcome(sendWallops, <<>>)
handleREHASH == Outcome(rehash, <<Told("REHASHING")>>)

handleKILL(p) ==
  IF Found(<<Whole(p[1])>>) = <<>> THEN <<Told("NOSUCHNICK")>> ELSE Outcome(kill, <<>>)
-----------------------------------------------------------------------------
(* The handler of a command that is enabled and that the user may use.  No *)
(* user comes to those of operators, here as in the code.                  *)
handler(command, p, n) ==
  CASE command = "ADMIN" -> handleADMIN(p)
    [] command = "DIE" -> handleDIE
    [] command = "HELP" -> handleHELP(p)
    [] command = "INFO" -> handleINFO(p)
    [] command = "ISON" -> handleISON(p)
    [] command = "JOIN" -> handleJOIN
    [] command = "KILL" -> handleKILL(p)
    [] command = "LUSERS" -> handleLUSERS(p)
    [] command = "MOTD" -> handleMOTD(p)
    [] command = "NAMES" -> handleNAMES
    [] command = "NETWORKS" -> handleNETWORKS(p)
    [] command = "NICK" -> handleNICK(p)
    [] command = "OPER" -> handleOPER
    [] command = "PART" -> handlePART
    [] command = "PING" -> handlePING(p)
    [] command = "REHASH" -> handleREHASH
    [] command = "RESTART" -> handleRESTART
    [] command = "STATS" -> handleSTATS(p)
    [] command = "SUMMON" -> handleSUMMON(p)
    [] command = "TIME" -> handleTIME(p)
    [] command = "USERHOST" -> handleUSERHOST(p)
    [] command = "USERS" -> handleUSERS(p)
    [] command = "VERSION" -> handleVERSION(p, n)
    [] command = "WALLOPS" -> handleWALLOPS
    [] command = "WHOIS" -> handleWHOIS(p)
    [] command = "WHOWAS" -> handleWHOWAS(p)

(* parseMessage() refuses a line before it looks at its parameters, or     *)
(* since there are too few.                                                *)
refusal(command, p) ==
  CASE command \notin Commands -> "UNKNOWNCOMMAND"
    [] command \in Disabled -> "DISABLED"
    [] command \in Commands \ Disabled /\ ~hasAccess(command) -> "NOPRIVILEGES"
    [] command \in Commands \ Disabled /\ hasAccess(command) ->
         IF Len(p) < minimumParams(command) THEN "NEEDMOREPARAMS" ELSE "NONE"

(* The names whose users a handler looks at                                *)
LookedAt(command, p) ==
  CASE command = "ADMIN" /\ p # <<>> -> <<Whole(p[1])>>
    [] command = "ISON" -> Words(p)
    [] command = "USERHOST" -> FirstFive(p)
    [] command = "KILL" -> <<Whole(p[1])>>
    [] command = "WHOIS" /\ Len(p) = 1 -> p[1]
    [] OTHER -> <<>>

Dangles(names) == \E v \in ToSet(Found(names)) : phase[v] = "gone"
-----------------------------------------------------------------------------
(* Something may happen that is not the sending of an answer: answers are  *)
(* taken as they come, since no step looks at them.                        *)
Ready == ~undefined /\ asked = Nothing

(* What a user is greeted with                                             *)
welcome(n, count) ==
  <<Told("WELCOME"), Told("YOURHOST"), Told("CREATED"), Told("MYINFO")>> \o sendISUPPORT(n)
  \o <<Told("YOURLANGUAGEIS")>> \o sendTimeOnServer \o doLUSERS(count) \o doMOTD

(* The constructor: a user that is refused is not welcomed.                *)
Connect(u, n) ==
  /\ Ready /\ phase[u] = "closed"
  /\ phase' = [phase EXCEPT ![u] = "user"]
  /\ addUser(u, n)
  /\ LET accepted == addUserError(n) = "NO_ERROR"
     IN /\ speaks' = [speaks EXCEPT ![u] = accepted]
        /\ reply' = IF accepted THEN welcome(n, userCount') ELSE <<>>
  /\ asked' = [of |-> u, command |-> Connecting, parameters |-> <<>>]
  /\ UNCHANGED <<away, server, undefined>>

(* The poll loop deletes the connection, the protocol and its user.        *)
Lose(u) ==
  /\ Ready /\ phase[u] = "user"
  /\ phase' = [phase EXCEPT ![u] = "gone"]
  /\ away' = [away EXCEPT ![u] = FALSE]
  /\ speaks' = [speaks EXCEPT ![u] = FALSE]
  /\ UNCHANGED <<askVars, registryVars, server, undefined>>

(* AWAY with a reason, or without one                                      *)
handleAWAY(u) ==
  /\ Ready /\ phase[u] = "user"
  /\ away' = [away EXCEPT ![u] = ~@]
  /\ UNCHANGED <<askVars, registryVars, phase, speaks, server, undefined>>

(* LANGUAGE with a code that is known gives languages to who has none.     *)
handleLANGUAGE(u) ==
  /\ Ready /\ phase[u] = "user" /\ ~speaks[u]
  /\ speaks' = [speaks EXCEPT ![u] = TRUE]
  /\ UNCHANGED <<askVars, registryVars, phase, away, server, undefined>>

handleQUIT(u) ==
  /\ Ready /\ phase[u] = "user"
  /\ quit(u)
  /\ UNCHANGED <<askVars, phase, away, speaks, server, undefined>>

(* A line of u that is refused, or answered by its handler                 *)
ask(u, line) ==
  /\ Ready /\ phase[u] = "user"
  /\ LET refused == refusal(line.command, line.parameters)
         dangles == refused = "NONE" /\ Dangles(LookedAt(line.command, line.parameters))
     IN \/ /\ ~dangles
           /\ asked' = [of |-> u, command |-> line.command, parameters |-> line.parameters]
           /\ reply' = IF refused # "NONE" THEN <<Told(refused)>>
                       ELSE handler(line.command, line.parameters, nickname[u])
           /\ UNCHANGED undefined
        \/ /\ dangles
           /\ undefined' = TRUE /\ UNCHANGED askVars
  /\ UNCHANGED <<registryVars, phase, away, speaks, server>>

(* The poll loop writes the answer, and its reader has it.                 *)
sendOutput ==
  /\ asked # Nothing
  /\ asked' = Nothing /\ reply' = <<>>
  /\ UNCHANGED <<registryVars, phase, away, speaks, server, undefined>>

Next ==
  \/ sendOutput
  \/ \E u \in Conns :
    \/ \E n \in Names : Connect(u, n)
    \/ Lose(u) \/ handleAWAY(u) \/ handleLANGUAGE(u) \/ handleQUIT(u)
    \/ \E line \in Lines : ask(u, line)

Spec == Init /\ [][Next]_vars
-----------------------------------------------------------------------------
(* Every variable has its type; what is gone is neither away nor speaks.   *)
QueriesTypeOK ==
  /\ RegistryTypeOK
  /\ phase \in [Conns -> {"closed", "user", "gone"}]
  /\ \A u \in Conns : phase[u] # "user" => ~away[u] /\ ~speaks[u]
  /\ \A u \in Conns : phase[u] = "closed" <=> nickname[u] = NoName
  /\ server \in Servers /\ undefined \in BOOLEAN
  /\ asked.of \in Conns \cup {NoConn}

(* How often m was told, and where                                         *)
Places(numeric) == {i \in DOMAIN reply : reply[i].numeric = numeric}
Times(m) == Cardinality({i \in DOMAIN reply : reply[i] = m})

Footer == [HELP |-> "HELP_END", INFO |-> "ENDOFINFO", MOTD |-> "ENDOFMOTD",
           NAMES |-> "ENDOFNAMES", STATS |-> "ENDOFSTATS", WHOIS |-> "ENDOFWHOIS",
           WHOWAS |-> "ENDOFWHOWAS", USERS |-> "ENDOFUSERS"]

(* Whoever sends a line is answered, but for NETWORKS with a parameter; who*)
(* connects is welcomed if and only if the registry lists it; and what     *)
(* begins a list ends it: its footer comes once, and last.                 *)
QueriesEnd ==
  asked # Nothing =>
    /\ reply = <<>> =>
         \/ asked.command = "NETWORKS" /\ asked.parameters # <<>>
         \/ asked.command = Connecting
    /\ asked.command = Connecting => (reply # <<>> <=> \E k \in Registered : users[k] = asked.of)
    /\ asked.command \in DOMAIN Footer =>
         \/ Len(reply) = 1
         \/ Places(Footer[asked.command]) = {Len(reply)}

(* WHOIS tells of each target, in the order asked, that there is nobody or *)
(* who there is; that it is away, and speaks languages, exactly if so; and *)
(* all of one before the next.                                             *)
WhoisTellsTheState ==
  asked.command = "WHOIS" /\ Places("ENDOFWHOIS") # {} =>
    LET targets == asked.parameters[1]
        heads == Places("WHOISUSER") \cup Places("NOSUCHNICK")
        TargetOf(i) == targets[Cardinality({j \in heads : j <= i})]
    IN /\ Cardinality(heads) = Len(targets)
       /\ \A i \in heads :
            LET n == TargetOf(i)
            IN reply[i] = IF holder(n) = NoConn THEN ToldOf("NOSUCHNICK", n)
                          ELSE ToldOf("WHOISUSER", holder(n))
       /\ \A v \in Conns :
            LET named == Times(ToldOf("WHOISUSER", v))
            IN /\ Times(ToldOf("AWAY", v)) = IF away[v] THEN named ELSE 0
               /\ Times(ToldOf("WHOISLANGUAGE", v)) = IF speaks[v] THEN named ELSE 0
               /\ Times(ToldOf("WHOISIDLE", v)) = named
       /\ \A i \in DOMAIN reply : reply[i].numeric \in {"AWAY", "WHOISLANGUAGE", "WHOISIDLE"} =>
            \E j \in heads : /\ j < i /\ heads \cap ((j + 1)..i) = {}
                              /\ reply[j] = ToldOf("WHOISUSER", reply[i].of)

(* The times of STATS add up to how long the daemon has run; where time is *)
(* not behind Greenwich, TIME tells how many minutes it is ahead.          *)
StatsTellTheState ==
  \A i \in DOMAIN reply :
    LET of == reply[i].of
    IN /\ reply[i].numeric = "STATSUPTIME" =>
            /\ of.hours < 24 /\ of.minutes < 60 /\ of.seconds < 60
            /\ 60 * (60 * (24 * of.days + of.hours) + of.minutes) + of.seconds = server.uptime
       /\ reply[i].numeric = "TIMEONSERVERIS" /\ server.timezone <= 0 =>
            /\ of.minutes < 60
            /\ -server.timezone - 60 * (60 * of.hours + of.minutes) \in 0..59

(* What is told of users and of the server is what is so at the time:      *)
(* WHOIS, STATS and TIME agree with the daemon's own state.                *)
AnswersTellTheState == WhoisTellsTheState /\ StatsTellTheState

(* HELP lists exactly the commands that would reach their handler, though  *)
(* it asks for the access to a command only, and not whether it is enabled.*)
HelpListsWhatIsAllowed ==
  asked.command = "HELP" =>
    LET enough == [i \in 1..2 |-> <<ServerName>>]
        about == IF asked.parameters = <<>> THEN Commands ELSE {Whole(asked.parameters[1])}
    IN {reply[i].of : i \in Places("HELP")} = {c \in about : refusal(c, enough) = "NONE"}

(* Who is welcomed, or asks for the version, is told every token once and  *)
(* in order, in messages that come one after another; a message has what is*)
(* allowed, but for one octet (the space is not counted) and for a token   *)
(* that is too long for any message.  None is empty, except that where not *)
(* even the first token is allowed an empty message comes before it.       *)
ISupportIsWhole ==
  asked.command \in {Connecting, "VERSION"} /\ asked.parameters = <<>> /\ reply # <<>> =>
    LET told == Places("ISUPPORT")
        rows == [i \in 1..Cardinality(told) |-> reply[Min(told) + i - 1].of]
        allowed == maxOutputLength(nickname[asked.of])
    IN /\ told = Min(told)..Max(told)
       /\ FlattenSeq(rows) = info
       /\ \A i \in DOMAIN rows :
            /\ rows[i] # <<>> \/ (i = 1 /\ info[1] > allowed)
            /\ Len(rows[i]) <= maxParams - 2
            /\ Len(rows[i]) = 1 \/ Octets(rows[i]) <= allowed + 1
=============================================================================
