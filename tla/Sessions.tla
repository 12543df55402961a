------------------------------ MODULE Sessions ------------------------------
(***************************************************************************)
(* The life of a connection in the daemon: accepted, spoken to by the      *)
(* registrar, handed over to a user protocol whose user joins the registry,*)
(* and deleted.  Composes Registrar and Registry.                          *)
(*                                                                         *)
(* The daemon is one thread in a select() loop.  One turn of it reads one  *)
(* chunk from one connection and runs every complete line in it before it  *)
(* looks at another connection, so steps of sessions interleave between    *)
(* chunks and never inside one: "reading" is the connection whose chunk is *)
(* being parsed.  goodbye() only clears a flag that the next chunk is      *)
(* refused by; the rest of the current chunk is parsed all the same.       *)
(*                                                                         *)
(* After undefined behaviour (phase "undefined") the model takes no step:  *)
(* the chunk it happened in never ends.                                    *)
(* The commands of a user other than QUIT and those that look a user up    *)
(* change nothing kept here.                                               *)
(***************************************************************************)
EXTENDS Registry, Registrar

CONSTANT Crowds       \* the peers considered: the flags of the listener they
                      \* come by, and the registrar's commands each uses

ASSUME SessionsAssumption ==
  \A p \in Crowds : /\ p.listener \subseteq Kinds
                    /\ DOMAIN p.commands = Conns

VARIABLES
  crowd,        \* the peers there are
  registrar,    \* the registrar of every connection, with its connected flag
  phase,        \* which protocol object has the connection
  reading,      \* the connection whose chunk is being parsed, or NoConn
  welcomed,     \* the users whose protocol was welcomed (001) by its constructor
  left          \* history: the users that have called quit()

sessionVars == <<crowd, registrar, phase, reading, welcomed, left>>
vars == <<sessionVars, registryVars>>

Phases == {"closed", "registrar", "user", "link", "gone", "undefined"}

Init ==
  /\ RegistryInit
  /\ crowd \in Crowds
  /\ registrar = [c \in Conns |-> NewRegistrar({})]
  /\ phase = [c \in Conns |-> "closed"]
  /\ reading = NoConn
  /\ welcomed = {}
  /\ left = {}
-----------------------------------------------------------------------------
(* Daemon::newConnection(): a Connection with a registrar of its own       *)
newConnection(c) ==
  /\ reading = NoConn
  /\ phase[c] = "closed" /\ crowd.commands[c] # {}
  /\ phase' = [phase EXCEPT ![c] = "registrar"]
  /\ registrar' = [registrar EXCEPT ![c] = NewRegistrar(crowd.listener)]
  /\ UNCHANGED <<crowd, reading, welcomed, left, registryVars>>

(* Connection::handleInput() of a connection that has something to read    *)
beginChunk(c) ==
  /\ reading = NoConn
  /\ phase[c] \in {"registrar", "user"}
  /\ registrar[c].connected
  /\ reading' = c
  /\ UNCHANGED <<crowd, registrar, phase, welcomed, left, registryVars>>

(* The chunk is used up: what is left of it is no complete line.           *)
endChunk(c) ==
  /\ reading = c
  /\ phase[c] # "undefined"
  /\ reading' = NoConn
  /\ UNCHANGED <<crowd, registrar, phase, welcomed, left, registryVars>>

(* Mutant: the user's entry goes with the connection, and is still counted.*)
dropForgetsEntry(c) ==
  /\ reading = NoConn
  /\ phase[c] \in {"registrar", "user", "link"}
  /\ phase' = [phase EXCEPT ![c] = "gone"]
  /\ registrar' = [registrar EXCEPT ![c] = NewRegistrar({})]
  /\ users' = [k \in Keys |-> IF users[k] = c THEN NoConn ELSE users[k]]
  /\ UNCHANGED <<crowd, reading, welcomed, left, nickname, userCount, stray>>

(* handleInput() returns false, because the connection has been told       *)
(* goodbye or the peer has closed it: the poll loop deletes the Connection,*)
(* its protocol and the user in it.                                        *)
drop(c) ==
  /\ reading = NoConn
  /\ phase[c] \in {"registrar", "user", "link"}
  /\ phase' = [phase EXCEPT ![c] = "gone"]
  /\ registrar' = [registrar EXCEPT ![c] = NewRegistrar({})]
  /\ UNCHANGED <<crowd, reading, welcomed, left, registryVars>>
-----------------------------------------------------------------------------
(* A line is parsed by the registrar of c.                                 *)
Parsing(c) == reading = c /\ phase[c] = "registrar"

(* The registration is complete with r: the registrar is replaced and      *)
(* deleted while the framing loop is still inside it.  That goes well when *)
(* the line was the last of its chunk and nothing was buffered before it;  *)
(* otherwise the loop goes on with a freed object.                         *)
handOver(c, r, p) ==
  /\ MayHandOver(r)
  /\ registrar' = [registrar EXCEPT ![c] =
       [NewRegistrar({}) EXCEPT !.connected = r.connected, !.errorSent = r.errorSent]]
  /\ \/ phase' = [phase EXCEPT ![c] = p] /\ reading' = NoConn
     \/ phase' = [phase EXCEPT ![c] = "undefined"] /\ UNCHANGED reading

(* ... to a user protocol, whose constructor adds the user to the registry *)
(* and, if it was accepted, welcomes it.                                   *)
joinUser(c, r) ==
  /\ r.registrationType = "USER"
  /\ handOver(c, r, "user")
  /\ addUser(c, r.name)
  /\ welcomed' = welcomed \cup {u \in {c} : addUserError(r.name) = "NO_ERROR"}
  /\ UNCHANGED <<crowd, left>>

(* ... to a network or server protocol.                                    *)
joinLink(c, r) ==
  /\ r.registrationType \in {"IIRCN", "SERVER"}
  /\ handOver(c, r, "link")
  /\ UNCHANGED <<crowd, welcomed, left, registryVars>>

(* What parseMessage() does once a command has left the registrar in r.    *)
(* Whether a protocol of the kind asked for is found, and whether it makes *)
(* an instance, depends on the modules loaded (and, through                *)
(* ProtocolInfo::Description's key, on the build).                         *)
finish(c, r) ==
  \/ /\ Complete(r)
     /\ joinUser(c, r) \/ joinLink(c, r)
  \/ /\ registrar' = [registrar EXCEPT ![c] = IF Complete(r) THEN sendError(r) ELSE r]
     /\ UNCHANGED <<crowd, phase, reading, welcomed, left, registryVars>>

parseMessage(c, command, outcomes) ==
  /\ Parsing(c)
  /\ command \in crowd.commands[c]
  /\ \E r \in outcomes : finish(c, r)

CAPAB(c)   == parseMessage(c, "CAPAB", parseCAPAB(registrar[c]))
IIRCN(c)   == parseMessage(c, "IIRCN", parseIIRCN(registrar[c]))
NICK(c)    == parseMessage(c, "NICK", parseNICK(registrar[c], {k \in Keys : users[k] # NoConn}))
PASS(c)    == parseMessage(c, "PASS", parsePASS(registrar[c]))
PONG(c)    == parseMessage(c, "PONG", parsePONG(registrar[c]))
QUIT(c)    == parseMessage(c, "QUIT", parseQUIT(registrar[c]))
SERVER(c)  == parseMessage(c, "SERVER", parseSERVER(registrar[c]))
SERVICE(c) == parseMessage(c, "SERVICE", parseSERVICE(registrar[c]))
USER(c)    == parseMessage(c, "USER", parseUSER(registrar[c]))

(* SERVER with exactly five parameters reads a sixth.                      *)
SERVEROutOfRange(c) ==
  /\ Parsing(c)
  /\ "SERVER" \in crowd.commands[c] \cap registrar[c].listener
  /\ registrar[c].registrationType = "NONE"
  /\ phase' = [phase EXCEPT ![c] = "undefined"]
  /\ UNCHANGED <<crowd, registrar, reading, welcomed, left, registryVars>>
-----------------------------------------------------------------------------
(* The QUIT of a user: User::quit(), an ERROR and a goodbye                *)
handleQUIT(c) ==
  /\ reading = c
  /\ phase[c] = "user"
  /\ quit(c)
  /\ left' = left \cup {c}
  /\ registrar' = [registrar EXCEPT ![c] = sendError(@)]
  /\ UNCHANGED <<crowd, phase, reading, welcomed>>

(* PRIVMSG, ISON, USERHOST and others use the user found under a name,     *)
(* which is no object any more when its connection is gone.                *)
useEntry(c, n) ==
  /\ reading = c
  /\ phase[c] = "user"
  /\ findUser(n) # NoConn /\ phase[findUser(n)] = "gone"
  /\ phase' = [phase EXCEPT ![c] = "undefined"]
  /\ UNCHANGED <<crowd, registrar, reading, welcomed, left, registryVars>>
-----------------------------------------------------------------------------
Line(c) ==
  \/ CAPAB(c) \/ IIRCN(c) \/ NICK(c) \/ PASS(c) \/ PONG(c) \/ QUIT(c)
  \/ SERVER(c) \/ SERVICE(c) \/ USER(c) \/ SERVEROutOfRange(c)
  \/ handleQUIT(c) \/ \E n \in Names : useEntry(c, n)

Next ==
  \E c \in Conns :
    newConnection(c) \/ beginChunk(c) \/ Line(c) \/ endChunk(c) \/ drop(c)

Spec == Init /\ [][Next]_vars
-----------------------------------------------------------------------------
(* Two users whose nicknames are the same one to the registry              *)
Namesakes(u, v) ==
  /\ u # v
  /\ nickname[u] # NoName /\ nickname[v] # NoName
  /\ IRCtoLower[nickname[u]] = IRCtoLower[nickname[v]]

(* Every variable has its type.                                            *)
SessionsTypeOK ==
  /\ crowd \in Crowds
  /\ registrar \in [Conns -> RegistrarState]
  /\ phase \in [Conns -> Phases]
  /\ reading \in Conns \cup {NoConn}
  /\ \A c \in Conns : phase[c] = "undefined" => reading = c
  /\ welcomed \subseteq Conns /\ left \subseteq Conns

(* Whom the registry lists was welcomed and has not quit: no entry is left *)
(* behind by a QUIT, and none is made for a user whose constructor gave up.*)
EntriesAreMembers == \A k \in Registered : users[k] \in welcomed \ left

(* A member that has not quit is listed, unless a namesake has quit: what  *)
(* takes an entry away from its owner is only ever the QUIT of another     *)
(* user that holds the same nickname without being listed.                 *)
LostOnlyToNamesakes ==
  \A u \in welcomed \ left :
    \/ users[IRCtoLower[nickname[u]]] = u
    \/ \E v \in left : Namesakes(u, v)

(* A user protocol that the registry refused, on a connection that is      *)
(* still open, was refused because the nickname had been taken between     *)
(* NICK and the end of the registration, and for no other reason: what the *)
(* registrar collected had a valid nickname by then.                       *)
RefusedOnlyForNamesakes ==
  \A u \in Conns :
    phase[u] = "user" /\ registrar[u].connected /\ u \notin welcomed =>
      \E v \in welcomed : Namesakes(u, v)

(* What a refused SERVER or IIRCN command stored before it was refused is  *)
(* never used by an open connection: a registrar that is open and of no    *)
(* kind yet has no host name, protocol or time stamp.                      *)
NothingOfRefusedLines ==
  \A c \in Conns :
    registrar[c].connected /\ registrar[c].registrationType = "NONE" =>
      /\ registrar[c].given \subseteq {"password"}
      /\ registrar[c].linkStamp = -1

(* The registry inside the daemon takes no step that Registry does not     *)
(* allow: connections, hand-overs and deletions leave it alone but for     *)
(* whole additions and whole quits, counters included.                     *)
ImplementsRegistry == RegistrySpec
=============================================================================
